---------------------------- MODULE AgentToldProofs ----------------------------
(* What a client was told of its groups is true and stays true, for every  *)
(* number of workers, requests, names and ids: a deleted group does not    *)
(* come back, a created one does not get lost, a list is complete, and the *)
(* events tell which groups there are.                                     *)
EXTENDS AgentProofs


(* The counter of the document has passed i, and no group has it: nothing  *)
(* that is done to the document gives i to a group again.                  *)
Clear(i, db) == i \in 0 .. db.lastId /\ \A g \in db.groups : g.id # i

\* Wherever the next call of Storage takes its document from, i is gone.
Lost(i) == Clear(i, file) /\ (inited => Clear(i, memory))

LEMMA SaveToClear ==
  ASSUME NEW db \in DbObj, NEW g \in Group, NEW i, Clear(i, db)
  PROVE  Clear(i, SaveTo(db, g))
  <1>1. CASE g.id = NoId
    <2>1. SaveTo(db, g).lastId = db.lastId + 1
      BY <1>1 DEF SaveTo
    <2>2. SaveTo(db, g).groups = db.groups \cup {[g EXCEPT !.id = db.lastId + 1]}
      BY <1>1 DEF SaveTo, Saved
    <2>3. [g EXCEPT !.id = db.lastId + 1].id = db.lastId + 1
      BY DEF Group
    <2>4. i \in 0 .. db.lastId + 1 /\ db.lastId + 1 # i
      BY DEF Clear, DbObj
    <2>5. \A h \in db.groups \cup {[g EXCEPT !.id = db.lastId + 1]} : h.id # i
      BY <2>3, <2>4 DEF Clear
    <2> QED
      BY <2>1, <2>2, <2>4, <2>5 DEF Clear
  <1>2. CASE g.id # NoId
    <2>1. SaveTo(db, g).lastId = db.lastId
      BY <1>2 DEF SaveTo, DbObj
    <2>2. \A h \in SaveTo(db, g).groups : h \in db.groups \/ \E k \in db.groups : h.id = k.id
      BY <1>2 DEF SaveTo, First, WithId, DbObj
    <2> QED
      BY <2>1, <2>2 DEF Clear
  <1> QED
    BY <1>1, <1>2

LEMMA DropClear ==
  ASSUME NEW db \in DbObj, NEW gone, NEW i, Clear(i, db)
  PROVE  Clear(i, Drop(db, gone))
  BY DEF Clear, Drop, DbObj

\* Ids are unique, so what drops one of the groups with an id drops all.
LEMMA RemovedClear ==
  ASSUME NEW db \in DbObj, Sound(db), NEW i, WithId(db, i) # {}, NEW gone \in Removals(WithId(db, i))
  PROVE  Clear(i, Drop(db, gone))
  <1>1. PICK g \in db.groups : WithId(db, i) = {g} /\ g.id = i
    BY DEF WithId, Sound
  <1>2. g.id \in 1 .. db.lastId
    BY DEF Sound
  <1>3. gone = {g}
    BY <1>1, <1>2 DEF Removals, First, DbObj
  <1>4. \A h \in db.groups \ gone : h.id # i
    BY <1>1, <1>3 DEF WithId
  <1> QED
    BY <1>1, <1>2, <1>4 DEF Clear, Drop, DbObj

(* No call of Storage, and no crash, brings back what is gone.             *)
LEMMA LostStays ==
  ASSUME Faults \subseteq {"kill"}, Inv, [Next]_storageVars, NEW i, Lost(i)
  PROVE  Lost(i)'
  <1>1. \A db \in Opened : db \in DbObj /\ Clear(i, db)
    BY OpenedSound DEF Opened, Lost
  <1>2. ASSUME NEW t \in Threads, NEW db \in Opened, NEW x, Return(t, db, x) PROVE Lost(i)'
    BY <1>1, <1>2 DEF Return, Lost, Clear
  <1>3. ASSUME NEW t \in Threads, NEW db, NEW x, Begin(t, db, x), Clear(i, db) PROVE Lost(i)'
    BY <1>3 DEF Begin, Lost, Clear
  <1>4. ASSUME NEW t \in Threads, NEW n \in Names, ByName(t, n) \/ RemoveByName(t, n)
        PROVE  Lost(i)'
    BY <1>1, <1>2, <1>3, <1>4, DropClear DEF ByName, RemoveByName
  <1>5. ASSUME NEW t \in Threads, NEW j \in 0 .. MaxId, ById(t, j) \/ Remove(t, j)
        PROVE  Lost(i)'
    BY <1>1, <1>2, <1>3, <1>5, DropClear DEF ById, Remove
  <1>6. ASSUME NEW t \in Threads, NEW g \in Group, Save(t, g) PROVE Lost(i)'
    BY <1>1, <1>3, <1>6, SaveToClear DEF Save
  <1>7. ASSUME NEW t \in Threads, Keys(t) PROVE Lost(i)'
    BY <1>2, <1>7 DEF Keys
  <1>8. ASSUME NEW t \in Threads, WriteDone(t) PROVE Lost(i)'
    <2>1. inited
      BY <1>8, StorageAssumption DEF WriteDone, Inv, TypeOK
    <2> QED
      BY <1>8, <2>1 DEF WriteDone, Lost, Clear
  <1>9. ASSUME NEW t \in Threads PROVE ~WriteFailed(t) /\ ~InitThrows(t)
    BY DEF WriteFailed, InitThrows
  <1>10. CASE Crash
    <2>1. ~inited' /\ (file' = file \/ (mutex # NoThread /\ file' = memory))
      BY <1>10 DEF Crash
    <2>2. mutex # NoThread => inited
      BY DEF Inv, TypeOK
    <2> QED
      BY <2>1, <2>2 DEF Lost, Clear
  <1>11. CASE UNCHANGED storageVars
    BY <1>11 DEF storageVars, Lost, Clear
  <1> QED
    BY <1>4, <1>5, <1>6, <1>7, <1>8, <1>9, <1>10, <1>11 DEF Next

-----------------------------------------------------------------------------
(* What a client is told, and what a worker is about to tell.              *)

Removing(t) == job[t].step = "resume" /\ Cmd(t).subject = "DELETE"

\* A call that removes a group has dropped it, and then it is gone.
RemovalOK ==
  \A t \in Threads : Removing(t) =>
    /\ mutex = t => Clear(Head(job[t].left), memory)
    /\ mutex # t /\ ret[t].status = "ok" => Lost(Head(job[t].left))

ReportedOK ==
  /\ \A t \in Threads : \A i \in job[t].removed : Lost(i)
  /\ \A r \in Requests : \A a \in Answers(r) : \A i \in a.removed : Lost(i)
  /\ \A i : Told(events, "DELETED", i) => Lost(i)

GoneInv == HolderOK /\ RemovalOK /\ ReportedOK

\* What is told after an event was published, and was not before.
LEMMA PublishTells ==
  ASSUME events \in Seq(Event), NEW s \in {"CREATED", "UPDATED", "DELETED"},
         NEW i \in 0 .. MaxId, Publish(s, i)
  PROVE  \A q, k : Told(events', q, k) => Told(events, q, k) \/ (q = s /\ k = i)
  <1> DEFINE e == [subject |-> s, id |-> i]
  <1>1. CASE UNCHANGED events
    BY <1>1
  <1>2. CASE events' = Append(events, e)
    <2>1. e \in Event
      BY DEF Event
    <2>2. /\ events' \in Seq(Event)
          /\ Len(events') = Len(events) + 1
          /\ \A k \in 1 .. Len(events) : events'[k] = events[k]
          /\ events'[Len(events) + 1] = e
      BY <1>2, <2>1, AppendProperties
    <2>3. /\ Len(events) \in Nat
          /\ DOMAIN events = 1 .. Len(events)
          /\ DOMAIN events' = 1 .. Len(events')
      BY <2>2, LenProperties
    <2>4. \A k \in DOMAIN events' : k = Len(events) + 1 \/ k \in 1 .. Len(events)
      BY <2>2, <2>3
    <2>5. \A k \in DOMAIN events' : events'[k] = e \/ (k \in DOMAIN events /\ events'[k] = events[k])
      BY <2>2, <2>3, <2>4
    <2>6. \A q, k : e = [subject |-> q, id |-> k] => q = s /\ k = i
      OBVIOUS
    <2> QED
      BY <2>5, <2>6, Zenon DEF Told
  <1> QED
    BY <1>1, <1>2 DEF Publish

-----------------------------------------------------------------------------
(* The steps of the agent, one by one.                                     *)

\* Nothing new is told, and no worker has more to report.
LEMMA ReportedKept ==
  ASSUME ReportedOK, UNCHANGED <<events, replies>>, \A i : Lost(i) => Lost(i)',
         \A t \in Threads : job'[t].removed \subseteq job[t].removed
  PROVE  ReportedOK'
  <1>1. ASSUME NEW t \in Threads, NEW i \in job'[t].removed PROVE Lost(i)'
    BY <1>1 DEF ReportedOK
  <1>2. ASSUME NEW r \in Requests, NEW a \in Answers(r)', NEW i \in a.removed PROVE Lost(i)'
    <2>1. a \in Answers(r)
      BY <1>2 DEF Answers
    <2> QED
      BY <1>2, <2>1 DEF ReportedOK
  <1>3. ASSUME NEW i, Told(events', "DELETED", i) PROVE Lost(i)'
    <2>1. Told(events, "DELETED", i)
      BY <1>3
    <2> QED
      BY <2>1 DEF ReportedOK
  <1> QED
    BY <1>1, <1>2, <1>3 DEF ReportedOK

\* A call of a worker that removes a group.
LEMMA CallRemoves ==
  ASSUME Faults \subseteq {"kill"}, Inv, JobsOK, NEW t \in Threads, Call(t),
         Cmd(t).subject = "DELETE"
  PROVE  \/ mutex' = t /\ Clear(Head(job[t].left), memory')
         \/ mutex' # t /\ ret'[t].status # "ok"
  <1> DEFINE i == Head(job[t].left)
  <1>1. ~InitThrows(t)
    BY DEF InitThrows
  <1>2. Remove(t, i)
    BY <1>1 DEF Call
  <1>3. PICK db \in Opened :
          \/ Return(t, db, Found({}))
          \/ /\ WithId(db, i) # {}
             /\ \E gone \in Removals(WithId(db, i)) : Begin(t, Drop(db, gone), Result("ok", {}))
    BY <1>2 DEF Remove
  <1>4. CASE Return(t, db, Found({}))
    <2>1. Found({}).status = "not found"
      BY DEF Found, Abstract!Found, Abstract!Result
    <2>2. ret'[t] = Found({}) /\ mutex' = NoThread
      BY <1>4 DEF Return, Inv, TypeOK
    <2> QED
      BY <2>1, <2>2, StorageAssumption
  <1>5. CASE /\ WithId(db, i) # {}
             /\ \E gone \in Removals(WithId(db, i)) : Begin(t, Drop(db, gone), Result("ok", {}))
    BY <1>5, OpenedSound, RemovedClear DEF Begin
  <1> QED
    BY <1>3, <1>4, <1>5

LEMMA GoneCall ==
  ASSUME Faults \subseteq {"kill"}, Inv, JobsOK, GoneInv, NEW t \in Threads, Call(t),
         \A i : Lost(i) => Lost(i)', HolderOK'
  PROVE  GoneInv'
  <1>1. /\ job'[t] = [job[t] EXCEPT !.step = "resume"] /\ job[t] \in Job
        /\ \A u \in Threads \ {t} : job'[u] = job[u]
        /\ UNCHANGED <<asked, events, replies>>
    BY DEF Call, JobsOK
  <1>2. job'[t].step = "resume" /\ job'[t].left = job[t].left /\ job'[t].req = job[t].req
          /\ job'[t].removed = job[t].removed
    BY <1>1 DEF Job
  <1>3. /\ mutex = NoThread /\ mutex' \in {NoThread, t}
        /\ \A u \in Threads \ {t} : ret'[u] = ret[u]
    BY CallAlone
  <1>5. ASSUME Removing(t)'
        PROVE  /\ mutex' = t => Clear(Head(job[t].left), memory')
               /\ mutex' # t => ret'[t].status # "ok"
    <2>1. Cmd(t).subject = "DELETE"
      BY <1>1, <1>2, <1>5 DEF Removing, Cmd
    <2> QED
      BY <2>1, CallRemoves
  <1>6. ASSUME NEW u \in Threads \ {t}, Removing(u)'
        PROVE  mutex' # u /\ (ret'[u].status = "ok" => Lost(Head(job[u].left))')
    <2>1. Removing(u)
      BY <1>1, <1>6 DEF Removing, Cmd
    <2>2. mutex # u /\ mutex' # u
      BY <1>3, StorageAssumption
    <2>3. ret[u].status = "ok" => Lost(Head(job[u].left))
      BY <2>1, <2>2 DEF GoneInv, RemovalOK
    <2> QED
      BY <1>1, <1>3, <2>2, <2>3 DEF Lost
  <1>7. RemovalOK'
    <2> SUFFICES ASSUME NEW u \in Threads, Removing(u)'
                 PROVE  /\ mutex' = u => Clear(Head(job'[u].left), memory')
                        /\ mutex' # u /\ ret'[u].status = "ok" => Lost(Head(job[u].left))'
      BY DEF RemovalOK
    <2>1. CASE u = t
      BY <1>2, <1>5, <2>1
    <2>2. CASE u # t
      BY <1>1, <1>6, <2>2
    <2> QED
      BY <2>1, <2>2
  <1>8. ReportedOK'
    BY <1>1, <1>2, ReportedKept DEF GoneInv
  <1> QED
    BY <1>7, <1>8 DEF GoneInv

LEMMA GoneWrite ==
  ASSUME Faults \subseteq {"kill"}, Inv, JobsOK, GoneInv, NEW t \in Threads, Write(t),
         \A i : Lost(i) => Lost(i)', HolderOK'
  PROVE  GoneInv'
  <1>1. WriteDone(t) /\ UNCHANGED <<asked, job, events, replies>>
    BY DEF Write, WriteFailed, agentVars
  <1>2. /\ mutex = t /\ mutex' = NoThread /\ file' = memory /\ memory' = memory
        /\ \A u \in Threads \ {t} : ret'[u] = ret[u]
    BY <1>1 DEF WriteDone, Inv, TypeOK
  <1>4. ASSUME NEW u \in Threads, Removing(u), ret'[u].status = "ok"
        PROVE  Lost(Head(job[u].left))'
    <2>1. CASE u = t
      <3>1. Clear(Head(job[t].left), memory)
        BY <1>2, <1>4, <2>1 DEF GoneInv, RemovalOK
      <3> QED
        BY <1>1, <1>2, <2>1, <3>1 DEF Lost, Clear
    <2>2. CASE u # t
      <3>1. Lost(Head(job[u].left))
        BY <1>2, <1>4, <2>2 DEF GoneInv, RemovalOK
      <3> QED
        BY <1>1, <3>1
    <2> QED
      BY <2>1, <2>2
  <1>5. RemovalOK'
    BY <1>1, <1>2, <1>4, StorageAssumption DEF RemovalOK, Removing, Cmd
  <1>6. ReportedOK'
    BY <1>1, ReportedKept DEF GoneInv
  <1> QED
    BY <1>5, <1>6 DEF GoneInv

\* A worker that goes on leaves Storage and waits for no call.
LEMMA ResumesElsewhere ==
  ASSUME JobsOK, TypeOK, events \in Seq(Event), ReportedOK, RemovalOK, NEW t \in Threads, Resume(t)
  PROVE  \E k : /\ Continue(t, k) /\ k.step # "resume"
                /\ \A i \in k.removed : Lost(i)
                /\ \A i : Told(events', "DELETED", i) => Lost(i)
  <1> DEFINE j == job[t]
             Fine(k) == /\ Continue(t, k) /\ k.step # "resume"
                        /\ \A i \in k.removed : Lost(i)
             Told2 == \A i : Told(events', "DELETED", i) => Lost(i)
  <1>0. /\ j \in Job /\ JobOK(j) /\ ret[t] \in Results /\ j.step = "resume" /\ mutex # t
        /\ \A i \in j.removed : Lost(i)
        /\ \A i : Told(events, "DELETED", i) => Lost(i)
    BY DEF Resume, JobsOK, TypeOK, ReportedOK
  <1>1. ASSUME NEW k \in Job
        PROVE  /\ Advance(k).removed = k.removed /\ Advance(k).step # "resume"
               /\ Fails(k).removed = k.removed /\ Fails(k).step # "resume"
    BY DEF Advance, Fails, Job
  <1>2. ASSUME UNCHANGED events PROVE Told2
    BY <1>0, <1>2
  <1>3. ASSUME Continue(t, Fails(j)) PROVE Fine(Fails(j))
    BY <1>0, <1>1, <1>3
  <1>4. ASSUME Continue(t, Advance(j)) PROVE Fine(Advance(j))
    BY <1>0, <1>1, <1>4
  <1>5. ASSUME NEW s \in {"CREATED", "UPDATED"}, NEW i \in 0 .. MaxId, Publish(s, i) PROVE Told2
    BY <1>0, <1>5, PublishTells
  <1>6. CASE AfterSave(t)
    <2> DEFINE k == [j EXCEPT !.step = "reply", !.out = ret[t].groups]
    <2>1. k.step = "reply" /\ k.removed = j.removed
      BY <1>0 DEF Job
    <2>2. Continue(t, k) => Fine(k)
      BY <1>0, <2>1
    <2>3. ASSUME NEW g \in ret[t].groups,
                 Publish(IF Cmd(t).subject = "CREATE" THEN "CREATED" ELSE "UPDATED", g.id)
          PROVE  Told2
      <3>1. g.id \in 0 .. MaxId
        BY <1>0 DEF Results, Group
      <3> QED
        BY <1>5, <2>3, <3>1
    <2> HIDE DEF k, Told2
    <2>4. Told2
      BY <1>2, <1>6, <2>3 DEF AfterSave
    <2>5. \E q : Fine(q)
      BY <1>3, <1>6, <2>2 DEF AfterSave, k
    <2> QED
      BY <2>4, <2>5 DEF Told2
  <1>7. CASE AfterRemove(t)
    <2> DEFINE i == Head(j.left)
               k == [j EXCEPT !.removed = @ \cup {i}]
    <2>1. i \in 0 .. MaxId
      <3>1. j.left # <<>>
        BY <1>0, <1>7 DEF AfterRemove, JobOK, NeedsId, Cmd
      <3> QED
        BY <1>0, <3>1, HeadTailProperties DEF Job
    <2>2. CASE ret[t].status = "ok" /\ Continue(t, Advance(k)) /\ Publish("DELETED", i)
      <3>1. Lost(i)
        BY <1>0, <1>7, <2>2 DEF AfterRemove, RemovalOK, Removing
      <3>2. Told2
        BY <1>0, <2>1, <2>2, <3>1, PublishTells
      <3>3. k \in Job /\ k.removed = j.removed \cup {i}
        BY <1>0, <2>1 DEF Job
      <3>4. Advance(k).removed = j.removed \cup {i} /\ Advance(k).step # "resume"
        <4> HIDE DEF k
        <4> QED
          BY <1>1, <3>3
      <3>5. Fine(Advance(k))
        <4> HIDE DEF k, i
        <4> QED
          BY <1>0, <2>2, <3>1, <3>4
      <3> QED
        BY <3>2, <3>5
    <2> QED
      BY <1>2, <1>4, <1>7, <2>2 DEF AfterRemove
  <1>8. CASE AfterIds(t)
    <2>1. PICK k \in {[j EXCEPT !.listing = FALSE, !.left = ids,
                                !.step = IF ids = <<>> THEN "reply" ELSE "call"] :
                        ids \in Ascending(Ids(ret[t]))} : Continue(t, k)
      BY <1>8 DEF AfterIds
    <2>2. k.step # "resume" /\ k.removed = j.removed
      BY <1>0, <2>1 DEF Job
    <2>3. Fine(k)
      BY <1>0, <2>1, <2>2
    <2> QED
      BY <1>2, <1>8, <2>3 DEF AfterIds
  <1>9. CASE AfterById(t)
    <2> DEFINE k == [j EXCEPT !.out = @ \cup ret[t].groups]
    <2>1. CASE Continue(t, Advance(k))
      <3>1. k \in Job /\ k.removed = j.removed
        BY <1>0 DEF Job, Results
      <3>2. Fine(Advance(k))
        <4> HIDE DEF k
        <4> QED
          BY <1>0, <1>1, <2>1, <3>1
      <3> QED
        BY <1>2, <1>9, <3>2 DEF AfterById
    <2> QED
      BY <1>2, <1>3, <1>9, <2>1 DEF AfterById
  <1>10. CASE AfterResolve(t)
    BY <1>2, <1>3, <1>4, <1>10 DEF AfterResolve
  <1>11. CASE Escape(t)
    <2>1. NoJob.step = "idle" /\ NoJob.removed = {}
      BY DEF NoJob
    <2>2. Fine(NoJob)
      BY <1>11, <2>1 DEF Escape
    <2> QED
      BY <1>2, <1>11, <2>2 DEF Escape
  <1> QED
    BY <1>6, <1>7, <1>8, <1>9, <1>10, <1>11 DEF Resume

\* Worker t goes on, or starts, without Storage.
LEMMA GoneElsewhere ==
  ASSUME GoneInv, HolderOK', ReportedOK', UNCHANGED <<storageVars, asked>>,
         NEW t \in Threads, mutex # t, job'[t].step # "resume",
         \A u \in Threads \ {t} : job'[u] = job[u]
  PROVE  GoneInv'
  <1>1. UNCHANGED <<inited, memory, file, mutex, ret>>
    BY DEF storageVars
  <1>3. ASSUME NEW u \in Threads, Removing(u)'
        PROVE  /\ mutex' = u => Clear(Head(job'[u].left), memory')
               /\ mutex' # u /\ ret'[u].status = "ok" => Lost(Head(job[u].left))'
    <2>1. u # t /\ job'[u] = job[u]
      BY <1>3 DEF Removing
    <2>2. Removing(u)
      BY <1>3, <2>1 DEF Removing, Cmd
    <2>3. /\ mutex = u => Clear(Head(job[u].left), memory)
          /\ mutex # u /\ ret[u].status = "ok" => Lost(Head(job[u].left))
      BY <2>2 DEF GoneInv, RemovalOK
    <2> QED
      BY <1>1, <2>1, <2>3 DEF Lost
  <1>4. \A u \in Threads : Removing(u)' => job'[u] = job[u]
    BY DEF Removing
  <1>5. RemovalOK'
    BY <1>3, <1>4 DEF RemovalOK
  <1> QED
    BY <1>5 DEF GoneInv

LEMMA GoneReply ==
  ASSUME JobsOK, GoneInv, HandledOnce, RepliesOK, NEW t \in Threads, Reply(t), HolderOK'
  PROVE  GoneInv'
  <1>0. PICK r \in Requests : r = job[t].req
    BY DEF Reply, JobsOK, JobOK
  <1>1. PICK a : a = ReplyOf(job[t])
    OBVIOUS
  <1>2. /\ job'[t] = NoJob /\ \A u \in Threads \ {t} : job'[u] = job[u]
        /\ UNCHANGED <<storageVars, asked, events>> /\ job[t] \in Job
    BY DEF Reply, JobsOK
  <1>3. mutex # t
    BY DEF Reply, GoneInv, HolderOK
  <1>4. NoJob.step # "resume" /\ NoJob.removed = {}
    BY DEF NoJob
  <1>5. \A i : Lost(i) => Lost(i)'
    BY <1>2 DEF storageVars, Lost
  <1>6. ReportedOK'
    <2>1. CASE UNCHANGED replies
      BY <1>2, <1>4, <1>5, <2>1, ReportedKept DEF GoneInv
    <2>2. CASE replies' = [replies EXCEPT ![r] = Append(@, a)]
      <3>1. replies[r] = <<>>
        BY <1>0, <1>2 DEF HandledOnce, Workers
      <3>2. replies'[r] = Append(<<>>, a) /\ \A q \in Requests \ {r} : replies'[q] = replies[q]
        BY <2>2, <3>1 DEF RepliesOK
      <3>3. a \in Answer /\ a.removed = job[t].removed
        BY <1>1, <1>2 DEF Job, ReplyOf, Answer
      <3>4. Len(Append(<<>>, a)) = 1 /\ Append(<<>>, a)[1] = a /\ Append(<<>>, a) \in Seq(Answer)
        BY <3>3, EmptySeq, AppendProperties
      <3>5. DOMAIN Append(<<>>, a) = 1 .. 1
        BY <3>4, LenProperties
      <3>6. \A b \in Answers(r)' : b = a
        BY <3>2, <3>4, <3>5 DEF Answers
      <3>7. \A q \in Requests \ {r} : Answers(q)' = Answers(q)
        BY <3>2 DEF Answers
      <3>8. \A i \in a.removed : Lost(i)
        BY <3>3 DEF GoneInv, ReportedOK
      <3>9. ASSUME NEW q \in Requests, NEW b \in Answers(q)', NEW i \in b.removed PROVE Lost(i)'
        <4>1. CASE q = r
          BY <1>5, <3>6, <3>8, <3>9, <4>1
        <4>2. CASE q # r
          BY <1>5, <3>7, <3>9, <4>2 DEF GoneInv, ReportedOK
        <4> QED
          BY <4>1, <4>2
      <3>10. ASSUME NEW u \in Threads, NEW i \in job'[u].removed PROVE Lost(i)'
        BY <1>2, <1>4, <1>5, <3>10 DEF GoneInv, ReportedOK
      <3>11. ASSUME NEW i, Told(events', "DELETED", i) PROVE Lost(i)'
        <4>1. Told(events, "DELETED", i)
          BY <1>2, <3>11
        <4> QED
          BY <1>5, <4>1 DEF GoneInv, ReportedOK
      <3> QED
        BY <3>9, <3>10, <3>11 DEF ReportedOK
    <2> QED
      BY <1>0, <1>1, <2>1, <2>2 DEF Reply
  <1> QED
    BY <1>2, <1>3, <1>4, <1>6, GoneElsewhere

LEMMA GoneStep ==
  ASSUME Faults \subseteq {"kill"}, Inv, JobsOK, GoneInv, HandledOnce, RepliesOK, EventsOK,
         [AgentNext]_vars
  PROVE  GoneInv'
  <1>0. HolderOK' /\ \A i : Lost(i) => Lost(i)'
    BY HolderOKStep, StorageStep, LostStays DEF GoneInv
  <1>1. ASSUME NEW t \in Threads, NEW r \in Requests, Start(t, r) PROVE GoneInv'
    <2> DEFINE j == [NoJob EXCEPT !.step = "call", !.req = r, !.left = asked[r].ids,
                                  !.listing = asked[r].subject = "LIST"]
    <2>1. /\ j.removed = {} /\ j.step = "call"
          /\ Fails(j).removed = {} /\ Fails(j).step = "reply"
          /\ [j EXCEPT !.step = "reply"].removed = {} /\ [j EXCEPT !.step = "reply"].step = "reply"
      BY DEF NoJob, Fails
    <2>2. job'[t].removed = {} /\ job'[t].step # "resume"
      BY <1>1, <2>1 DEF Start, JobsOK
    <2>3. \A u \in Threads \ {t} : job'[u] = job[u]
      BY <1>1 DEF Start, JobsOK
    <2>4. UNCHANGED <<storageVars, asked, events, replies>>
      BY <1>1 DEF Start
    <2>5. mutex # t
      BY <1>1, NoJobJob DEF Start, GoneInv, HolderOK
    <2>6. ReportedOK'
      BY <1>0, <2>2, <2>3, <2>4, ReportedKept DEF GoneInv
    <2> QED
      BY <1>0, <2>2, <2>3, <2>4, <2>5, <2>6, GoneElsewhere
  <1>2. ASSUME NEW t \in Threads, Call(t) PROVE GoneInv'
    BY <1>0, <1>2, GoneCall
  <1>3. ASSUME NEW t \in Threads, Write(t) PROVE GoneInv'
    BY <1>0, <1>3, GoneWrite
  <1>4. ASSUME NEW t \in Threads, Resume(t) PROVE GoneInv'
    <2>1. PICK k : /\ Continue(t, k) /\ k.step # "resume"
                   /\ \A i \in k.removed : Lost(i)
                   /\ \A i : Told(events', "DELETED", i) => Lost(i)
      BY <1>4, ResumesElsewhere DEF EventsOK, GoneInv, Inv
    <2>2. job'[t] = k /\ \A u \in Threads \ {t} : job'[u] = job[u]
      BY <2>1 DEF Continue, JobsOK
    <2>3. UNCHANGED <<storageVars, asked, replies>> /\ mutex # t
      BY <1>4, <2>1 DEF Continue, Resume
    <2>4. ASSUME NEW u \in Threads, NEW i \in job'[u].removed PROVE Lost(i)'
      BY <1>0, <2>1, <2>2, <2>4 DEF GoneInv, ReportedOK
    <2>5. ASSUME NEW r \in Requests, NEW a \in Answers(r)', NEW i \in a.removed PROVE Lost(i)'
      BY <1>0, <2>3, <2>5 DEF GoneInv, ReportedOK, Answers
    <2>6. ReportedOK'
      BY <1>0, <2>1, <2>4, <2>5 DEF ReportedOK
    <2> QED
      BY <1>0, <2>1, <2>2, <2>3, <2>6, GoneElsewhere
  <1>5. ASSUME NEW t \in Threads, Reply(t) PROVE GoneInv'
    BY <1>0, <1>5, GoneReply
  <1>6. ASSUME NEW r \in Requests, NEW c \in Commands, Process(r, c) PROVE GoneInv'
    <2>1. UNCHANGED <<storageVars, job, events, replies>>
          /\ \A q \in Requests \ {r} : asked'[q] = asked[q]
      BY <1>6 DEF Process, JobsOK
    <2>2. ReportedOK'
      BY <1>0, <2>1, ReportedKept DEF GoneInv
    <2>3. \A t \in Threads : job[t].step = "resume" => job[t].req \in Requests \ {r}
      BY <1>6, NoCommandIsNone DEF Process, JobsOK, JobOK
    <2>4. \A t \in Threads : Removing(t)' => Removing(t)
      BY <2>1, <2>3 DEF Removing, Cmd
    <2>5. RemovalOK'
      BY <2>1, <2>4 DEF GoneInv, RemovalOK, storageVars, Lost
    <2> QED
      BY <1>0, <2>2, <2>5 DEF GoneInv
  <1>7. CASE Die
    <2>1. \A t \in Threads : job'[t] = NoJob
      BY <1>7 DEF Die
    <2>2. NoJob.step # "resume" /\ NoJob.removed = {}
      BY DEF NoJob
    <2>3. mutex' = NoThread /\ UNCHANGED <<events, replies>>
      BY <1>7 DEF Die, Crash
    <2>4. ReportedOK'
      BY <1>0, <2>1, <2>2, <2>3, ReportedKept DEF GoneInv
    <2> QED
      BY <2>1, <2>2, <2>3, <2>4, StorageAssumption DEF GoneInv, HolderOK, RemovalOK, Removing
  <1>8. CASE UNCHANGED vars
    BY <1>8 DEF vars, agentVars, storageVars, GoneInv, HolderOK, RemovalOK, ReportedOK,
                Removing, Cmd, Lost, Answers, Told
  <1> QED
    BY <1>1, <1>2, <1>3, <1>4, <1>5, <1>6, <1>7, <1>8 DEF AgentNext, Work

LEMMA GoneInvHolds == GoneInv /\ TypeOK => GoneForever
  <1> SUFFICES ASSUME GoneInv, TypeOK, NEW i \in Gone, i \in Ids(memory) \cup Ids(file)
               PROVE  FALSE
    BY DEF GoneForever
  <1>1. Lost(i)
    BY DEF Gone, Announced, Told, GoneInv, ReportedOK
  <1>2. ~inited => Ids(memory) = {}
    BY DEF TypeOK, EmptyDb, Ids
  <1> QED
    BY <1>1, <1>2 DEF Lost, Clear, Ids

(* As long as files are read and written whole, an id that a client was    *)
(* told is deleted never belongs to a group again, through every restart   *)
(* and whatever the other workers had under way.                           *)
THEOREM GoneForeverAlways ==
  ASSUME Faults \subseteq {"kill"}
  PROVE  AgentSpec => []GoneForever
  <1>1. AgentInit => GoneInv /\ EventsOK /\ RepliesOK /\ HandledOnce
    <2>1. NoJob.step # "resume" /\ NoJob.removed = {} /\ DOMAIN <<>> = {}
      BY DEF NoJob
    <2>2. AgentInit => GoneInv
      BY <2>1, StorageAssumption
         DEF AgentInit, Init, GoneInv, HolderOK, RemovalOK, ReportedOK, Removing, Answers, Told
    <2> QED
      BY <2>2, AgentAssumption, NoJobJob, EmptySeq
         DEF AgentInit, RepliesOK, EventsOK, HandledOnce, Workers
  <1>2. JobsOK /\ TypeOK /\ EventsOK /\ [AgentNext]_vars => EventsOK'
    BY EventsGrow DEF EventsOK
  <1>3. TypeOK /\ IdsSound /\ JobsOK /\ GoneInv /\ HandledOnce /\ RepliesOK /\ EventsOK
          /\ [AgentNext]_vars => GoneInv'
    BY GoneStep DEF Inv
  <1> QED
    BY <1>1, <1>2, <1>3, GoneInvHolds, HandledOnceStep, AgentUsesStorage, TypeCorrect,
       IdsAlwaysSound, PTL DEF AgentSpec

-----------------------------------------------------------------------------
(* A group that was created stays until somebody asks to delete it.        *)

Wanted(i) == \E q \in Requests : asked[q].subject = "DELETE" /\ i \in Range(asked[q].ids)

Safe(i) == i \in Ids(file) \/ Wanted(i)

\* A request for a new group.
Making(r) == asked[r].subject = "CREATE" /\ NoId \in {g.id : g \in asked[r].groups}

\* What a worker has yet to remove was asked for in its request.
LeftOK ==
  \A t \in Threads : job[t].step \in {"call", "resume"} =>
    /\ job[t].listing => Cmd(t).subject = "LIST"
    /\ Cmd(t).subject = "DELETE" => Range(job[t].left) \subseteq Range(Cmd(t).ids)

\* A call that is going on removes from the memory what is in the file only
\* if somebody asked for it.
FileKept == inited => \A i \in Ids(file) : i \in Ids(memory) \/ Wanted(i)

\* What is answered as created is in memory before the write, and safe after it.
CreatedOK ==
  /\ pending.status = "created" => \A g \in pending.groups : g.id \in Ids(memory)
  /\ \A t \in Threads : ret[t].status = "created" => \A g \in ret[t].groups : Safe(g.id)

\* A worker that was asked for a new group does not change an old one.
MakesNew ==
  \A t \in Threads : job[t].step = "resume" /\ Making(job[t].req) =>
    /\ mutex = t => pending.status # "saved"
    /\ mutex # t => ret[t].status # "saved"

ConfirmedOK ==
  /\ \A t \in Threads : job[t].req \in Requests /\ Making(job[t].req) =>
       \A g \in job[t].out : Safe(g.id)
  /\ \A r \in Requests : Making(r) => \A a \in Answers(r) : \A g \in a.out : Safe(g.id)

LEMMA WantedStays ==
  ASSUME JobsOK, [AgentNext]_vars, NEW i, Wanted(i)
  PROVE  Wanted(i)'
  <1>1. PICK q \in Requests : asked[q].subject = "DELETE" /\ i \in Range(asked[q].ids)
    BY DEF Wanted
  <1>2. asked'[q] = asked[q]
    BY <1>1, AskedStays DEF NoCommand
  <1> QED
    BY <1>1, <1>2 DEF Wanted

\* The file stays, or becomes what is in memory.
LEMMA FileBecomes ==
  ASSUME Faults \subseteq {"kill"}, Inv, [Next]_storageVars
  PROVE  file' = file \/ (inited /\ file' = memory)
  <1>1. ASSUME NEW t \in Threads, WriteDone(t) PROVE inited /\ file' = memory
    BY <1>1, StorageAssumption DEF WriteDone, Inv, TypeOK
  <1>2. ASSUME NEW t \in Threads PROVE ~WriteFailed(t) /\ ~InitThrows(t)
    BY DEF WriteFailed, InitThrows
  <1>3. CASE Crash
    BY <1>3 DEF Crash, Inv, TypeOK
  <1>4. ASSUME NEW t \in Threads,
               \/ \E n \in Names : ByName(t, n) \/ RemoveByName(t, n)
               \/ \E i \in 0 .. MaxId : ById(t, i) \/ Remove(t, i)
               \/ \E g \in Group : Save(t, g)
               \/ Keys(t)
        PROVE  file' = file
    BY <1>4 DEF ByName, RemoveByName, ById, Remove, Save, Keys, Return, Begin
  <1> QED
    BY <1>1, <1>2, <1>3, <1>4 DEF Next, storageVars

LEMMA SafeStays ==
  ASSUME Faults \subseteq {"kill"}, Inv, JobsOK, FileKept, [AgentNext]_vars, NEW i, Safe(i)
  PROVE  Safe(i)'
  <1>1. file' = file \/ (inited /\ file' = memory)
    BY StorageStep, FileBecomes
  <1>2. Wanted(i) => Wanted(i)'
    BY WantedStays
  <1> QED
    BY <1>1, <1>2 DEF Safe, FileKept, Ids

LEMMA SaveKeeps ==
  ASSUME NEW db \in DbObj, NEW g \in Group
  PROVE  /\ Ids(db) \subseteq Ids(SaveTo(db, g))
         /\ LET x == Abstract!SaveResult(db, g) IN
              /\ x.status = (IF g.id = NoId THEN "created" ELSE "saved")
              /\ x.status = "created" => \A h \in x.groups : h.id \in Ids(SaveTo(db, g))
  <1>0. Abstract!NoId = NoId /\ Abstract!Saved(db, g) = Saved(db, g)
    BY DEF Abstract!NoId, NoId, Abstract!Saved, Saved
  <1>1. CASE g.id = NoId
    <2>1. SaveTo(db, g).groups = db.groups \cup {Saved(db, g)}
      BY <1>1 DEF SaveTo
    <2> QED
      BY <1>0, <1>1, <2>1 DEF Ids, Abstract!SaveResult, Abstract!Result
  <1>2. CASE g.id # NoId
    <2>1. SaveTo(db, g).groups = {IF h \in First(WithId(db, g.id)) THEN g ELSE h : h \in db.groups}
      BY <1>2 DEF SaveTo, DbObj
    <2>2. \A h \in First(WithId(db, g.id)) : h.id = g.id
      BY DEF First, WithId
    <2>3. ASSUME NEW h \in db.groups PROVE \E k \in SaveTo(db, g).groups : k.id = h.id
      BY <2>1, <2>2
    <2> QED
      BY <1>0, <1>2, <2>3 DEF Ids, Abstract!SaveResult, Abstract!Result
  <1> QED
    BY <1>1, <1>2

LEMMA RemoveKeeps ==
  ASSUME NEW db \in DbObj, NEW i, NEW gone \in Removals(WithId(db, i)), NEW k \in Ids(db), k # i
  PROVE  k \in Ids(Drop(db, gone))
  BY DEF Ids, Drop, Removals, First, WithId, DbObj

(* A worker's call keeps what is in the file, but for what it was asked to *)
(* remove, and answers to a request for a new group with a new group.      *)
LEMMA CallKeeps ==
  ASSUME Faults \subseteq {"kill"}, Inv, JobsOK, ValidOK, LeftOK, FileKept, NEW t \in Threads, Call(t)
  PROVE  /\ inited' /\ \A i \in Ids(file) : i \in Ids(memory') \/ Wanted(i)
         /\ mutex' = t =>
              /\ pending'.status = "created" => \A g \in pending'.groups : g.id \in Ids(memory')
              /\ Making(job[t].req) => pending'.status # "saved"
         /\ mutex' # t => pending' = pending /\ ret'[t].status \notin {"created", "saved"}
  <1>0. /\ job[t] \in Job /\ job[t].step = "call" /\ job[t].req \in Requests
        /\ Cmd(t) \in Commands /\ Cmd(t) \in Command /\ (NeedsId(job[t]) => job[t].left # <<>>)
        /\ ret \in [Threads -> Results]
    BY AgentAssumption DEF Call, JobsOK, JobOK, Cmd, Inv, TypeOK
  <1>1. \A db \in Opened : \A i \in Ids(file) : i \in Ids(db) \/ Wanted(i)
    BY DEF Opened, FileKept
  <1>2. ASSUME NEW db \in Opened, NEW x, x.status \notin {"created", "saved"}, Return(t, db, x)
        PROVE  /\ inited' /\ memory' = db /\ mutex' # t /\ pending' = pending
               /\ ret'[t].status \notin {"created", "saved"}
    BY <1>0, <1>2, StorageAssumption DEF Return
  <1>3. \A S : Found(S).status \notin {"created", "saved"} /\ Result("ok", S).status = "ok"
    BY DEF Found, Result, Abstract!Found, Abstract!Result
  <1>4. CASE Keys(t) \/ \E i : ById(t, i)
    BY <1>1, <1>2, <1>3, <1>4 DEF Keys, ById
  <1>5. ASSUME NEW g \in Cmd(t).groups, Save(t, g), Cmd(t).subject \in {"CREATE", "UPDATE"}
        PROVE  /\ inited' /\ \A i \in Ids(file) : i \in Ids(memory') \/ Wanted(i)
               /\ mutex' = t
               /\ pending'.status = "created" => \A h \in pending'.groups : h.id \in Ids(memory')
               /\ Making(job[t].req) => pending'.status # "saved"
    <2>1. PICK db \in Opened : Begin(t, SaveTo(db, g), Abstract!SaveResult(db, g))
      BY <1>5 DEF Save
    <2>2. db \in DbObj /\ g \in Group
      BY <1>0, OpenedSound DEF Command
    <2>3. Making(job[t].req) => g.id = NoId
      <3>1. Cmd(t).valid
        BY <1>0, <1>5 DEF ValidOK
      <3>2. \E h \in Group : Cmd(t).groups = {h}
        BY <1>0, <1>5, <3>1, AgentAssumption
      <3> QED
        BY <3>2 DEF Making, Cmd
    <2>4. inited' /\ memory' = SaveTo(db, g) /\ mutex' = t /\ pending' = Abstract!SaveResult(db, g)
      BY <2>1 DEF Begin
    <2> QED
      BY <1>1, <2>2, <2>3, <2>4, SaveKeeps
  <1>6. CASE Cmd(t).subject = "DELETE" /\ Remove(t, Head(job[t].left))
    <2> DEFINE i == Head(job[t].left)
    <2>1. PICK db \in Opened :
            \/ Return(t, db, Found({}))
            \/ \E gone \in Removals(WithId(db, i)) : Begin(t, Drop(db, gone), Result("ok", {}))
      BY <1>6 DEF Remove
    <2>2. CASE Return(t, db, Found({}))
      BY <1>1, <1>2, <1>3, <2>2
    <2>3. ASSUME NEW gone \in Removals(WithId(db, i)), Begin(t, Drop(db, gone), Result("ok", {}))
          PROVE  /\ inited' /\ mutex' = t /\ pending'.status = "ok"
                 /\ \A k \in Ids(file) : k \in Ids(memory') \/ Wanted(k)
      <3>1. inited' /\ memory' = Drop(db, gone) /\ mutex' = t /\ pending'.status = "ok"
        BY <1>3, <2>3 DEF Begin
      <3>2. job[t].left \in Seq(0 .. MaxId) /\ job[t].left # <<>>
        BY <1>0, <1>6 DEF Job, NeedsId, Cmd
      <3>3. i \in Range(Cmd(t).ids)
        <4>1. i \in Range(job[t].left)
          BY <3>2, HeadTailRange
        <4> QED
          BY <1>0, <1>6, <4>1 DEF LeftOK
      <3>4. Wanted(i)
        BY <1>0, <1>6, <3>3 DEF Wanted, Cmd
      <3> QED
        BY <1>1, <3>1, <3>4, OpenedSound, RemoveKeeps
    <2> QED
      BY <2>1, <2>2, <2>3
  <1>7. ~InitThrows(t)
    BY DEF InitThrows
  <1> QED
    BY <1>4, <1>5, <1>6, <1>7 DEF Call

\* What a worker makes of what its call returned.
LEMMA ResumeLeaves ==
  ASSUME JobsOK, TypeOK, LeftOK, NEW t \in Threads, Resume(t)
  PROVE  \E k : /\ Continue(t, k) /\ k.step # "resume" /\ k.req \in {job[t].req, NoRequest}
                /\ k.step = "call" =>
                     /\ k.listing => job[t].listing
                     /\ Cmd(t).subject = "DELETE" => Range(k.left) \subseteq Range(job[t].left)
                /\ Cmd(t).subject = "CREATE" =>
                     \/ k.out \subseteq job[t].out
                     \/ ret[t].status \in {"created", "saved"} /\ k.out = ret[t].groups
  <1> DEFINE j == job[t]
             Fine(k) == /\ Continue(t, k) /\ k.step # "resume" /\ k.req \in {j.req, NoRequest}
                        /\ k.step = "call" =>
                             /\ k.listing => j.listing
                             /\ Cmd(t).subject = "DELETE" => Range(k.left) \subseteq Range(j.left)
                        /\ Cmd(t).subject = "CREATE" =>
                             \/ k.out \subseteq j.out
                             \/ ret[t].status \in {"created", "saved"} /\ k.out = ret[t].groups
  <1>0. /\ j \in Job /\ JobOK(j) /\ ret[t] \in Results /\ j.step = "resume"
        /\ j.listing => Cmd(t).subject = "LIST"
    BY DEF Resume, JobsOK, TypeOK, LeftOK
  <1>1. ASSUME NEW k \in Job
        PROVE  /\ Advance(k).req = k.req /\ Advance(k).step # "resume" /\ Advance(k).out = k.out
               /\ Advance(k).listing = k.listing /\ Advance(k).left = Tail(k.left)
               /\ Fails(k).req = k.req /\ Fails(k).step = "reply" /\ Fails(k).out = {}
    BY DEF Advance, Fails, Job
  <1>2. ASSUME j.left # <<>> PROVE Range(Tail(j.left)) \subseteq Range(j.left)
    BY <1>0, <1>2, HeadTailRange DEF Job
  <1>3. ASSUME Continue(t, Fails(j)) PROVE Fine(Fails(j))
    BY <1>0, <1>1, <1>3
  <1>4. ASSUME NEW k \in Job, k.req = j.req, k.left = j.left, k.listing = j.listing,
               k.out = j.out \/ Cmd(t).subject # "CREATE", j.left # <<>>, Continue(t, Advance(k))
        PROVE  Fine(Advance(k))
    BY <1>1, <1>2, <1>4
  <1>5. CASE AfterSave(t)
    <2> DEFINE k == [j EXCEPT !.step = "reply", !.out = ret[t].groups]
    <2>1. k.step = "reply" /\ k.req = j.req /\ k.out = ret[t].groups
      BY <1>0 DEF Job
    <2>2. CASE ret[t].status \in {"created", "saved"} /\ Continue(t, k)
      <3>1. Fine(k)
        <4> HIDE DEF k
        <4> QED
          BY <2>1, <2>2
      <3> QED
        BY <3>1
    <2> QED
      BY <1>3, <1>5, <2>2 DEF AfterSave
  <1>6. CASE AfterRemove(t)
    <2> DEFINE i == Head(j.left)
               k == [j EXCEPT !.removed = @ \cup {i}]
    <2>1. j.left # <<>> /\ j.left \in Seq(0 .. MaxId)
      BY <1>0, <1>6 DEF AfterRemove, JobOK, NeedsId, Cmd, Job
    <2>2. i \in 0 .. MaxId
      BY <2>1, HeadTailProperties
    <2>3. k \in Job /\ k.req = j.req /\ k.left = j.left /\ k.listing = j.listing /\ k.out = j.out
      BY <1>0, <2>2 DEF Job
    <2>4. Continue(t, Advance(k)) => Fine(Advance(k))
      <3> HIDE DEF k
      <3> QED
        BY <1>4, <2>1, <2>3
    <2>5. Continue(t, Advance(j)) => Fine(Advance(j))
      BY <1>0, <1>4, <2>1
    <2> HIDE DEF k, Fine
    <2>6. \E q : Fine(q)
      BY <1>6, <2>4, <2>5 DEF AfterRemove, k
    <2> QED
      BY <2>6 DEF Fine
  <1>7. CASE AfterIds(t)
    <2>1. PICK k \in {[j EXCEPT !.listing = FALSE, !.left = ids,
                                !.step = IF ids = <<>> THEN "reply" ELSE "call"] :
                        ids \in Ascending(Ids(ret[t]))} : Continue(t, k)
      BY <1>7 DEF AfterIds
    <2>2. k.step # "resume" /\ k.req = j.req /\ k.out = j.out /\ ~k.listing
      BY <1>0, <2>1 DEF Job
    <2>3. Cmd(t).subject = "LIST"
      BY <1>0, <1>7 DEF AfterIds
    <2>4. Fine(k)
      BY <2>1, <2>2, <2>3
    <2> QED
      BY <2>4
  <1>8. CASE AfterById(t)
    <2> DEFINE k == [j EXCEPT !.out = @ \cup ret[t].groups]
    <2>1. j.left # <<>>
      BY <1>0, <1>8 DEF AfterById, JobOK, NeedsId, Cmd
    <2>2. k \in Job /\ k.req = j.req /\ k.left = j.left /\ k.listing = j.listing
      BY <1>0 DEF Job, Results
    <2>3. Continue(t, Advance(k)) => Fine(Advance(k))
      <3> HIDE DEF k
      <3> QED
        BY <1>4, <1>8, <2>1, <2>2 DEF AfterById
    <2> HIDE DEF k, Fine
    <2>4. \E q : Fine(q)
      BY <1>3, <1>8, <2>3 DEF AfterById, k
    <2> QED
      BY <2>4 DEF Fine
  <1>9. CASE AfterResolve(t)
    <2>1. j.left # <<>>
      BY <1>0, <1>9 DEF AfterResolve, JobOK, NeedsId, Cmd
    <2>2. Continue(t, Advance(j)) => Fine(Advance(j))
      BY <1>0, <1>4, <2>1
    <2> QED
      BY <1>3, <1>9, <2>2 DEF AfterResolve
  <1>10. CASE Escape(t)
    <2>1. NoJob.step = "idle" /\ NoJob.req = NoRequest /\ NoJob.out = {}
      BY DEF NoJob
    <2> QED
      BY <1>10, <2>1 DEF Escape
  <1> QED
    BY <1>5, <1>6, <1>7, <1>8, <1>9, <1>10 DEF Resume

KeptInv == LeftOK /\ FileKept /\ CreatedOK /\ MakesNew /\ ConfirmedOK

LEMMA LeftOKStep ==
  ASSUME AgentInv, LeftOK, [AgentNext]_vars
  PROVE  LeftOK'
  <1>0. Inv /\ JobsOK /\ HandledOnce /\ TypeOK /\ JobsOK' /\ job \in [Threads -> Job]
    BY JobsOKStep DEF AgentInv, Inv, JobsOK
  <1> SUFFICES ASSUME NEW t \in Threads, job'[t].step \in {"call", "resume"}
               PROVE  /\ job'[t].listing => Cmd(t)'.subject = "LIST"
                      /\ Cmd(t)'.subject = "DELETE" => Range(job'[t].left) \subseteq Range(Cmd(t)'.ids)
    BY DEF LeftOK
  <1>1. asked'[job'[t].req] = asked[job'[t].req] /\ job'[t].req \in Requests
    BY <1>0, CmdStays DEF JobsOK, JobOK
  <1>2. ASSUME job'[t].req = job[t].req, job[t].step \in {"call", "resume"},
               job'[t].listing => job[t].listing,
               Cmd(t).subject = "DELETE" => Range(job'[t].left) \subseteq Range(job[t].left)
        PROVE  /\ job'[t].listing => Cmd(t)'.subject = "LIST"
               /\ Cmd(t)'.subject = "DELETE" => Range(job'[t].left) \subseteq Range(Cmd(t)'.ids)
    BY <1>1, <1>2 DEF LeftOK, Cmd
  <1>3. ASSUME NEW r \in Requests, Start(t, r)
        PROVE  /\ job'[t].listing => Cmd(t)'.subject = "LIST"
               /\ Cmd(t)'.subject = "DELETE" => Range(job'[t].left) \subseteq Range(Cmd(t)'.ids)
    <2> DEFINE j == [NoJob EXCEPT !.step = "call", !.req = r, !.left = asked[r].ids,
                                  !.listing = asked[r].subject = "LIST"]
    <2>1. /\ Fails(j).step = "reply" /\ [j EXCEPT !.step = "reply"].step = "reply"
          /\ j.req = r /\ j.left = asked[r].ids /\ j.listing = (asked[r].subject = "LIST")
      BY DEF NoJob, Fails
    <2>2. job'[t] = j
      <3> HIDE DEF j
      <3>1. job'[t] = IF asked[r].subject # "LIST" /\ ~asked[r].valid THEN Fails(j)
                      ELSE IF asked[r].subject = "DELETE" /\ asked[r].ids = <<>>
                      THEN [j EXCEPT !.step = "reply"] ELSE j
        BY <1>0, <1>3 DEF Start, j
      <3>2. job'[t].step # "reply"
        OBVIOUS
      <3> QED
        BY <2>1, <3>1, <3>2, Zenon
    <2> HIDE DEF j
    <2> QED
      BY <1>1, <2>1, <2>2 DEF Cmd
  <1>4. CASE Call(t)
    BY <1>0, <1>2, <1>4 DEF Call, Job
  <1>5. CASE Resume(t)
    <2>1. PICK k : /\ Continue(t, k) /\ k.step # "resume" /\ k.req \in {job[t].req, NoRequest}
                   /\ k.step = "call" =>
                        /\ k.listing => job[t].listing
                        /\ Cmd(t).subject = "DELETE" => Range(k.left) \subseteq Range(job[t].left)
      BY <1>0, <1>5, ResumeLeaves
    <2>2. job'[t] = k
      BY <1>0, <2>1 DEF Continue
    <2>3. k.req = job[t].req
      BY <1>1, <2>1, <2>2, AgentAssumption
    <2> QED
      BY <1>2, <1>5, <2>1, <2>2, <2>3 DEF Resume
  <1>6. CASE Write(t)
    BY <1>2, <1>6 DEF Write, agentVars
  <1>7. CASE Reply(t) \/ Die
    BY <1>0, <1>7, NoJobJob DEF Reply, Die
  <1>8. CASE job'[t] = job[t]
    BY <1>2, <1>8
  <1> QED
    BY <1>0, <1>3, <1>4, <1>5, <1>6, <1>7, <1>8, EachWorker

\* What the document and the answers of Storage have become after a step.
LEMMA StoreKept ==
  ASSUME Faults \subseteq {"kill"}, AgentInv, KeptInv, [AgentNext]_vars
  PROVE  FileKept' /\ CreatedOK'
  <1>0. Inv /\ JobsOK /\ ValidOK /\ LeftOK /\ FileKept /\ TypeOK
    BY DEF AgentInv, KeptInv, Inv
  <1>1. /\ \A i : Wanted(i) => Wanted(i)'
        /\ \A i : Safe(i) => Safe(i)'
    BY <1>0, WantedStays, SafeStays
  <1>2. ASSUME NEW t \in Threads, Call(t) PROVE FileKept' /\ CreatedOK'
    <2>1. /\ inited' /\ \A i \in Ids(file) : i \in Ids(memory') \/ Wanted(i)
          /\ mutex' = t /\ pending'.status = "created" =>
               \A g \in pending'.groups : g.id \in Ids(memory')
          /\ mutex' # t => pending' = pending /\ ret'[t].status \notin {"created", "saved"}
      BY <1>0, <1>2, CallKeeps
    <2>2. /\ mutex = NoThread /\ mutex' \in {NoThread, t}
          /\ \A u \in Threads \ {t} : ret'[u] = ret[u]
      BY <1>0, <1>2, CallAlone
    <2>3. pending.status # "created"
      BY <1>0, <2>2 DEF TypeOK, NoResult, Abstract!NoResult, Abstract!Result
    <2>4. /\ file' = file /\ (mutex' = t => ret'[t] = ret[t])
      <3>1. ASSUME NEW db, NEW x, Return(t, db, x) \/ Begin(t, db, x)
            PROVE  file' = file /\ (mutex' = t => ret'[t] = ret[t])
        BY <3>1, StorageAssumption DEF Return, Begin
      <3> QED
        BY <1>2, <3>1 DEF Call, Save, Remove, Keys, ById, InitThrows
    <2>5. FileKept'
      <3>1. \A i \in Ids(file') : i \in Ids(file)
        BY <2>4 DEF Ids
      <3>2. \A i : i \in Ids(memory') => i \in Ids(memory)'
        BY DEF Ids
      <3> QED
        BY <1>1, <2>1, <3>1, <3>2 DEF FileKept, Ids
    <2>6. CreatedOK'
      <3>1. pending'.status = "created" => \A g \in pending'.groups : g.id \in Ids(memory)'
        BY <2>1, <2>3 DEF Ids
      <3>2. ASSUME NEW u \in Threads, ret'[u].status = "created", NEW g \in ret'[u].groups
            PROVE  Safe(g.id)'
        <4>1. ret'[u] = ret[u]
          BY <2>1, <2>2, <2>4, <3>2
        <4>2. Safe(g.id)
          BY <3>2, <4>1 DEF KeptInv, CreatedOK
        <4> QED
          BY <1>1, <4>2
      <3> QED
        BY <3>1, <3>2 DEF CreatedOK
    <2> QED
      BY <2>5, <2>6
  <1>3. ASSUME NEW t \in Threads, Write(t) PROVE FileKept' /\ CreatedOK'
    <2>1. WriteDone(t)
      BY <1>3 DEF Write, WriteFailed
    <2>2. file' = memory /\ memory' = memory /\ pending'.status # "created"
      BY <2>1 DEF WriteDone, NoResult, Abstract!NoResult, Abstract!Result
    <2>3. ret'[t] = pending /\ \A u \in Threads \ {t} : ret'[u] = ret[u]
      BY <1>0, <2>1 DEF WriteDone, TypeOK
    <2>4. ASSUME pending.status = "created", NEW g \in pending.groups PROVE Safe(g.id)'
      <3>1. g.id \in Ids(memory)
        BY <2>4 DEF KeptInv, CreatedOK
      <3>2. g.id \in Ids(file')
        BY <2>2, <3>1
      <3> QED
        BY <3>2 DEF Safe, Ids
    <2>5. ASSUME NEW u \in Threads, ret'[u].status = "created", NEW g \in ret'[u].groups
          PROVE  Safe(g.id)'
      <3>1. CASE u = t
        BY <2>3, <2>4, <2>5, <3>1
      <3>2. CASE u # t
        <4>1. Safe(g.id)
          BY <2>3, <2>5, <3>2 DEF KeptInv, CreatedOK
        <4> QED
          BY <1>1, <4>1
      <3> QED
        BY <3>1, <3>2
    <2> QED
      BY <2>2, <2>5 DEF FileKept, CreatedOK, Ids
  <1>4. ASSUME Die PROVE FileKept' /\ CreatedOK'
    <2>1. ~inited' /\ pending' = NoResult /\ ret' = [t \in Threads |-> NoResult]
      BY <1>4 DEF Die, Crash
    <2>2. NoResult.status # "created"
      BY DEF NoResult, Abstract!NoResult, Abstract!Result
    <2> QED
      BY <2>1, <2>2 DEF FileKept, CreatedOK
  <1>5. ASSUME UNCHANGED storageVars PROVE FileKept' /\ CreatedOK'
    <2>1. UNCHANGED <<inited, memory, file, pending, ret>>
      BY <1>5 DEF storageVars
    <2>2. FileKept'
      BY <1>0, <1>1, <2>1 DEF FileKept, Ids
    <2>3. CreatedOK'
      <3>1. pending'.status = "created" => \A g \in pending'.groups : g.id \in Ids(memory)'
        BY <2>1 DEF KeptInv, CreatedOK, Ids
      <3>2. \A t \in Threads : ret'[t].status = "created" => \A g \in ret'[t].groups : Safe(g.id)'
        BY <1>1, <2>1 DEF KeptInv, CreatedOK
      <3> QED
        BY <3>1, <3>2 DEF CreatedOK
    <2> QED
      BY <2>2, <2>3
  <1>6. ASSUME NEW t \in Threads, (\E r \in Requests : Start(t, r)) \/ Resume(t) \/ Reply(t)
        PROVE  UNCHANGED storageVars
    BY <1>6 DEF Start, Resume, Reply
  <1>7. ASSUME NEW r \in Requests, NEW c \in Commands, Process(r, c) PROVE UNCHANGED storageVars
    BY <1>7 DEF Process
  <1>8. UNCHANGED vars => UNCHANGED storageVars
    BY DEF vars
  <1> QED
    BY <1>2, <1>3, <1>4, <1>5, <1>6, <1>7, <1>8 DEF AgentNext, Work

\* The answer of a call that is going on does not change.
LEMMA PendingStays ==
  ASSUME [Next]_storageVars, mutex # NoThread, mutex' = mutex
  PROVE  pending' = pending
  BY DEF Next, ByName, RemoveByName, ById, Remove, Save, Keys, Return, Begin, WriteDone,
         WriteFailed, InitThrows, Crash, storageVars

LEMMA MakesNewStep ==
  ASSUME Faults \subseteq {"kill"}, AgentInv, KeptInv, [AgentNext]_vars
  PROVE  MakesNew'
  <1>0. Inv /\ JobsOK /\ HandledOnce /\ TypeOK /\ ValidOK /\ LeftOK /\ FileKept
        /\ job \in [Threads -> Job] /\ ret \in [Threads -> Results] /\ JobsOK'
    BY JobsOKStep DEF AgentInv, Inv, TypeOK, JobsOK, KeptInv
  <1> SUFFICES ASSUME NEW t \in Threads, job'[t].step = "resume", Making(job[t].req)'
               PROVE  /\ mutex' = t => pending'.status # "saved"
                      /\ mutex' # t => ret'[t].status # "saved"
    BY DEF MakesNew
  <1>1. Making(job'[t].req)
    <2>1. job'[t].req \in Requests
      BY <1>0 DEF JobsOK, JobOK
    <2> QED
      BY <1>0, <2>1, CmdStays DEF Making
  <1>2. ASSUME NEW r \in Requests, Start(t, r) PROVE FALSE
    <2> DEFINE j == [NoJob EXCEPT !.step = "call", !.req = r, !.left = asked[r].ids,
                                  !.listing = asked[r].subject = "LIST"]
    <2>1. /\ j.step = "call" /\ Fails(j).step = "reply"
          /\ [j EXCEPT !.step = "reply"].step = "reply"
      BY DEF NoJob, Fails
    <2>2. job'[t].step # "resume"
      BY <1>0, <1>2, <2>1 DEF Start
    <2> QED
      BY <2>2
  <1>3. CASE Call(t)
    <2>1. job'[t].req = job[t].req
      BY <1>0, <1>3 DEF Call, Job
    <2> QED
      BY <1>0, <1>1, <1>3, <2>1, CallKeeps
  <1>4. CASE Write(t)
    <2>1. mutex = t /\ mutex' = NoThread /\ ret'[t] = pending /\ job' = job
      BY <1>0, <1>4 DEF Write, WriteDone, WriteFailed, agentVars
    <2> QED
      BY <1>1, <2>1, StorageAssumption DEF KeptInv, MakesNew
  <1>5. CASE Resume(t)
    <2>1. PICK k : Continue(t, k) /\ k.step # "resume"
      BY <1>0, <1>5, ResumeLeaves
    <2> QED
      BY <1>0, <2>1 DEF Continue
  <1>6. CASE Reply(t) \/ Die
    BY <1>0, <1>6, NoJobJob DEF Reply, Die
  <1>7. CASE job'[t] = job[t] /\ ret'[t] = ret[t] /\ (mutex' = t <=> mutex = t)
    <2>1. /\ mutex = t => pending.status # "saved"
          /\ mutex # t => ret[t].status # "saved"
      BY <1>1, <1>7 DEF KeptInv, MakesNew
    <2>2. mutex = t => pending' = pending
      BY <1>0, <1>7, StorageStep, PendingStays, StorageAssumption
    <2> QED
      BY <1>7, <2>1, <2>2
  <1> QED
    BY <1>0, <1>2, <1>3, <1>4, <1>5, <1>6, <1>7, EachWorker

LEMMA ConfirmedOKStep ==
  ASSUME Faults \subseteq {"kill"}, AgentInv, KeptInv, [AgentNext]_vars
  PROVE  ConfirmedOK'
  <1>0. Inv /\ JobsOK /\ HandledOnce /\ RepliesOK /\ TypeOK /\ LeftOK /\ FileKept
        /\ job \in [Threads -> Job]
    BY DEF AgentInv, Inv, JobsOK, KeptInv
  <1>1. \A i : Safe(i) => Safe(i)'
    BY <1>0, SafeStays
  <1>2. ASSUME NEW t \in Threads, job'[t].req \in Requests, Making(job[t].req)',
               NEW g \in job'[t].out
        PROVE  Safe(g.id)'
    <2>1. Making(job'[t].req)
      BY <1>0, <1>2, CmdStays DEF Making
    <2>2. ASSUME job'[t].req = job[t].req, g \in job[t].out PROVE Safe(g.id)'
      <3>1. Safe(g.id)
        BY <1>2, <2>1, <2>2 DEF KeptInv, ConfirmedOK
      <3> QED
        BY <1>1, <3>1
    <2>3. ASSUME NEW r \in Requests, Start(t, r) PROVE FALSE
      <3> DEFINE j == [NoJob EXCEPT !.step = "call", !.req = r, !.left = asked[r].ids,
                                    !.listing = asked[r].subject = "LIST"]
      <3>1. j.out = {} /\ Fails(j).out = {} /\ [j EXCEPT !.step = "reply"].out = {}
        BY DEF NoJob, Fails
      <3>2. job'[t].out = {}
        BY <1>0, <2>3, <3>1 DEF Start
      <3> QED
        BY <1>2, <3>2
    <2>4. CASE Call(t)
      BY <1>0, <1>2, <2>2, <2>4 DEF Call, Job
    <2>5. CASE Write(t) \/ job'[t] = job[t]
      BY <1>2, <2>2, <2>5 DEF Write, agentVars
    <2>6. CASE Resume(t)
      <3>1. PICK k : /\ Continue(t, k) /\ k.req \in {job[t].req, NoRequest}
                     /\ Cmd(t).subject = "CREATE" =>
                          \/ k.out \subseteq job[t].out
                          \/ ret[t].status \in {"created", "saved"} /\ k.out = ret[t].groups
        BY <1>0, <2>6, ResumeLeaves
      <3>2. job'[t] = k /\ job[t].req = k.req
        BY <1>0, <1>2, <3>1, AgentAssumption DEF Continue
      <3>3. Cmd(t).subject = "CREATE"
        BY <2>1, <3>2 DEF Making, Cmd
      <3>4. CASE ret[t].status \in {"created", "saved"} /\ k.out = ret[t].groups
        <4>1. ret[t].status = "created"
          BY <2>1, <2>6, <3>2, <3>4 DEF KeptInv, MakesNew, Resume
        <4>2. Safe(g.id)
          BY <1>2, <3>2, <3>4, <4>1 DEF KeptInv, CreatedOK
        <4> QED
          BY <1>1, <4>2
      <3> QED
        BY <1>2, <2>2, <3>1, <3>2, <3>3, <3>4
    <2>7. CASE Reply(t) \/ Die
      BY <1>0, <1>2, <2>7, NoJobJob, AgentAssumption DEF Reply, Die
    <2> QED
      BY <1>0, <2>3, <2>4, <2>5, <2>6, <2>7, EachWorker
  <1>3. ASSUME NEW r \in Requests, Making(r)', NEW a \in Answers(r)', NEW g \in a.out
        PROVE  Safe(g.id)'
    <2>1. CASE a \in Answers(r)
      <3>1. DOMAIN <<>> = {}
        OBVIOUS
      <3>2. asked[r] # NoCommand
        BY <2>1, <3>1, <1>0 DEF Answers, HandledOnce
      <3>3. Making(r)
        BY <1>0, <1>3, <3>2, AskedStays DEF Making
      <3>4. Safe(g.id)
        BY <1>3, <2>1, <3>3 DEF KeptInv, ConfirmedOK
      <3> QED
        BY <1>1, <3>4
    <2>2. ASSUME NEW t \in Threads, Reply(t), job[t].req = r, a = ReplyOf(job[t])
          PROVE  Safe(g.id)'
      <3>1. a.out = job[t].out /\ asked' = asked
        BY <2>2 DEF ReplyOf, Reply
      <3>2. Making(r)
        BY <1>3, <3>1 DEF Making
      <3>3. Safe(g.id)
        BY <1>3, <2>2, <3>1, <3>2 DEF KeptInv, ConfirmedOK
      <3> QED
        BY <1>1, <3>3
    <2> QED
      BY <1>0, <1>3, <2>1, <2>2, NewAnswers
  <1> QED
    BY <1>2, <1>3 DEF ConfirmedOK

LEMMA KeptInit == AgentInit => KeptInv
  <1>1. /\ NoJob.step = "idle" /\ NoJob.req \notin Requests /\ NoResult.status = "none"
        /\ DOMAIN <<>> = {}
    BY NoJobJob, AgentAssumption DEF NoResult, Abstract!NoResult, Abstract!Result
  <1> QED
    BY <1>1 DEF AgentInit, Init, KeptInv, LeftOK, FileKept, CreatedOK, MakesNew, ConfirmedOK, Answers

(* As long as files are read and written whole, a group whose creation a   *)
(* client was told of is stored, through every restart and whatever other  *)
(* workers had under way, unless a request to delete it was made.          *)
THEOREM ConfirmedSurvivesAlways ==
  ASSUME Faults \subseteq {"kill"}
  PROVE  AgentSpec => []ConfirmedSurvives
  <1>1. AgentInv /\ KeptInv /\ [AgentNext]_vars => KeptInv'
    <2> SUFFICES ASSUME AgentInv, KeptInv, [AgentNext]_vars PROVE KeptInv'
      OBVIOUS
    <2>1. LeftOK'
      BY LeftOKStep DEF KeptInv
    <2> QED
      BY <2>1, StoreKept, MakesNewStep, ConfirmedOKStep DEF KeptInv
  <1>2. KeptInv => ConfirmedSurvives
    BY DEF KeptInv, ConfirmedOK, Making, Safe, Wanted, Range, ConfirmedSurvives
  <1> QED
    BY <1>1, <1>2, KeptInit, AgentAlways, PTL DEF AgentSpec

-----------------------------------------------------------------------------
(* A LIST tells the truth although it is many calls of Storage, whatever   *)
(* fails.                                                                  *)

(* What a LIST has, compared with what it could have seen.  Before ids() is *)
(* called it has nothing.  Then its groups and the ids that are left make   *)
(* up the ids it was given, its groups were all stored, and an id that was  *)
(* not found is not among those that were kept.                             *)
Asks(j) == j.listing =>
  /\ j.status = "ok" /\ j.out = {} /\ j.step \in {"call", "resume"}

Given(j, v, x) == j.listing /\ j.step = "resume" /\ x.status = "ok" => Ids(x) = v.given

Reads(j, v, x) == ~j.listing =>
  /\ v.kept \subseteq Ids(memory)
  /\ j.step = "resume" => j.status = "ok"
  /\ j.step = "resume" /\ x.status = "ok" => Ids(x) = {Head(j.left)} /\ x.groups \subseteq v.seen
  /\ j.step = "resume" /\ x.status = "not found" => Head(j.left) \notin v.kept

Has(j, v) == ~j.listing =>
  /\ j.status = "ok" => /\ {g.id : g \in j.out} \cup Range(j.left) = v.given
                        /\ j.out \subseteq v.seen
                        /\ j.step = "reply" => j.left = <<>>
  /\ j.status = "ko" => j.step = "reply" /\ v.kept # v.given

OneList(j, v, x) ==
  v.kept \subseteq v.given /\ Asks(j) /\ Given(j, v, x) /\ Reads(j, v, x) /\ Has(j, v)

ListOK == \A t \in Threads : Listing(job[t]) => OneList(job[t], view[t], ret[t])

\* What a worker that lists sees of a step.
LEMMA Sees ==
  ASSUME Observe, NEW t \in Threads, Listing(job'[t])
  PROVE  view'[t] =
           IF job'[t].listing /\ job[t].step # "resume"
           THEN [given |-> Ids(memory'), kept |-> Ids(memory'), seen |-> memory'.groups]
           ELSE [given |-> view[t].given,
                 kept |-> view[t].kept \cap Ids(memory'),
                 seen |-> view[t].seen \cup memory'.groups]
  BY DEF Observe

\* A step of another leaves a list as good as it was.
LEMMA ListKept ==
  ASSUME ListOK, NEW t \in Threads, Listing(job[t]), Observe, job'[t] = job[t], ret'[t] = ret[t]
  PROVE  OneList(job[t], view[t], ret[t])'
  <1> DEFINE j == job[t]
             v == view[t]
             w == view'[t]
             x == ret[t]
  <1>0. v.kept \subseteq v.given /\ Asks(j) /\ Given(j, v, x) /\ Reads(j, v, x) /\ Has(j, v)
    BY DEF ListOK, OneList
  <1>a. Listing(job'[t]) /\ job'[t] = j
    OBVIOUS
  <1>1. CASE j.listing /\ j.step # "resume"
    <2>1. w = [given |-> Ids(memory'), kept |-> Ids(memory'), seen |-> memory'.groups]
      BY <1>a, <1>1, Sees
    <2> QED
      BY <1>0, <1>1, <2>1 DEF OneList, Asks, Given, Reads, Has
  <1>2. CASE ~(j.listing /\ j.step # "resume")
    <2>a. w = [given |-> v.given, kept |-> v.kept \cap Ids(memory'),
               seen |-> v.seen \cup memory'.groups]
      BY <1>a, <1>2, Sees
    <2>1. /\ w.given = v.given
          /\ w.kept = v.kept \cap Ids(memory')
          /\ w.seen = v.seen \cup memory'.groups
      BY <2>a
    <2>2. w.kept \subseteq w.given /\ (v.kept # v.given => w.kept # w.given)
      BY <1>0, <2>1
    <2>3. Asks(j) /\ Given(j, w, x)
      BY <1>0, <2>1 DEF Given
    <2>4. Reads(j, v, x)'
      BY <1>0, <2>1 DEF Reads
    <2>5. Has(j, w)
      BY <1>0, <2>1, <2>2 DEF Has
    <2> QED
      BY <2>2, <2>3, <2>4, <2>5 DEF OneList, Asks, Given, Reads, Has
  <1> QED
    BY <1>1, <1>2

\* byId returns the group of the document the memory then is.
LEMMA ByIdFinds ==
  ASSUME Inv, NEW t \in Threads, NEW i, ById(t, i) \/ InitThrows(t)
  PROVE  /\ inited'
         /\ ret'[t].status = "ok" => Ids(ret'[t]) = {i} /\ ret'[t].groups \subseteq memory'.groups
         /\ ret'[t].status = "not found" => i \notin Ids(memory')
  <1>1. CASE ById(t, i)
    <2>1. PICK db \in Opened : Return(t, db, Found(First(WithId(db, i))))
      BY <1>1 DEF ById
    <2>2. inited' /\ memory' = db /\ ret'[t] = Found(First(WithId(db, i)))
      BY <2>1 DEF Return, Inv, TypeOK
    <2>3. db \in DbObj /\ Sound(db)
      BY OpenedSound DEF Inv
    <2>4. First(WithId(db, i)) = WithId(db, i)
      BY <2>3, GroupDbAssumption DEF First, WithId, Sound, DbObj
    <2>5. CASE WithId(db, i) = {}
      <3>1. i \notin Ids(db)
        BY <2>5 DEF WithId, Ids
      <3>2. Found({}).status = "not found"
        BY DEF Found, Abstract!Found, Abstract!Result
      <3> QED
        BY <2>2, <2>4, <2>5, <3>1, <3>2
    <2>6. CASE WithId(db, i) # {}
      <3>1. \A S : S # {} => Found(S).status = "ok" /\ Found(S).groups = S
        BY DEF Found, Abstract!Found, Abstract!Result
      <3>2. ret'[t].status = "ok" /\ ret'[t].groups = WithId(db, i)
        BY <2>2, <2>4, <2>6, <3>1
      <3>3. Ids(ret'[t]) = {i}
        BY <2>6, <3>2 DEF WithId, Ids
      <3> QED
        BY <2>2, <3>2, <3>3 DEF WithId
    <2> QED
      BY <2>5, <2>6
  <1>2. CASE InitThrows(t)
    BY <1>2 DEF InitThrows, Return, Inv, TypeOK, Result, Abstract!Result
  <1> QED
    BY <1>1, <1>2

\* ids() too takes what it returns from the document the memory then is.
LEMMA ListCalls ==
  ASSUME Inv, JobsOK, ListOK, NEW t \in Threads, Call(t), Observe, Listing(job[t])
  PROVE  OneList(job[t], view[t], ret[t])'
  <1> DEFINE j == job[t]
             k == job'[t]
             v == view[t]
             w == view'[t]
             i == Head(j.left)
  <1>0. /\ v.kept \subseteq v.given /\ Asks(j) /\ Has(j, v)
        /\ j \in Job /\ j.step = "call" /\ Cmd(t).subject = "LIST" /\ j.req \in Requests
    BY DEF ListOK, OneList, JobsOK, JobOK, Call, Listing, Cmd
  <1>1. /\ k = [j EXCEPT !.step = "resume"]
        /\ k.step = "resume" /\ k.listing = j.listing /\ k.req = j.req /\ k.left = j.left
        /\ k.status = j.status /\ k.out = j.out
    BY <1>0 DEF Call, JobsOK, Job
  <1>2. Listing(k)
    BY <1>1 DEF Listing
  <1>3. Asks(k)
    BY <1>0, <1>1 DEF Asks
  <1>4. \/ j.listing /\ Keys(t)
        \/ ~j.listing /\ ById(t, i)
        \/ InitThrows(t)
    BY <1>0 DEF Call
  <1>5. CASE j.listing
    <2>1. w = [given |-> Ids(memory'), kept |-> Ids(memory'), seen |-> memory'.groups]
      BY <1>0, <1>1, <1>2, <1>5, Sees
    <2>2. ret'[t].status = "ok" => Ids(ret'[t]) = Ids(memory')
      <3>1. CASE Keys(t)
        <4>1. PICK db \in Opened : Return(t, db, Result("ok", db.groups))
          BY <3>1 DEF Keys
        <4>2. ret'[t].groups = memory'.groups
          BY <4>1 DEF Return, Inv, TypeOK, Result, Abstract!Result
        <4> QED
          BY <4>2 DEF Ids
      <3>2. CASE InitThrows(t)
        BY <3>2 DEF InitThrows, Return, Inv, TypeOK, Result, Abstract!Result
      <3> QED
        BY <1>4, <1>5, <3>1, <3>2
    <2>3. k.listing /\ w.kept \subseteq w.given /\ Given(k, w, ret'[t])
      BY <1>1, <1>5, <2>1, <2>2 DEF Given
    <2>4. Reads(job[t], view[t], ret[t])' /\ Has(k, w)
      BY <2>3 DEF Reads, Has
    <2> QED
      BY <1>3, <2>3, <2>4 DEF OneList, Asks, Given, Reads, Has
  <1>6. CASE ~j.listing
    <2>a. w = [given |-> v.given, kept |-> v.kept \cap Ids(memory'),
               seen |-> v.seen \cup memory'.groups]
      BY <1>1, <1>2, <1>6, Sees
    <2>1. /\ w.given = v.given
          /\ w.kept = v.kept \cap Ids(memory')
          /\ w.seen = v.seen \cup memory'.groups
      BY <2>a
    <2>2. j.status = "ok"
      BY <1>0, <1>6 DEF Has, Job
    <2>3. /\ ret'[t].status = "ok" => Ids(ret'[t]) = {i} /\ ret'[t].groups \subseteq memory'.groups
          /\ ret'[t].status = "not found" => i \notin Ids(memory')
      BY <1>4, <1>6, ByIdFinds
    <2>4. w.kept \subseteq w.given
      BY <1>0, <2>1
    <2>5. Reads(job[t], view[t], ret[t])'
      BY <1>1, <2>1, <2>2, <2>3 DEF Reads
    <2>6. Has(k, w)
      BY <1>0, <1>1, <1>6, <2>1, <2>2 DEF Has
    <2> QED
      BY <1>3, <1>6, <1>1, <2>4, <2>5, <2>6 DEF OneList, Asks, Given, Reads, Has
  <1> QED
    BY <1>5, <1>6

\* The worker goes on, and Storage stays as it is.
LEMMA ListResumes ==
  ASSUME AgentInv, ListOK, NEW t \in Threads, Resume(t), Observe,
         Listing(job[t]), Listing(job'[t])
  PROVE  OneList(job[t], view[t], ret[t])'
  <1> DEFINE j == job[t]
             k == job'[t]
             v == view[t]
             w == view'[t]
             x == ret[t]
  <1>0. /\ v.kept \subseteq v.given /\ Asks(j) /\ Given(j, v, x) /\ Reads(j, v, x) /\ Has(j, v)
        /\ j \in Job /\ JobOK(j) /\ j.step = "resume" /\ Cmd(t).subject = "LIST"
        /\ UNCHANGED <<memory, ret>> /\ x \in Results
    BY DEF AgentInv, Inv, TypeOK, ListOK, OneList, JobsOK, Resume, Listing, Cmd, storageVars
  <1>1. w = [given |-> v.given, kept |-> v.kept \cap Ids(memory'), seen |-> v.seen \cup memory'.groups]
    BY <1>0, Sees
  <1>2. /\ w.given = v.given /\ w.kept = v.kept \cap Ids(memory') /\ w.seen = v.seen \cup memory'.groups
        /\ w.kept \subseteq w.given
    BY <1>0, <1>1
  <1>3. ASSUME ~k.listing, k.step # "resume", Has(k, w)
        PROVE  OneList(job[t], view[t], ret[t])'
    <2>1. Reads(job[t], view[t], ret[t])'
      BY <1>2, <1>3 DEF Reads
    <2>2. Asks(k) /\ Given(k, w, ret'[t])
      BY <1>3 DEF Asks, Given
    <2> QED
      BY <1>2, <1>3, <2>1, <2>2 DEF OneList, Asks, Given, Reads, Has
  <1>4. AfterIds(t) \/ AfterById(t)
    <2>1. k.req # NoRequest
      BY DEF Listing
    <2>2. Escape(t) => k = NoJob
      BY DEF Escape, Continue, AgentInv, JobsOK
    <2> QED
      BY <1>0, <2>1, <2>2, NoJobJob DEF Resume, AfterSave, AfterRemove, AfterResolve
  <1>5. CASE AfterIds(t)
    <2>1. PICK ids \in Ascending(Ids(x)) :
            Continue(t, [j EXCEPT !.listing = FALSE, !.left = ids,
                                  !.step = IF ids = <<>> THEN "reply" ELSE "call"])
      BY <1>5 DEF AfterIds
    <2>a. PICK next : next = IF ids = <<>> THEN "reply" ELSE "call"
      OBVIOUS
    <2>2. k = [j EXCEPT !.listing = FALSE, !.left = ids, !.step = next]
      BY <2>1, <2>a DEF Continue, AgentInv, JobsOK
    <2>b. /\ k.listing = FALSE /\ k.left = ids /\ k.step = next
          /\ k.out = j.out /\ k.status = j.status
      <3> DEFINE q == [j EXCEPT !.listing = FALSE, !.left = ids, !.step = next]
      <3>1. /\ q.listing = FALSE /\ q.left = ids /\ q.step = next
            /\ q.out = j.out /\ q.status = j.status
        BY <1>0 DEF Job
      <3>2. k = q
        BY <2>2
      <3> HIDE DEF q, k
      <3> QED
        BY <3>1, <3>2
    <2>3. /\ ~k.listing /\ k.left = ids /\ k.out = j.out /\ k.status = j.status
          /\ k.step # "resume" /\ (k.step = "reply" => ids = <<>>)
      BY <2>a, <2>b
    <2>4. Ids(x) \in SUBSET (0 .. MaxId)
      <3>1. x \in Results
        BY <1>0
      <3>2. x.groups \in SUBSET Group
        BY <3>1 DEF Results
      <3> HIDE DEF x
      <3> QED
        BY <3>2 DEF Group, Ids
    <2>5. Range(ids) = Ids(x)
      BY <2>4, AscendingRange
    <2>6. Ids(x) = v.given /\ j.out = {} /\ j.status = "ok"
      BY <1>0, <1>5 DEF AfterIds, Given, Asks
    <2>7. Has(k, w)
      BY <1>2, <2>3, <2>5, <2>6 DEF Has
    <2> QED
      BY <1>3, <2>3, <2>7
  <1>6. CASE AfterById(t)
    <2>1. /\ ~j.listing /\ j.left # <<>> /\ j.status = "ok" /\ j.left \in Seq(0 .. MaxId)
          /\ {g.id : g \in j.out} \cup Range(j.left) = v.given /\ j.out \subseteq v.seen
      BY <1>0, <1>6 DEF AfterById, JobOK, NeedsId, Has, Reads, Cmd, Job
    <2>2. Range(j.left) = {Head(j.left)} \cup Range(Tail(j.left))
      BY <2>1, HeadTailRange
    <2> DEFINE i == Head(j.left)
               q == [j EXCEPT !.out = @ \cup ret[t].groups]
    <2>3. CASE x.status = "ok" /\ Continue(t, Advance(q))
      <3>1. q \in Job /\ q.left = j.left /\ q.out = j.out \cup x.groups /\ q.status = j.status
            /\ q.listing = j.listing
        BY <1>0 DEF Job, Results
      <3> HIDE DEF q
      <3>2. k = Advance(q)
        BY <2>3 DEF Continue, AgentInv, JobsOK
      <3>3. /\ k.left = Tail(j.left) /\ k.out = j.out \cup x.groups /\ k.status = "ok" /\ ~k.listing
            /\ k.step = IF Len(j.left) > 1 THEN "call" ELSE "reply"
        BY <2>1, <3>1, <3>2 DEF Advance, Job
      <3>4. Ids(x) = {i} /\ x.groups \subseteq v.seen
        BY <1>0, <2>1, <2>3 DEF Reads
      <3>5. {g.id : g \in k.out} = {g.id : g \in j.out} \cup {i}
        BY <3>3, <3>4 DEF Ids
      <3>6. {g.id : g \in k.out} \cup Range(k.left) = w.given /\ k.out \subseteq w.seen
        BY <1>2, <2>1, <2>2, <3>3, <3>4, <3>5
      <3>7. k.step = "reply" => k.left = <<>>
        BY <2>1, <3>3, LastTail
      <3>8. Has(k, w)
        BY <3>3, <3>6, <3>7 DEF Has
      <3> QED
        BY <1>3, <3>3, <3>8
    <2>4. CASE x.status = "not found" /\ Continue(t, Fails(j))
      <3>1. k = Fails(j)
        BY <2>4 DEF Continue, AgentInv, JobsOK
      <3>2. k.status = "ko" /\ k.step = "reply" /\ ~k.listing
        BY <1>0, <2>1, <3>1 DEF Fails, Job
      <3>3. i \notin v.kept /\ i \in v.given
        BY <1>0, <2>1, <2>2, <2>4 DEF Reads
      <3>4. Has(k, w)
        BY <1>2, <3>2, <3>3 DEF Has
      <3> QED
        BY <1>3, <3>2, <3>4
    <2> QED
      BY <1>6, <2>3, <2>4 DEF AfterById
  <1> QED
    BY <1>4, <1>5, <1>6

LEMMA ListOKStep == AgentInv /\ ListOK /\ [AgentNext]_vars => ListOK'
  <1> SUFFICES ASSUME AgentInv, ListOK, [AgentNext]_vars, NEW t \in Threads, Listing(job[t])'
               PROVE  OneList(job[t], view[t], ret[t])'
    BY DEF ListOK
  <1>0. Inv /\ JobsOK /\ HolderOK /\ HandledOnce
    BY DEF AgentInv
  <1>1. Listing(job'[t])
    <2>1. job'[t].req \in Requests
      <3>1. job'[t] \in Job /\ job'[t].req # NoRequest
        BY <1>0, JobsOKStep DEF Inv, JobsOK, Listing
      <3> QED
        BY <3>1 DEF Job
    <2> QED
      BY <1>0, <2>1, CmdStays DEF Listing
  <1>2. CASE UNCHANGED vars
    BY <1>2 DEF vars, agentVars, storageVars, ListOK, OneList, Asks, Given, Reads, Has, Listing
  <1>3. CASE Observe
    <2>1. CASE job'[t] = job[t] /\ ret'[t] = ret[t]
      BY <1>1, <1>3, <2>1, ListKept
    <2>2. ASSUME NEW r \in Requests, Start(t, r) PROVE OneList(job[t], view[t], ret[t])'
      <3> DEFINE j == [NoJob EXCEPT !.step = "call", !.req = r, !.left = asked[r].ids,
                                    !.listing = asked[r].subject = "LIST"]
      <3>1. Fails(j).req = r /\ [j EXCEPT !.step = "reply"].req = r /\ j.req = r
        BY DEF NoJob, Fails
      <3>2. job'[t].req = r
        BY <1>0, <2>2, <3>1 DEF Start, JobsOK
      <3>3. asked[r].subject = "LIST"
        BY <1>1, <3>2 DEF Listing
      <3>4. job'[t] = j
        BY <1>0, <2>2, <3>3 DEF Start, JobsOK
      <3>5. job'[t].listing /\ job'[t].step = "call" /\ job'[t].status = "ok" /\ job'[t].out = {}
        BY <3>3, <3>4 DEF NoJob
      <3>6. job[t].step # "resume"
        BY <2>2 DEF Start, NoJob
      <3>7. view'[t] = [given |-> Ids(memory'), kept |-> Ids(memory'), seen |-> memory'.groups]
        BY <1>1, <1>3, <3>5, <3>6, Sees
      <3> QED
        BY <3>5, <3>7 DEF OneList, Asks, Given, Reads, Has
    <2>3. CASE Call(t)
      <3>1. Listing(job[t])
        BY <1>0, <1>1, <2>3 DEF Call, Listing, JobsOK, Job
      <3> QED
        BY <1>0, <1>3, <2>3, <3>1, ListCalls
    <2>4. CASE Write(t)
      <3>1. job' = job /\ mutex = t
        BY <2>4 DEF Write, WriteDone, WriteFailed, agentVars
      <3> QED
        BY <1>0, <1>1, <3>1 DEF HolderOK, Listing, Cmd
    <2>5. CASE Resume(t)
      <3>1. Listing(job[t])
        BY <1>0, <1>1, <2>5, ResumeReq DEF Continue, JobsOK, Listing
      <3> QED
        BY <1>1, <1>3, <2>5, <3>1, ListResumes
    <2>6. CASE Reply(t) \/ Die
      BY <1>0, <1>1, <2>6, NoJobJob DEF Reply, Die, JobsOK, Listing
    <2> QED
      BY <1>0, <2>1, <2>2, <2>3, <2>4, <2>5, <2>6, EachWorker
  <1> QED
    BY <1>2, <1>3 DEF AgentNext, Work

LEMMA ListOKAlways == AgentSpec => []ListOK
  <1>1. AgentInit => ListOK
    BY NoJobJob DEF AgentInit, ListOK, Listing
  <1> QED
    BY <1>1, ListOKStep, AgentAlways, PTL DEF AgentSpec

(* Whatever fails and whatever the other workers do between its calls, a   *)
(* LIST answers with every group that was stored all the time and with     *)
(* none that never was, and fails only if a group was removed meanwhile.   *)
THEOREM ListHonestAlways == AgentSpec => []ListHonest
  <1>1. ListOK /\ AgentInv => ListHonest
    <2> SUFFICES ASSUME ListOK, AgentInv, NEW t \in Threads, Listing(job[t]), job[t].step = "reply"
                 PROVE  IF job[t].status = "ok"
                        THEN /\ view[t].kept \subseteq {g.id : g \in job[t].out}
                             /\ job[t].out \subseteq view[t].seen
                        ELSE view[t].kept # view[t].given
      BY DEF ListHonest
    <2>1. ~job[t].listing /\ Has(job[t], view[t]) /\ view[t].kept \subseteq view[t].given
      BY DEF ListOK, OneList, Asks
    <2>2. job[t].status \in {"ok", "ko"}
      BY DEF AgentInv, JobsOK, Job
    <2> QED
      BY <2>1, <2>2, EmptyRange DEF Has
  <1> QED
    BY <1>1, ListOKAlways, AgentAlways, PTL

-----------------------------------------------------------------------------
(* What the agent's clients rely on when they ask for groups.              *)

(* From the call of ids() to the reply.                                    *)
Begun(j) == Listing(j) /\ ~(j.listing /\ j.step = "call")

Reading(j) == j.req # NoRequest /\ asked[j.req].subject = "READ"

\* The agent has loaded its file when a worker lists, and a READ is one call.
HeldOK ==
  \A t \in Threads : Begun(job[t]) => inited /\ view[t].kept \subseteq Ids(memory)

ReadOK ==
  \A t \in Threads : Reading(job[t]) /\ job[t].step \in {"call", "resume"} =>
    /\ job[t].left = Cmd(t).ids /\ Len(job[t].left) = 1
    /\ job[t].out = {} /\ job[t].status = "ok" /\ ~job[t].listing

ServedOK == AgentInv /\ ListOK /\ HeldOK /\ ReadOK

\* Only a process that dies forgets that it loaded the file.
LEMMA StaysLoaded ==
  ASSUME [AgentNext]_vars, inited PROVE inited' \/ Die
  <1>1. ASSUME NEW t \in Threads, Call(t) PROVE inited'
    BY <1>1 DEF Call, Save, Remove, Keys, ById, InitThrows, Return, Begin
  <1>2. ASSUME NEW t \in Threads, Write(t) PROVE inited'
    BY <1>2 DEF Write, WriteDone, WriteFailed
  <1>3. ASSUME NEW t \in Threads, Work(t) PROVE inited'
    BY <1>1, <1>2, <1>3 DEF Work, Start, Resume, Reply, storageVars
  <1> QED
    BY <1>3 DEF AgentNext, Process, vars, storageVars

\* A list begins when ids() is called, and goes on until it is replied to.
LEMMA Begins ==
  ASSUME AgentInv, ListOK, [AgentNext]_vars, NEW t \in Threads, Begun(job[t])'
  PROVE  /\ Listing(job'[t]) /\ job'[t].req = job[t].req /\ ~Die
         /\ \/ Call(t) /\ Listing(job[t]) /\ job[t].listing /\ job'[t].listing
               /\ job[t].step = "call"
            \/ Begun(job[t]) /\ (job'[t].listing => job[t].step = "resume")
  <1>0. Inv /\ JobsOK /\ HandledOnce
    BY DEF AgentInv
  <1>1. job'[t].req \in Requests /\ Listing(job'[t]) /\ ~(job'[t].listing /\ job'[t].step = "call")
    <2>1. job'[t] \in Job /\ job'[t].req # NoRequest
      BY <1>0, JobsOKStep DEF Inv, JobsOK, Begun, Listing
    <2>2. job'[t].req \in Requests
      BY <2>1 DEF Job
    <2> QED
      BY <1>0, <2>2, CmdStays DEF Begun, Listing
  <1>2. ~Die
    BY <1>1, AgentAssumption, NoJobJob DEF Die
  <1>3. ASSUME Listing(job[t]) PROVE job[t].listing => job[t].step \in {"call", "resume"}
    BY <1>3 DEF ListOK, OneList, Asks
  <1>4. CASE job'[t] = job[t]
    BY <1>1, <1>2, <1>3, <1>4 DEF Begun, Listing
  <1>5. ASSUME NEW r \in Requests, Start(t, r) PROVE FALSE
    <2> DEFINE j == [NoJob EXCEPT !.step = "call", !.req = r, !.left = asked[r].ids,
                                  !.listing = asked[r].subject = "LIST"]
    <2>1. Fails(j).req = r /\ [j EXCEPT !.step = "reply"].req = r /\ j.req = r
      BY DEF NoJob, Fails
    <2>2. job'[t].req = r
      BY <1>0, <1>5, <2>1 DEF Start, JobsOK
    <2>3. asked[r].subject = "LIST"
      BY <1>1, <2>2 DEF Listing
    <2>4. job'[t] = j
      BY <1>0, <1>5, <2>3 DEF Start, JobsOK
    <2>5. j.listing /\ j.step = "call"
      BY <2>3 DEF NoJob
    <2> QED
      BY <1>1, <2>4, <2>5
  <1>6. CASE Call(t)
    <2>1. /\ job[t].step = "call" /\ job'[t].req = job[t].req /\ job'[t].listing = job[t].listing
      BY <1>0, <1>6 DEF Call, JobsOK, Job
    <2> QED
      BY <1>1, <1>2, <1>6, <2>1 DEF Begun, Listing
  <1>7. CASE Resume(t)
    <2>1. job'[t].req = job[t].req
      BY <1>0, <1>1, <1>7, ResumeReq, AgentAssumption DEF Continue, JobsOK
    <2> QED
      BY <1>1, <1>2, <1>7, <2>1 DEF Begun, Listing, Resume
  <1>8. CASE Write(t)
    BY <1>4, <1>8 DEF Write, agentVars
  <1>9. CASE Reply(t)
    BY <1>0, <1>1, <1>9, NoJobJob, AgentAssumption DEF Reply, JobsOK
  <1> QED
    BY <1>0, <1>2, <1>4, <1>5, <1>6, <1>7, <1>8, <1>9, EachWorker

LEMMA HeldOKStep == AgentInv /\ ListOK /\ HeldOK /\ [AgentNext]_vars => HeldOK'
  <1> SUFFICES ASSUME AgentInv, ListOK, HeldOK, [AgentNext]_vars, NEW t \in Threads, Begun(job[t])'
               PROVE  inited' /\ view'[t].kept \subseteq Ids(memory)'
    BY DEF HeldOK
  <1>1. CASE UNCHANGED vars
    BY <1>1 DEF vars, agentVars, storageVars, HeldOK, Begun, Listing
  <1>2. CASE Observe
    <2>1. view'[t].kept \subseteq Ids(memory)'
      <3>1. \/ view'[t] = [given |-> Ids(memory'), kept |-> Ids(memory'), seen |-> memory'.groups]
            \/ view'[t] = [given |-> view[t].given,
                           kept |-> view[t].kept \cap Ids(memory'),
                           seen |-> view[t].seen \cup memory'.groups]
        BY <1>2, Begins, Sees
      <3>2. view'[t].kept \in {Ids(memory'), view[t].kept \cap Ids(memory')}
        BY <3>1
      <3>3. Ids(memory)' = Ids(memory')
        BY DEF Ids
      <3> QED
        BY <3>2, <3>3
    <2>2. CASE Call(t) /\ Listing(job[t]) /\ job[t].listing
      <3>1. Keys(t) \/ InitThrows(t)
        BY <2>2 DEF Call, Listing, Cmd
      <3>2. inited'
        BY <3>1 DEF Keys, InitThrows, Return
      <3> QED
        BY <2>1, <3>2
    <2>3. CASE Begun(job[t])
      BY <2>1, <2>3, Begins, StaysLoaded DEF HeldOK
    <2> QED
      BY <2>1, <2>2, <2>3, Begins
  <1> QED
    BY <1>1, <1>2 DEF AgentNext, Work

\* A worker reads what was asked for, and answers with what it was returned.
LEMMA ReadCalls ==
  ASSUME AgentInv, ReadOK, NEW t \in Threads, Call(t), Reading(job[t])
  PROVE  /\ job' = [job EXCEPT ![t].step = "resume"] /\ inited'
         /\ LET i == Cmd(t).ids[1] IN
            /\ ret'[t].status = "ok" => Ids(ret'[t]) = {i} /\ ret'[t].groups \subseteq memory'.groups
            /\ ret'[t].status = "not found" => i \notin Ids(memory')
  <1>1. job[t].left = Cmd(t).ids /\ Cmd(t).subject = "READ" /\ Head(job[t].left) = Cmd(t).ids[1]
    <2>1. job[t].left = Cmd(t).ids /\ Cmd(t).subject = "READ"
      BY DEF ReadOK, Call, Reading, Cmd
    <2>2. job[t].left \in Seq(0 .. MaxId) /\ job[t].left # <<>>
      BY EmptySeq DEF ReadOK, Call, Reading, AgentInv, JobsOK, Job
    <2> QED
      BY <2>1, <2>2
  <1>2. ById(t, Cmd(t).ids[1]) \/ InitThrows(t)
    BY <1>1 DEF Call
  <1> QED
    BY <1>2, ByIdFinds DEF AgentInv, Call

LEMMA ReadEnds ==
  ASSUME AgentInv, ReadOK, NEW t \in Threads, Resume(t), Reading(job[t]), job'[t].req # NoRequest
  PROVE  /\ job'[t].step = "reply" /\ job'[t].req = job[t].req
         /\ \/ ret[t].status = "ok" /\ job'[t].status = "ok" /\ job'[t].out = ret[t].groups
            \/ ret[t].status = "not found" /\ job'[t].status = "ko"
  <1> DEFINE j == job[t]
             q == [j EXCEPT !.out = @ \cup ret[t].groups]
  <1>1. /\ j \in Job /\ j.step = "resume" /\ Cmd(t).subject = "READ" /\ ret[t] \in Results
        /\ Len(j.left) = 1 /\ j.out = {} /\ j.status = "ok" /\ ~j.listing
    BY DEF ReadOK, Resume, Reading, Cmd, AgentInv, JobsOK, Inv, TypeOK
  <1>2. ~Escape(t)
    BY NoJobJob DEF Escape, Continue, AgentInv, JobsOK
  <1>3. AfterById(t)
    BY <1>1, <1>2 DEF Resume, AfterSave, AfterRemove, AfterIds, AfterResolve
  <1>4. CASE ret[t].status = "ok" /\ Continue(t, Advance(q))
    <2>1. /\ q \in Job /\ q.left = j.left /\ q.out = ret[t].groups /\ q.status = j.status
          /\ q.req = j.req
      BY <1>1 DEF Job, Results
    <2> HIDE DEF q
    <2>2. Advance(q).step = "reply" /\ Advance(q).out = q.out /\ Advance(q).status = "ok"
          /\ Advance(q).req = j.req
      <3>a. PICK next : next = IF Len(q.left) > 1 THEN "call" ELSE "reply"
        OBVIOUS
      <3>b. next = "reply"
        BY <1>1, <2>1, <3>a
      <3>1. Advance(q) = [q EXCEPT !.step = "reply", !.left = Tail(@)]
        BY <3>a, <3>b, Zenon DEF Advance
      <3> QED
        BY <1>1, <2>1, <3>1 DEF Job
    <2> QED
      BY <1>4, <2>1, <2>2 DEF Continue, AgentInv, JobsOK
  <1>5. CASE ret[t].status = "not found" /\ Continue(t, Fails(j))
    BY <1>1, <1>5 DEF Continue, Fails, Job, AgentInv, JobsOK
  <1> QED
    BY <1>3, <1>4, <1>5 DEF AfterById

LEMMA ReadOKStep == AgentInv /\ ReadOK /\ [AgentNext]_vars => ReadOK'
  <1> SUFFICES ASSUME AgentInv, ReadOK, [AgentNext]_vars, NEW t \in Threads,
                      Reading(job[t])', job'[t].step \in {"call", "resume"}
               PROVE  /\ job'[t].left = Cmd(t)'.ids /\ Len(job'[t].left) = 1
                      /\ job'[t].out = {} /\ job'[t].status = "ok" /\ ~job'[t].listing
    BY DEF ReadOK
  <1>0. Inv /\ JobsOK /\ HandledOnce /\ JobsOK' /\ ValidOK'
    BY JobsOKStep, ValidOKStep DEF AgentInv, Inv
  <1>1. job'[t].req \in Requests /\ asked'[job'[t].req] = asked[job'[t].req]
    <2>1. job'[t].req \in Requests
      BY <1>0 DEF JobsOK, JobOK
    <2> QED
      BY <1>0, <2>1, CmdStays
  <1>2. ASSUME job'[t].req = job[t].req PROVE Reading(job[t]) /\ Cmd(t)' = Cmd(t)
    BY <1>1, <1>2 DEF Reading, Cmd
  <1>3. CASE job'[t] = job[t]
    BY <1>2, <1>3 DEF ReadOK
  <1>4. ASSUME NEW r \in Requests, Start(t, r)
        PROVE  /\ job'[t].left = Cmd(t)'.ids /\ Len(job'[t].left) = 1
               /\ job'[t].out = {} /\ job'[t].status = "ok" /\ ~job'[t].listing
    <2> DEFINE j == [NoJob EXCEPT !.step = "call", !.req = r, !.left = asked[r].ids,
                                  !.listing = asked[r].subject = "LIST"]
    <2>1. /\ Fails(j).step = "reply" /\ [j EXCEPT !.step = "reply"].step = "reply"
          /\ j.req = r /\ j.left = asked[r].ids /\ j.out = {} /\ j.status = "ok"
          /\ j.listing = (asked[r].subject = "LIST")
      BY DEF NoJob, Fails
    <2>2. job'[t] = j
      <3> HIDE DEF j
      <3>1. job'[t] = IF asked[r].subject # "LIST" /\ ~asked[r].valid THEN Fails(j)
                      ELSE IF asked[r].subject = "DELETE" /\ asked[r].ids = <<>>
                      THEN [j EXCEPT !.step = "reply"] ELSE j
        BY <1>0, <1>4 DEF Start, JobsOK, j
      <3> QED
        BY <2>1, <3>1
    <2>3. Cmd(t)' = asked[r] /\ asked[r].subject = "READ"
      BY <1>1, <2>1, <2>2 DEF Cmd, Reading
    <2>4. asked[r].valid /\ asked[r] \in Commands
      BY <1>0, <1>1, <2>1, <2>2, <2>3 DEF ValidOK, JobsOK, JobOK, Cmd
    <2>5. Len(asked[r].ids) = 1
      BY <2>3, <2>4, AgentAssumption
    <2> HIDE DEF j
    <2> QED
      BY <2>1, <2>2, <2>3, <2>5
  <1>5. CASE Call(t)
    <2>1. /\ job[t].step = "call" /\ job'[t].req = job[t].req /\ job'[t].left = job[t].left
          /\ job'[t].out = job[t].out /\ job'[t].status = job[t].status
          /\ job'[t].listing = job[t].listing
      BY <1>0, <1>5 DEF Call, JobsOK, Job
    <2> QED
      BY <1>2, <2>1 DEF ReadOK
  <1>6. CASE Resume(t)
    <2>1. job'[t].req = job[t].req /\ job'[t].req # NoRequest
      BY <1>0, <1>1, <1>6, ResumeReq, AgentAssumption DEF Continue, JobsOK
    <2> QED
      BY <1>2, <1>6, <2>1, ReadEnds
  <1>7. CASE Write(t)
    BY <1>3, <1>7 DEF Write, agentVars
  <1>8. CASE Reply(t) \/ Die
    BY <1>0, <1>1, <1>8, NoJobJob, AgentAssumption DEF Reply, Die, JobsOK
  <1> QED
    BY <1>0, <1>3, <1>4, <1>5, <1>6, <1>7, <1>8, EachWorker

LEMMA ServedAlways == AgentSpec => []ServedOK
  <1>1. AgentInit => HeldOK /\ ReadOK
    BY NoJobJob DEF AgentInit, HeldOK, ReadOK, Begun, Listing, Reading
  <1> QED
    BY <1>1, HeldOKStep, ReadOKStep, ListOKAlways, AgentAlways, PTL DEF AgentSpec, ServedOK

-----------------------------------------------------------------------------
(* The events tell which groups there are.                                 *)

\* The ids that were handed out and have no group.
Missing(db) == (1 .. db.lastId) \ Ids(db)

\* What the last call of worker t returned, or is going to.
Outcome(t) == IF mutex = t THEN pending ELSE ret[t]

\* Worker t has an event to publish: it removed group i, or created it.
OwesDeleted(t, i) == Removing(t) /\ Outcome(t).status = "ok" /\ i = Head(job[t].left)

OwesCreated(t, i) ==
  /\ job[t].step = "resume" /\ Cmd(t).subject = "CREATE"
  /\ mutex # t /\ ret[t].status = "created" /\ i \in Ids(ret[t])

DeletesTold ==
  \A i : i \in Missing(memory) <=>
           Told(events, "DELETED", i) \/ \E t \in Threads : OwesDeleted(t, i)

DeletedOnce(es) ==
  \A k, l \in DOMAIN es : es[k] = es[l] /\ es[k].subject = "DELETED" => k = l

DeletesOnce ==
  /\ \A t \in Threads : \A i : OwesDeleted(t, i) =>
       ~Told(events, "DELETED", i) /\ \A u \in Threads : OwesDeleted(u, i) => u = t
  /\ DeletedOnce(events)

CreatesTold ==
  \A i \in acked : Told(events, "CREATED", i) \/ \E t \in Threads : OwesCreated(t, i)

\* Only a CREATE makes a new group.
CreatesOwn ==
  \A t \in Threads :
    job[t].step = "resume" /\ Outcome(t).status = "created" => Cmd(t).subject = "CREATE"

\* Nothing was removed from the file before this run.
WholeFile == ~inited => Missing(file) = {}

EventsTold == DeletesTold /\ DeletesOnce /\ CreatesTold /\ CreatesOwn /\ WholeFile

-----------------------------------------------------------------------------
LEMMA SaveMisses ==
  ASSUME NEW db \in DbObj, Sound(db), NEW g \in Group, CanSave(db, g)
  PROVE  Missing(SaveTo(db, g)) = Missing(db)
  <1>1. CASE g.id = NoId
    <2>1. SaveTo(db, g).lastId = db.lastId + 1 /\ db.lastId \in Nat
      BY <1>1, GroupDbAssumption DEF SaveTo, DbObj
    <2>2. SaveTo(db, g).groups = db.groups \cup {Saved(db, g)} /\ Saved(db, g).id = db.lastId + 1
      BY <1>1 DEF SaveTo, Saved, Group
    <2>3. Ids(SaveTo(db, g)) = Ids(db) \cup {db.lastId + 1}
      BY <2>2 DEF Ids
    <2> QED
      BY <2>1, <2>3 DEF Missing
  <1>2. CASE g.id # NoId
    <2>1. /\ SaveTo(db, g).lastId = db.lastId
          /\ SaveTo(db, g).groups = {IF h \in First(WithId(db, g.id)) THEN g ELSE h : h \in db.groups}
      BY <1>2 DEF SaveTo, DbObj
    <2>2. \A h \in First(WithId(db, g.id)) : h.id = g.id /\ h \in db.groups
      BY DEF First, WithId
    <2>3. Ids(SaveTo(db, g)) \subseteq Ids(db)
      BY <2>1, <2>2 DEF Ids
    <2>4. Ids(db) \subseteq Ids(SaveTo(db, g))
      BY SaveKeeps
    <2> QED
      BY <2>1, <2>3, <2>4 DEF Missing
  <1> QED
    BY <1>1, <1>2

LEMMA DropMisses ==
  ASSUME NEW db \in DbObj, Sound(db), NEW i, WithId(db, i) # {}, NEW gone \in Removals(WithId(db, i))
  PROVE  /\ \A k : k \in Missing(Drop(db, gone)) <=> k \in Missing(db) \/ k = i
         /\ i \notin Missing(db)
  <1>1. i \in Ids(db) /\ i \in 1 .. db.lastId
    BY DEF WithId, Ids, Sound
  <1>2. i \notin Ids(Drop(db, gone))
    BY RemovedClear DEF Clear, Ids
  <1>3. \A k \in Ids(db) : k # i => k \in Ids(Drop(db, gone))
    BY RemoveKeeps
  <1>4. Ids(Drop(db, gone)) \subseteq Ids(db) /\ Drop(db, gone).lastId = db.lastId
    BY DEF Drop, Ids, DbObj
  <1> QED
    BY <1>1, <1>2, <1>3, <1>4 DEF Missing

\* The document that a call works on misses what the memory misses.
LEMMA OpenedMisses ==
  ASSUME Faults \subseteq {"load"}, Inv, WholeFile, NEW db \in Opened
  PROVE  Missing(db) = Missing(memory)
  <1>1. CASE inited
    BY <1>1 DEF Opened
  <1>2. CASE ~inited
    <2>1. db \in {file, EmptyDb} /\ memory = EmptyDb
      BY <1>2 DEF Opened, Inv, TypeOK
    <2>2. Missing(EmptyDb) = {}
      BY DEF Missing, EmptyDb
    <2> QED
      BY <1>2, <2>1, <2>2 DEF WholeFile
  <1> QED
    BY <1>1, <1>2

\* After an event was published there is that one more.
LEMMA PublishAdds ==
  ASSUME events \in Seq(Event), NEW s \in {"CREATED", "UPDATED", "DELETED"},
         NEW i \in 0 .. MaxId, Publish(s, i), "publish" \notin Outages
  PROVE  /\ \A q, k : Told(events', q, k) <=> Told(events, q, k) \/ (q = s /\ k = i)
         /\ DeletedOnce(events) /\ (s = "DELETED" => ~Told(events, "DELETED", i)) => DeletedOnce(events')
  <1> DEFINE e == [subject |-> s, id |-> i]
  <1>1. \A q, k : Told(events', q, k) <=> Told(events, q, k) \/ (q = s /\ k = i)
    BY PublishTells, PublishSays
  <1>2. events' = Append(events, e) /\ e \in Event /\ e.subject = s
    BY DEF Publish, Event
  <1>3. /\ \A k \in 1 .. Len(events) : events'[k] = events[k]
        /\ events'[Len(events) + 1] = e
        /\ DOMAIN events = 1 .. Len(events) /\ DOMAIN events' = 1 .. Len(events) + 1
        /\ Len(events) \in Nat
    BY <1>2, AppendProperties, LenProperties
  <1>4. ASSUME DeletedOnce(events), s = "DELETED" => ~Told(events, "DELETED", i)
        PROVE  DeletedOnce(events')
    <2>1. ASSUME NEW k \in DOMAIN events, events[k] = e, s = "DELETED" PROVE FALSE
      BY <1>4, <2>1 DEF Told
    <2>2. \A k \in DOMAIN events' : k \in DOMAIN events \/ k = Len(events) + 1
      BY <1>3
    <2> SUFFICES ASSUME NEW k \in DOMAIN events', NEW l \in DOMAIN events',
                        events'[k] = events'[l], events'[k].subject = "DELETED"
                 PROVE  k = l
      BY DEF DeletedOnce
    <2>3. CASE k \in DOMAIN events /\ l \in DOMAIN events
      BY <1>3, <1>4, <2>3 DEF DeletedOnce
    <2>4. CASE k = Len(events) + 1 \/ l = Len(events) + 1
      <3> HIDE DEF e
      <3> QED
        BY <1>2, <1>3, <2>1, <2>2, <2>4
    <2> QED
      BY <2>2, <2>3, <2>4
  <1> QED
    BY <1>1, <1>4

\* Every UPDATE says which group it is about.
UpdatesName ==
  \A c \in Commands : c.valid /\ c.subject = "UPDATE" => NoId \notin {g.id : g \in c.groups}

(* A call that removes a group makes one more id missing; no other call    *)
(* does, and only a CREATE gets a new group.                               *)
LEMMA CallMisses ==
  ASSUME Faults \subseteq {"load"}, UpdatesName, AgentInv, WholeFile, NEW t \in Threads, Call(t)
  PROVE  /\ acked' = acked
         /\ Outcome(t)'.status = "created" => Cmd(t).subject = "CREATE"
         /\ \/ /\ Cmd(t).subject = "DELETE" /\ Outcome(t)'.status = "ok"
               /\ Head(job[t].left) \notin Missing(memory)
               /\ \A k : k \in Missing(memory') <=> k \in Missing(memory) \/ k = Head(job[t].left)
            \/ /\ Missing(memory') = Missing(memory)
               /\ ~(Cmd(t).subject = "DELETE" /\ Outcome(t)'.status = "ok")
  <1> DEFINE i == Head(job[t].left)
             Same == /\ Missing(memory') = Missing(memory)
                     /\ ~(Cmd(t).subject = "DELETE" /\ Outcome(t)'.status = "ok")
             More == /\ Cmd(t).subject = "DELETE" /\ Outcome(t)'.status = "ok"
                     /\ i \notin Missing(memory)
                     /\ \A k : k \in Missing(memory') <=> k \in Missing(memory) \/ k = i
             Goal == /\ acked' = acked
                     /\ Outcome(t)'.status = "created" => Cmd(t).subject = "CREATE"
                     /\ More \/ Same
  <1>0. /\ Inv /\ ret \in [Threads -> Results] /\ job[t].step = "call"
        /\ Cmd(t) \in Commands /\ Cmd(t) \in Command
        /\ Cmd(t).subject = "LIST" \/ Cmd(t).valid
    BY AgentAssumption DEF AgentInv, Inv, TypeOK, Call, JobsOK, JobOK, Cmd, ValidOK
  <1>1. ASSUME NEW db, NEW x, Return(t, db, x) \/ Begin(t, db, x)
        PROVE  Outcome(t)' = x /\ memory' = db /\ acked' = acked
    BY <1>0, <1>1, StorageAssumption DEF Return, Begin, Outcome
  <1>2. \A S : /\ Found(S).status \in {"ok", "not found"} /\ Found({}).status = "not found"
               /\ Result("ok", S).status = "ok"
    BY DEF Found, Result, Abstract!Found, Abstract!Result
  <1>3. \A db \in Opened : db \in DbObj /\ Sound(db) /\ Missing(db) = Missing(memory)
    BY <1>0, OpenedSound, OpenedMisses
  <1>4. ASSUME NEW db \in Opened, NEW x, Return(t, db, x), x.status \in {"ok", "not found"},
               Cmd(t).subject # "DELETE" \/ x.status # "ok"
        PROVE  Goal
    <2>1. Outcome(t)' = x /\ memory' = db /\ acked' = acked
      BY <1>1, <1>4
    <2>2. Missing(memory') = Missing(memory)
      BY <1>3, <2>1
    <2> QED
      BY <1>4, <2>1, <2>2
  <1> HIDE DEF Goal
  <1>5. ASSUME Cmd(t).subject # "DELETE", Keys(t) \/ ById(t, i) PROVE Goal
    BY <1>2, <1>4, <1>5 DEF Keys, ById
  <1>6. ASSUME NEW g \in Cmd(t).groups, Save(t, g), Cmd(t).subject \in {"CREATE", "UPDATE"}
        PROVE  Goal
    <2>1. PICK db \in Opened : CanSave(db, g) /\ Begin(t, SaveTo(db, g), Abstract!SaveResult(db, g))
      BY <1>6 DEF Save
    <2>2. g \in Group
      BY <1>0 DEF Command
    <2>3. Missing(memory') = Missing(memory)
      BY <1>1, <1>3, <2>1, <2>2, SaveMisses
    <2>4. Outcome(t)'.status = (IF g.id = NoId THEN "created" ELSE "saved")
      BY <1>1, <1>3, <2>1, <2>2, SaveKeeps
    <2>5. g.id = NoId => Cmd(t).subject # "UPDATE"
      BY <1>0, <1>6 DEF UpdatesName
    <2>6. acked' = acked
      BY <1>1, <2>1
    <2> QED
      BY <1>6, <2>3, <2>4, <2>5, <2>6 DEF Goal
  <1>7. ASSUME Cmd(t).subject = "DELETE", Remove(t, i) PROVE Goal
    <2>1. PICK db \in Opened :
            \/ Return(t, db, Found({}))
            \/ /\ WithId(db, i) # {}
               /\ \E gone \in Removals(WithId(db, i)) : Begin(t, Drop(db, gone), Result("ok", {}))
      BY <1>7 DEF Remove
    <2>2. CASE Return(t, db, Found({}))
      BY <1>2, <1>4, <2>2
    <2>3. ASSUME WithId(db, i) # {}, NEW gone \in Removals(WithId(db, i)),
                 Begin(t, Drop(db, gone), Result("ok", {}))
          PROVE  Goal
      <3>1. Outcome(t)' = Result("ok", {}) /\ memory' = Drop(db, gone) /\ acked' = acked
        BY <1>1, <2>3
      <3>2. /\ \A k : k \in Missing(memory') <=> k \in Missing(memory) \/ k = i
            /\ i \notin Missing(memory)
        BY <1>3, <2>3, <3>1, DropMisses
      <3> QED
        BY <1>2, <1>7, <3>1, <3>2 DEF Goal
    <2> QED
      BY <2>1, <2>2, <2>3
  <1>8. ASSUME InitThrows(t) PROVE Goal
    <2>1. Return(t, EmptyDb, Result("exception", {})) /\ memory = EmptyDb
      BY <1>0, <1>8 DEF InitThrows, Inv, TypeOK
    <2>2. /\ Outcome(t)' = Result("exception", {}) /\ memory' = EmptyDb
          /\ acked' = acked
      BY <1>1, <2>1
    <2>3. Result("exception", {}).status = "exception"
      BY DEF Result, Abstract!Result
    <2> QED
      BY <2>1, <2>2, <2>3 DEF Goal
  <1>9. Goal
    BY <1>5, <1>6, <1>7, <1>8 DEF Call
  <1> QED
    BY <1>9 DEF Goal

\* A worker that is left alone owes what it owed.
LEMMA OwesStays ==
  ASSUME AgentInv, [AgentNext]_vars, NEW u \in Threads,
         job'[u] = job[u], ret'[u] = ret[u], mutex' = u <=> mutex = u
  PROVE  /\ Outcome(u)' = Outcome(u)
         /\ job[u].step = "resume" => Cmd(u)' = Cmd(u)
         /\ \A i : OwesDeleted(u, i)' <=> OwesDeleted(u, i)
         /\ \A i : OwesCreated(u, i)' <=> OwesCreated(u, i)
  <1>0. Inv /\ JobsOK /\ HandledOnce
    BY DEF AgentInv
  <1>1. Outcome(u)' = Outcome(u)
    BY <1>0, StorageStep, PendingStays, StorageAssumption DEF Outcome
  <1>2. job[u].step = "resume" => Cmd(u)' = Cmd(u)
    BY <1>0, CmdStays DEF JobsOK, JobOK, Cmd
  <1>3. \A i : OwesDeleted(u, i)' <=> OwesDeleted(u, i)
    BY <1>1, <1>2 DEF OwesDeleted, Removing
  <1>4. \A i : OwesCreated(u, i)' <=> OwesCreated(u, i)
    BY <1>2 DEF OwesCreated, Ids
  <1> QED
    BY <1>1, <1>2, <1>3, <1>4

\* What a worker owes it publishes when it goes on, and no other event but an update.
LEMMA ResumeTells ==
  ASSUME "publish" \notin Outages, AgentInv, LeftOK, OneSaved, NEW t \in Threads, Resume(t)
  PROVE  /\ job'[t].step # "resume"
         /\ \A k : Told(events', "DELETED", k) <=> Told(events, "DELETED", k) \/ OwesDeleted(t, k)
         /\ \A k : Told(events, "CREATED", k) \/ OwesCreated(t, k) => Told(events', "CREATED", k)
         /\ DeletedOnce(events) /\ (\A k : OwesDeleted(t, k) => ~Told(events, "DELETED", k))
              => DeletedOnce(events')
  <1> DEFINE c == Cmd(t)
             Goal == /\ \A k : Told(events', "DELETED", k) <=> Told(events, "DELETED", k) \/ OwesDeleted(t, k)
                     /\ \A k : Told(events, "CREATED", k) \/ OwesCreated(t, k) => Told(events', "CREATED", k)
                     /\ DeletedOnce(events) /\ (\A k : OwesDeleted(t, k) => ~Told(events, "DELETED", k))
                          => DeletedOnce(events')
  <1>0. /\ JobsOK /\ TypeOK /\ events \in Seq(Event) /\ job \in [Threads -> Job]
        /\ ret[t] \in Results /\ job[t].step = "resume" /\ mutex # t /\ Outcome(t) = ret[t]
        /\ JobOK(job[t]) /\ (job[t].listing => c.subject = "LIST")
    BY DEF AgentInv, Inv, TypeOK, JobsOK, EventsOK, Resume, LeftOK, Outcome
  <1>1. job'[t].step # "resume"
    <2>1. PICK k : Continue(t, k) /\ k.step # "resume"
      BY <1>0, ResumeLeaves
    <2> QED
      BY <1>0, <2>1 DEF Continue
  <1>2. /\ \A k : OwesDeleted(t, k) <=>
             c.subject = "DELETE" /\ ret[t].status = "ok" /\ k = Head(job[t].left)
        /\ \A k : OwesCreated(t, k) <=>
             c.subject = "CREATE" /\ ret[t].status = "created" /\ k \in Ids(ret[t])
    BY <1>0 DEF OwesDeleted, OwesCreated, Removing
  <1>3. ASSUME UNCHANGED events, c.subject = "DELETE" => ret[t].status # "ok",
               c.subject = "CREATE" => ret[t].status # "created"
        PROVE  Goal
    BY <1>2, <1>3
  <1> HIDE DEF Goal
  <1>4. ASSUME AfterSave(t) PROVE Goal
    <2>1. ASSUME ret[t].status \in {"created", "saved"}, NEW g \in ret[t].groups,
                 Publish(IF c.subject = "CREATE" THEN "CREATED" ELSE "UPDATED", g.id)
          PROVE  Goal
      <3> DEFINE s == IF c.subject = "CREATE" THEN "CREATED" ELSE "UPDATED"
      <3>1. ret[t].groups = {g} /\ g.id \in 0 .. MaxId
        BY <2>1 DEF OneSaved, Group
      <3>2. Ids(ret[t]) = {g.id}
        BY <3>1 DEF Ids
      <3>3. /\ \A q, k : Told(events', q, k) <=> Told(events, q, k) \/ (q = s /\ k = g.id)
            /\ DeletedOnce(events) => DeletedOnce(events')
        BY <1>0, <2>1, <3>1, PublishAdds
      <3>4. c.subject # "DELETE" /\ s # "DELETED" /\ (c.subject = "CREATE" => s = "CREATED")
        BY <1>4 DEF AfterSave
      <3> HIDE DEF s
      <3> QED
        BY <1>2, <3>2, <3>3, <3>4 DEF Goal
    <2> QED
      BY <1>3, <1>4, <2>1 DEF AfterSave
  <1>5. ASSUME AfterRemove(t) PROVE Goal
    <2> DEFINE i == Head(job[t].left)
    <2>1. CASE ret[t].status = "ok" /\ Publish("DELETED", i)
      <3>1. i \in 0 .. MaxId
        <4>1. job[t].left # <<>> /\ job[t].left \in Seq(0 .. MaxId)
          BY <1>0, <1>5 DEF AfterRemove, JobOK, NeedsId, Cmd, Job
        <4> QED
          BY <4>1, HeadTailProperties
      <3>2. /\ \A q, k : Told(events', q, k) <=> Told(events, q, k) \/ (q = "DELETED" /\ k = i)
            /\ DeletedOnce(events) /\ ~Told(events, "DELETED", i) => DeletedOnce(events')
        BY <1>0, <2>1, <3>1, PublishAdds
      <3>3. c.subject = "DELETE"
        BY <1>5 DEF AfterRemove
      <3> HIDE DEF i
      <3> QED
        BY <1>2, <2>1, <3>2, <3>3 DEF Goal, i
    <2> QED
      BY <1>3, <1>5, <2>1 DEF AfterRemove
  <1>6. ASSUME AfterIds(t) \/ AfterById(t) \/ AfterResolve(t) \/ Escape(t) PROVE Goal
    <2>1. UNCHANGED events /\ (c.subject # "DELETE" \/ ret[t].status = "exception")
      BY <1>0, <1>6 DEF AfterIds, AfterById, AfterResolve, Escape
    <2>2. c.subject = "CREATE" => ret[t].status # "created"
      BY <1>0, <1>6 DEF AfterIds, AfterById, AfterResolve, Escape
    <2> QED
      BY <1>3, <2>1, <2>2
  <1>7. Goal
    BY <1>4, <1>5, <1>6 DEF Resume
  <1> QED
    BY <1>1, <1>7 DEF Goal

\* Nothing is published, and no worker owes more or less than before.
LEMMA ToldKept ==
  ASSUME DeletesTold, DeletesOnce, CreatesTold, UNCHANGED <<memory, events>>,
         \A t \in Threads : \A i : OwesDeleted(t, i)' <=> OwesDeleted(t, i),
         \A t \in Threads : \A i : OwesCreated(t, i) => OwesCreated(t, i)',
         \A i \in acked' : i \in acked \/ \E t \in Threads : OwesCreated(t, i)'
  PROVE  DeletesTold' /\ DeletesOnce' /\ CreatesTold'
  <1>1. DeletesTold'
    BY DEF DeletesTold, Missing, Ids
  <1>2. DeletesOnce'
    BY DEF DeletesOnce, DeletedOnce
  <1>3. CreatesTold'
    BY DEF CreatesTold
  <1> QED
    BY <1>1, <1>2, <1>3

\* A new group is made for a worker that was asked for one.
LEMMA CreatesOwnStep ==
  ASSUME Faults \subseteq {"load"}, UpdatesName, AgentInv, LeftOK, EventsTold, [AgentNext]_vars
  PROVE  CreatesOwn'
  <1>0. Inv /\ JobsOK /\ HandledOnce /\ TypeOK /\ JobsOK' /\ job \in [Threads -> Job]
        /\ ret \in [Threads -> Results]
    BY JobsOKStep DEF AgentInv, Inv, JobsOK, TypeOK
  <1> SUFFICES ASSUME NEW t \in Threads, job'[t].step = "resume", Outcome(t)'.status = "created"
               PROVE  Cmd(t)'.subject = "CREATE"
    BY DEF CreatesOwn
  <1>1. asked'[job'[t].req] = asked[job'[t].req]
    BY <1>0, CmdStays DEF JobsOK, JobOK
  <1>2. ASSUME job'[t] = job[t], Outcome(t)' = Outcome(t) PROVE Cmd(t)'.subject = "CREATE"
    BY <1>1, <1>2 DEF EventsTold, CreatesOwn, Cmd
  <1>3. ASSUME NEW r \in Requests, Start(t, r) PROVE FALSE
    <2> DEFINE j == [NoJob EXCEPT !.step = "call", !.req = r, !.left = asked[r].ids,
                                  !.listing = asked[r].subject = "LIST"]
    <2>1. /\ j.step = "call" /\ Fails(j).step = "reply"
          /\ [j EXCEPT !.step = "reply"].step = "reply"
      BY DEF NoJob, Fails
    <2>2. job'[t].step # "resume"
      BY <1>0, <1>3, <2>1 DEF Start
    <2> QED
      BY <2>2
  <1>4. CASE Call(t)
    <2>1. job'[t].req = job[t].req
      BY <1>0, <1>4 DEF Call, Job
    <2>2. Cmd(t).subject = "CREATE"
      BY <1>4, CallMisses DEF EventsTold
    <2> QED
      BY <1>1, <2>1, <2>2 DEF Cmd
  <1>5. CASE Write(t)
    <2>1. WriteDone(t) /\ job' = job
      BY <1>5 DEF Write, WriteFailed, agentVars
    <2>2. Outcome(t)' = Outcome(t)
      BY <1>0, <2>1, StorageAssumption DEF WriteDone, Outcome
    <2> QED
      BY <1>2, <2>1, <2>2
  <1>6. CASE Resume(t)
    <2>1. PICK k : Continue(t, k) /\ k.step # "resume"
      BY <1>0, <1>6, ResumeLeaves
    <2> QED
      BY <1>0, <2>1 DEF Continue
  <1>7. CASE Reply(t) \/ Die
    BY <1>0, <1>7, NoJobJob DEF Reply, Die
  <1>8. CASE job'[t] = job[t] /\ ret'[t] = ret[t] /\ (mutex' = t <=> mutex = t)
    BY <1>2, <1>8, OwesStays
  <1> QED
    BY <1>0, <1>3, <1>4, <1>5, <1>6, <1>7, <1>8, EachWorker

LEMMA WholeFileStep ==
  ASSUME Faults \subseteq {"load"}, AgentInv, WholeFile, [AgentNext]_vars
  PROVE  WholeFile'
  <1>1. inited \/ file' = file
    <2> SUFFICES ASSUME ~inited PROVE file' = file
      OBVIOUS
    <2>1. mutex = NoThread
      BY DEF AgentInv, Inv, TypeOK
    <2>2. ASSUME NEW t \in Threads PROVE ~Write(t)
      BY <2>1, StorageAssumption DEF Write, WriteDone, WriteFailed
    <2>3. ASSUME NEW t \in Threads, Call(t) PROVE file' = file
      BY <2>3 DEF Call, Save, Remove, Keys, ById, InitThrows, Return, Begin
    <2>4. ~Die
      BY DEF Die, Crash
    <2> QED
      BY <2>2, <2>3, <2>4 DEF AgentNext, Work, Process, Start, Resume, Reply, vars, storageVars
  <1>2. inited => inited'
    BY StaysLoaded DEF Die, Crash
  <1> QED
    BY <1>1, <1>2 DEF WholeFile, Missing, Ids

\* What a worker's step does to the events and to what they owe.
LEMMA WorkTold ==
  ASSUME Faults \subseteq {"load"}, UpdatesName, "publish" \notin Outages, AgentInv, LeftOK, OneSaved,
         EventsTold, NEW t \in Threads, Work(t)
  PROVE  DeletesTold' /\ DeletesOnce' /\ CreatesTold'
  <1> DEFINE Goal == DeletesTold' /\ DeletesOnce' /\ CreatesTold'
  <1>0. /\ Inv /\ JobsOK /\ job \in [Threads -> Job] /\ ret \in [Threads -> Results]
        /\ AgentNext /\ HolderOK
        /\ DeletesTold /\ DeletesOnce /\ CreatesTold /\ CreatesOwn /\ WholeFile
    BY DEF AgentInv, Inv, JobsOK, TypeOK, AgentNext, EventsTold
  <1>1. ASSUME NEW u \in Threads, u # t
        PROVE  /\ \A i : OwesDeleted(u, i)' <=> OwesDeleted(u, i)
               /\ \A i : OwesCreated(u, i)' <=> OwesCreated(u, i)
    <2>1. job'[u] = job[u] /\ ret'[u] = ret[u] /\ (mutex' = u <=> mutex = u)
      BY <1>1, WorkAlone
    <2> QED
      BY <1>0, <2>1, OwesStays
  <1>2. job[t].step # "resume" => \A i : ~OwesDeleted(t, i) /\ ~OwesCreated(t, i)
    BY DEF OwesDeleted, OwesCreated, Removing
  <1>3. job'[t].step # "resume" => \A i : ~OwesDeleted(t, i)' /\ ~OwesCreated(t, i)'
    BY DEF OwesDeleted, OwesCreated, Removing
  <1>4. ASSUME job[t].step # "resume", job'[t].step # "resume", UNCHANGED <<storageVars, events>>
        PROVE  Goal
    <2>1. UNCHANGED <<memory, acked, events>>
      BY <1>4 DEF storageVars
    <2>2. \A u \in Threads : \A i : /\ OwesDeleted(u, i)' <=> OwesDeleted(u, i)
                                    /\ OwesCreated(u, i)' <=> OwesCreated(u, i)
      BY <1>1, <1>2, <1>3, <1>4
    <2> QED
      BY <1>0, <2>1, <2>2, ToldKept
  <1> HIDE DEF Goal
  <1>5. ASSUME NEW r \in Requests, Start(t, r) PROVE Goal
    <2> DEFINE j == [NoJob EXCEPT !.step = "call", !.req = r, !.left = asked[r].ids,
                                  !.listing = asked[r].subject = "LIST"]
    <2>1. /\ j.step = "call" /\ Fails(j).step = "reply"
          /\ [j EXCEPT !.step = "reply"].step = "reply"
      BY DEF NoJob, Fails
    <2>2. job'[t].step # "resume"
      BY <1>0, <1>5, <2>1 DEF Start
    <2>3. job[t].step # "resume"
      BY <1>5, NoJobJob DEF Start
    <2>4. UNCHANGED <<storageVars, events>>
      BY <1>5 DEF Start
    <2> QED
      BY <1>4, <2>2, <2>3, <2>4
  <1>6. ASSUME Reply(t) PROVE Goal
    BY <1>0, <1>4, <1>6, NoJobJob DEF Reply
  <1>7. ASSUME Call(t) PROVE Goal
    <2> DEFINE i == Head(job[t].left)
    <2>0. /\ job[t].step = "call" /\ job'[t].step = "resume" /\ UNCHANGED <<asked, events>>
          /\ job'[t].left = job[t].left /\ job'[t].req = job[t].req
      BY <1>0, <1>7 DEF Call, Job
    <2>1. \A k : OwesDeleted(t, k)' <=>
                   Cmd(t).subject = "DELETE" /\ Outcome(t)'.status = "ok" /\ k = i
      BY <2>0 DEF OwesDeleted, Removing, Cmd
    <2>2. \A k : ~OwesDeleted(t, k) /\ ~OwesCreated(t, k)
      BY <1>2, <2>0
    <2>3. acked' = acked
      BY <1>0, <1>7, CallMisses
    <2>4. CreatesTold'
      BY <1>0, <1>1, <2>0, <2>2, <2>3 DEF CreatesTold
    <2>5. \A k : k \in Missing(memory)' <=> k \in Missing(memory) \/ OwesDeleted(t, k)'
      <3>1. Missing(memory)' = Missing(memory')
        BY DEF Missing, Ids
      <3> QED
        BY <1>0, <1>7, <2>1, <3>1, CallMisses
    <2>6. \A k : OwesDeleted(t, k)' => k \notin Missing(memory)
      BY <1>0, <1>7, <2>1, CallMisses
    <2>7. DeletesTold'
      <3>1. ASSUME NEW k
            PROVE  k \in Missing(memory)' <=>
                     Told(events', "DELETED", k) \/ \E u \in Threads : OwesDeleted(u, k)'
        BY <1>0, <1>1, <2>0, <2>2, <2>5 DEF DeletesTold
      <3> QED
        BY <3>1 DEF DeletesTold
    <2>8. DeletesOnce'
      <3>1. ASSUME NEW u \in Threads, NEW k, OwesDeleted(u, k)'
            PROVE  /\ ~Told(events', "DELETED", k)
                   /\ \A v \in Threads : OwesDeleted(v, k)' => v = u
        <4>1. CASE u = t
          <5>1. k \notin Missing(memory)
            BY <2>6, <3>1, <4>1
          <5> QED
            BY <1>0, <1>1, <2>0, <4>1, <5>1 DEF DeletesTold
        <4>2. CASE u # t
          <5>1. OwesDeleted(u, k)
            BY <1>1, <3>1, <4>2
          <5>2. k \in Missing(memory)
            BY <1>0, <5>1 DEF DeletesTold
          <5>3. ~OwesDeleted(t, k)'
            BY <2>6, <5>2
          <5> QED
            BY <1>0, <1>1, <2>0, <5>1, <5>3 DEF DeletesOnce
        <4> QED
          BY <4>1, <4>2
      <3>2. DeletedOnce(events')
        BY <1>0, <2>0 DEF DeletesOnce
      <3> QED
        BY <3>1, <3>2 DEF DeletesOnce, DeletedOnce
    <2> QED
      BY <2>4, <2>7, <2>8 DEF Goal
  <1>8. ASSUME Write(t) PROVE Goal
    <2>1. WriteDone(t) /\ UNCHANGED <<asked, job, events>>
      BY <1>8 DEF Write, WriteFailed, agentVars
    <2>2. /\ mutex = t /\ mutex' = NoThread /\ ret'[t] = pending /\ memory' = memory
          /\ acked' = acked \cup {g.id : g \in {h \in pending.groups : pending.status = "created"}}
      BY <1>0, <2>1 DEF WriteDone
    <2>3. Outcome(t)' = Outcome(t) /\ Outcome(t) = pending
      BY <2>2, StorageAssumption DEF Outcome
    <2>4. \A i : OwesDeleted(t, i)' <=> OwesDeleted(t, i)
      BY <2>1, <2>3 DEF OwesDeleted, Removing, Cmd
    <2>5. \A i : ~OwesCreated(t, i)
      BY <2>2 DEF OwesCreated
    <2>6. ASSUME NEW i \in acked', i \notin acked PROVE OwesCreated(t, i)'
      <3>1. pending.status = "created" /\ i \in Ids(pending)
        BY <2>2, <2>6 DEF Ids
      <3>2. job[t].step = "resume"
        BY <1>0, <2>2 DEF HolderOK
      <3>3. Cmd(t).subject = "CREATE"
        BY <1>0, <2>3, <3>1, <3>2 DEF CreatesOwn
      <3> QED
        BY <2>1, <2>2, <3>1, <3>2, <3>3, StorageAssumption DEF OwesCreated, Cmd, Ids
    <2>7. \A u \in Threads : \A i : /\ OwesDeleted(u, i)' <=> OwesDeleted(u, i)
                                    /\ OwesCreated(u, i) => OwesCreated(u, i)'
      BY <1>1, <2>4, <2>5
    <2> QED
      BY <1>0, <2>1, <2>2, <2>6, <2>7, ToldKept DEF Goal
  <1>9. ASSUME Resume(t) PROVE Goal
    <2>1. UNCHANGED <<memory, acked>>
      BY <1>9 DEF Resume, storageVars
    <2>2. /\ job'[t].step # "resume"
          /\ \A k : Told(events', "DELETED", k) <=> Told(events, "DELETED", k) \/ OwesDeleted(t, k)
          /\ \A k : Told(events, "CREATED", k) \/ OwesCreated(t, k) => Told(events', "CREATED", k)
          /\ DeletedOnce(events) /\ (\A k : OwesDeleted(t, k) => ~Told(events, "DELETED", k))
               => DeletedOnce(events')
      BY <1>9, ResumeTells
    <2>3. \A k : ~OwesDeleted(t, k)' /\ ~OwesCreated(t, k)'
      BY <1>3, <2>2
    <2>4. DeletesTold'
      <3>1. ASSUME NEW k
            PROVE  k \in Missing(memory)' <=>
                     Told(events', "DELETED", k) \/ \E u \in Threads : OwesDeleted(u, k)'
        <4>1. Missing(memory)' = Missing(memory)
          BY <2>1 DEF Missing, Ids
        <4> QED
          BY <1>0, <1>1, <2>2, <2>3, <4>1 DEF DeletesTold
      <3> QED
        BY <3>1 DEF DeletesTold
    <2>5. DeletesOnce'
      <3>1. ASSUME NEW u \in Threads, NEW k, OwesDeleted(u, k)'
            PROVE  /\ ~Told(events', "DELETED", k)
                   /\ \A v \in Threads : OwesDeleted(v, k)' => v = u
        <4>1. u # t /\ OwesDeleted(u, k)
          BY <1>1, <2>3, <3>1
        <4>2. ~OwesDeleted(t, k) /\ ~Told(events, "DELETED", k)
          BY <1>0, <4>1 DEF DeletesOnce
        <4> QED
          BY <1>0, <1>1, <2>2, <2>3, <4>1, <4>2 DEF DeletesOnce
      <3>2. DeletedOnce(events')
        BY <1>0, <2>2 DEF DeletesOnce
      <3> QED
        BY <3>1, <3>2 DEF DeletesOnce, DeletedOnce
    <2>6. CreatesTold'
      BY <1>0, <1>1, <2>1, <2>2 DEF CreatesTold
    <2> QED
      BY <2>4, <2>5, <2>6 DEF Goal
  <1>10. Goal
    BY <1>5, <1>6, <1>7, <1>8, <1>9 DEF Work
  <1> QED
    BY <1>10 DEF Goal

LEMMA EventsToldStep ==
  ASSUME Faults \subseteq {"load"}, UpdatesName, "publish" \notin Outages, AgentInv, LeftOK, OneSaved,
         EventsTold, [AgentNext]_vars
  PROVE  EventsTold'
  <1>1. ASSUME NEW t \in Threads, Work(t) PROVE DeletesTold' /\ DeletesOnce' /\ CreatesTold'
    BY <1>1, WorkTold
  <1>2. ASSUME UNCHANGED <<storageVars, job, events>>
        PROVE  DeletesTold' /\ DeletesOnce' /\ CreatesTold'
    <2>1. UNCHANGED <<memory, acked, events, job, ret, mutex>>
      BY <1>2 DEF storageVars
    <2>2. \A u \in Threads : \A i : /\ OwesDeleted(u, i)' <=> OwesDeleted(u, i)
                                    /\ OwesCreated(u, i)' <=> OwesCreated(u, i)
      BY <2>1, OwesStays
    <2> QED
      BY <2>1, <2>2, ToldKept DEF EventsTold
  <1>3. ASSUME NEW r \in Requests, NEW c \in Commands, Process(r, c)
        PROVE  UNCHANGED <<storageVars, job, events>>
    BY <1>3 DEF Process
  <1>4. ~Die
    BY DEF Die, Crash
  <1>5. DeletesTold' /\ DeletesOnce' /\ CreatesTold'
    BY <1>1, <1>2, <1>3, <1>4 DEF AgentNext, vars, agentVars
  <1> QED
    BY <1>5, CreatesOwnStep, WholeFileStep DEF EventsTold

(* When the process does not die, writes and events get through, every      *)
(* UPDATE names an id, and nothing was removed from the file before:        *)
(* whenever no worker is busy, the ids that were handed out and are gone    *)
(* are the ids that were announced as deleted, each once, and every id that *)
(* was returned as new was announced as created.  A load that fails makes   *)
(* no difference: the agent goes on with an empty document.                 *)
THEOREM EventsAgreeAlways ==
  ASSUME Faults \subseteq {"load"}, "publish" \notin Outages,
         \A d \in InitialFiles : Ids(d) = 1 .. d.lastId,
         \A c \in Commands : c.valid /\ c.subject = "UPDATE" => NoId \notin {g.id : g \in c.groups}
  PROVE  AgentSpec => []EventsAgreeWhenQuiet
  <1>0. UpdatesName
    BY DEF UpdatesName
  <1>1. AgentInit => EventsTold /\ LeftOK /\ OneSaved
    <2> SUFFICES ASSUME AgentInit PROVE EventsTold /\ LeftOK /\ OneSaved
      OBVIOUS
    <2>1. /\ \A t \in Threads : job[t] = NoJob /\ ret[t] = NoResult
          /\ memory = EmptyDb /\ events = <<>> /\ acked = {} /\ file \in InitialFiles
          /\ pending = NoResult
      BY DEF AgentInit, Init
    <2>2. NoResult.status = "none" /\ NoJob.step = "idle" /\ DOMAIN <<>> = {}
      BY DEF NoResult, Abstract!NoResult, Abstract!Result, NoJob
    <2>3. Missing(memory) = {}
      BY <2>1 DEF Missing, EmptyDb
    <2>4. \A t \in Threads : \A i : ~OwesDeleted(t, i)
      BY <2>1, <2>2 DEF OwesDeleted, Removing
    <2>5. \A s, i : ~Told(events, s, i)
      BY <2>1, <2>2 DEF Told
    <2>6. DeletesTold /\ DeletesOnce /\ CreatesTold
      BY <2>1, <2>2, <2>3, <2>4, <2>5 DEF DeletesTold, DeletesOnce, DeletedOnce, CreatesTold
    <2>7. CreatesOwn /\ LeftOK /\ OneSaved
      BY <2>1, <2>2 DEF CreatesOwn, LeftOK, OneSaved
    <2>8. WholeFile
      BY <2>1 DEF WholeFile, Missing
    <2> QED
      BY <2>6, <2>7, <2>8 DEF EventsTold
  <1>2. AgentInv /\ OneSaved /\ [AgentNext]_vars => OneSaved'
    BY StorageStep, OneSavedStep DEF AgentInv
  <1>3. AgentInv /\ LeftOK /\ OneSaved /\ EventsTold /\ [AgentNext]_vars => EventsTold'
    BY <1>0, EventsToldStep
  <1>4. EventsTold => EventsAgreeWhenQuiet
    <2> SUFFICES ASSUME EventsTold, \A t \in Threads : job[t] = NoJob
                 PROVE  /\ \A i \in 1 .. memory.lastId : i \notin Ids(memory) <=> Announced("DELETED", i)
                        /\ \A i \in acked : Announced("CREATED", i)
                        /\ DeletedOnce(events)
      BY DEF EventsAgreeWhenQuiet, DeletedOnce
    <2>1. \A t \in Threads : \A i : ~OwesDeleted(t, i) /\ ~OwesCreated(t, i)
      BY NoJobJob DEF OwesDeleted, OwesCreated, Removing
    <2>2. \A s, i : Announced(s, i) <=> Told(events, s, i)
      BY DEF Announced, Told
    <2>3. \A i \in 1 .. memory.lastId : i \notin Ids(memory) <=> Announced("DELETED", i)
      BY <2>1, <2>2 DEF EventsTold, DeletesTold, Missing
    <2>4. \A i \in acked : Announced("CREATED", i)
      BY <2>1, <2>2 DEF EventsTold, CreatesTold
    <2> QED
      BY <2>3, <2>4 DEF EventsTold, DeletesOnce
  <1>5. AgentInv /\ LeftOK /\ [AgentNext]_vars => LeftOK'
    BY LeftOKStep
  <1> QED
    BY <1>1, <1>2, <1>3, <1>4, <1>5, AgentAlways, PTL DEF AgentSpec
=============================================================================
