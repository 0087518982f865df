--------------------------- MODULE RestPromiseProofs ---------------------------
(* The handlers, the bus and the agent implement what Remote promises a    *)
(* client, for every number of handlers, calls, workers, requests and ids. *)
EXTENDS RestProofs

(* What the agent does with a request that is one call of Storage.         *)
OneCall(c) ==
  \/ c.subject \in {"CREATE", "UPDATE", "READ"}
  \/ c.subject = "DELETE" /\ Len(c.ids) = 1

\* Nothing is answered yet when its call is made.
BareOK ==
  \A t \in Threads : job[t].step \in {"call", "resume"} /\ OneCall(Cmd(t)) =>
    /\ job[t].status = "ok" /\ job[t].out = {} /\ job[t].removed = {}
    /\ job[t].left = Cmd(t).ids /\ ~job[t].listing

\* Nothing fails in Storage.
RetOK ==
  /\ pending.status \in {"none", "ok", "created", "saved"}
  /\ \A t \in Threads : /\ ret[t].status \notin {"write error", "exception"}
                        /\ ret[t].status = "not found" => ret[t].groups = {}

\* What is under way is what the request of the worker does to the file.
Saves(c, d, e, x) ==
  \E g \in c.groups : /\ e = SaveTo(d, g)
                      /\ x.status \in {"created", "saved"} /\ x.groups = {Saved(d, g)}

Drops(i, d, e, x) ==
  /\ x = Result("ok", {})
  /\ WithId(d, i) # {} /\ \E gone \in Removals(WithId(d, i)) : e = Drop(d, gone)

ChangeOK ==
  \A t \in Threads : mutex = t =>
    \/ Cmd(t).subject \in {"CREATE", "UPDATE"} /\ Saves(Cmd(t), file, memory, pending)
    \/ Cmd(t).subject = "DELETE" /\ Drops(Head(job[t].left), file, memory, pending)

LEMMA BareOKStep == AgentInv /\ BareOK /\ [AgentNext]_vars => BareOK'
  <1> SUFFICES ASSUME AgentInv, BareOK, [AgentNext]_vars, NEW t \in Threads,
                      job'[t].step \in {"call", "resume"}, OneCall(Cmd(t)')
               PROVE  /\ job'[t].status = "ok" /\ job'[t].out = {} /\ job'[t].removed = {}
                      /\ job'[t].left = Cmd(t)'.ids /\ ~job'[t].listing
    BY DEF BareOK, OneCall
  <1>0. Inv /\ JobsOK /\ HandledOnce /\ ValidOK /\ job[t] \in Job
    BY DEF AgentInv, JobsOK
  <1>1. job'[t].req \in Requests
    BY <1>0, JobsOKStep DEF Inv, JobsOK, JobOK
  <1>2. asked'[job'[t].req] = asked[job'[t].req]
    BY <1>0, <1>1, CmdStays
  <1> DEFINE Bare(j, c) == /\ j.status = "ok" /\ j.out = {} /\ j.removed = {}
                           /\ j.left = c.ids /\ ~j.listing
  <1>3. ASSUME job'[t].req = job[t].req, job[t].step \in {"call", "resume"}
        PROVE  Cmd(t)' = Cmd(t) /\ Bare(job[t], Cmd(t))
    BY <1>2, <1>3 DEF BareOK, Cmd
  <1>4. ASSUME NEW r \in Requests, Start(t, r) PROVE Bare(job'[t], Cmd(t)')
    <2> DEFINE c == asked[r]
               j == [NoJob EXCEPT !.step = "call", !.req = r, !.left = c.ids,
                                  !.listing = c.subject = "LIST"]
    <2>1. job'[t] = IF c.subject # "LIST" /\ ~c.valid THEN Fails(j)
                    ELSE IF c.subject = "DELETE" /\ c.ids = <<>>
                    THEN [j EXCEPT !.step = "reply"] ELSE j
      BY <1>0, <1>4 DEF Start, JobsOK
    <2>2. Fails(j).step = "reply" /\ [j EXCEPT !.step = "reply"].step = "reply"
      BY DEF Fails, NoJob
    <2>3. job'[t] = j
      <3> HIDE DEF j
      <3> QED
        BY <2>1, <2>2
    <2>4. j.req = r /\ j.status = "ok" /\ j.out = {} /\ j.removed = {} /\ j.left = c.ids
            /\ j.listing = (c.subject = "LIST")
      BY DEF NoJob
    <2>5. Cmd(t)' = c
      <3> HIDE DEF j
      <3> QED
        BY <1>2, <2>3, <2>4 DEF Cmd
    <2>6. c.subject # "LIST"
      BY <2>5 DEF OneCall
    <2> HIDE DEF j
    <2> QED
      BY <2>3, <2>4, <2>5, <2>6
  <1>5. CASE Call(t)
    <2>1. job'[t] = [job[t] EXCEPT !.step = "resume"] /\ job[t].step = "call"
      BY <1>0, <1>5 DEF Call, JobsOK
    <2>2. /\ job'[t].req = job[t].req /\ job'[t].status = job[t].status
          /\ job'[t].out = job[t].out /\ job'[t].removed = job[t].removed
          /\ job'[t].left = job[t].left /\ job'[t].listing = job[t].listing
      BY <1>0, <2>1 DEF Job
    <2> QED
      BY <1>3, <2>1, <2>2
  <1>6. CASE job'[t] = job[t]
    BY <1>3, <1>6
  <1>7. CASE Resume(t)
    <2>1. job[t].step = "resume"
      BY <1>7 DEF Resume
    <2>2. job'[t].req \in {job[t].req, NoRequest}
      BY <1>0, <1>7, ResumeReq DEF Continue, JobsOK
    <2>3. job'[t].req = job[t].req
      BY <1>1, <2>2, AgentAssumption
    <2>4. Cmd(t)' = Cmd(t) /\ Bare(job[t], Cmd(t)) /\ OneCall(Cmd(t))
      BY <1>3, <2>1, <2>3
    <2>5. Cmd(t) \in Commands /\ (Cmd(t).subject # "LIST" => Cmd(t).valid)
      BY <1>0, <2>1 DEF JobsOK, JobOK, Cmd, ValidOK
    <2>6. Cmd(t).subject \in {"READ", "DELETE"} => Len(job[t].left) = 1
      BY <2>4, <2>5, AgentAssumption DEF OneCall
    <2>7. ASSUME Len(job[t].left) = 1
          PROVE  /\ Advance(job[t]).step = "reply"
                 /\ \A x : Advance([job[t] EXCEPT !.out = x]).step = "reply"
                 /\ \A x : Advance([job[t] EXCEPT !.removed = x]).step = "reply"
      <3>1. ASSUME NEW k, Len(k.left) = 1, k \in Job \/ (\E x : k = [job[t] EXCEPT !.out = x])
                                               \/ (\E x : k = [job[t] EXCEPT !.removed = x])
            PROVE  Advance(k).step = "reply"
        <4> DEFINE s == IF Len(k.left) > 1 THEN "call" ELSE "reply"
        <4>1. s = "reply"
          BY <3>1
        <4>2. Advance(k) = [k EXCEPT !.step = s, !.left = Tail(k.left)]
          BY DEF Advance
        <4>3. "step" \in DOMAIN k
          BY <1>0, <3>1 DEF Job
        <4> HIDE DEF s
        <4> QED
          BY <3>1, <4>1, <4>2, <4>3, <1>0 DEF Job
      <3>2. \A x : [job[t] EXCEPT !.out = x].left = job[t].left
                    /\ [job[t] EXCEPT !.removed = x].left = job[t].left
        BY <1>0 DEF Job
      <3> QED
        BY <1>0, <2>7, <3>1, <3>2
    <2>8. Fails(job[t]).step = "reply" /\ NoJob.step = "idle"
      BY <1>0 DEF Fails, NoJob, Job
    <2>9. ASSUME NEW k, Continue(t, k) PROVE job'[t] = k
      BY <1>0, <2>9 DEF Continue, JobsOK
    <2>10. CASE AfterSave(t)
      <3>1. [job[t] EXCEPT !.step = "reply", !.out = ret[t].groups].step = "reply"
        BY <1>0 DEF Job
      <3> QED
        BY <2>8, <2>9, <2>10, <3>1 DEF AfterSave
    <2>11. CASE AfterRemove(t)
      BY <2>6, <2>7, <2>9, <2>11 DEF AfterRemove
    <2>12. CASE AfterIds(t)
      BY <2>4, <2>12 DEF AfterIds
    <2>13. CASE AfterById(t)
      <3>1. Cmd(t).subject = "READ"
        BY <2>4, <2>13 DEF AfterById, OneCall
      <3> QED
        BY <2>6, <2>7, <2>8, <2>9, <2>13, <3>1 DEF AfterById
    <2>14. CASE AfterResolve(t)
      BY <2>4, <2>14 DEF AfterResolve, OneCall
    <2>15. CASE Escape(t)
      BY <2>8, <2>9, <2>15 DEF Escape
    <2> QED
      BY <1>7, <2>10, <2>11, <2>12, <2>13, <2>14, <2>15 DEF Resume
  <1>8. CASE Reply(t) \/ Die
    BY <1>0, <1>8 DEF Reply, Die, JobsOK, NoJob
  <1>9. CASE Write(t)
    BY <1>6, <1>9 DEF Write, agentVars
  <1> QED
    BY <1>0, <1>4, <1>5, <1>6, <1>7, <1>8, <1>9, EachWorker

LEMMA RetOKStep ==
  ASSUME Faults \subseteq {"kill"}
  PROVE  Inv /\ RetOK /\ [Next]_storageVars => RetOK'
  <1> SUFFICES ASSUME Inv, RetOK, [Next]_storageVars PROVE RetOK'
    OBVIOUS
  <1>0. ret \in [Threads -> Results] /\ pending \in Results
    BY DEF Inv, TypeOK
  <1>1. \A S : /\ Found(S).status \in {"ok", "not found"}
               /\ Found(S).status = "not found" => Found(S).groups = {}
    BY DEF Found, Abstract!Found, Abstract!Result
  <1>2. \A S : Result("ok", S).status = "ok"
    BY DEF Result, Abstract!Result
  <1>3. ASSUME NEW t \in Threads, NEW db, NEW x, Return(t, db, x),
               x.status \in {"ok", "not found"}, x.status = "not found" => x.groups = {}
        PROVE  RetOK'
    BY <1>0, <1>3 DEF Return, RetOK
  <1>4. ASSUME NEW t \in Threads, NEW db, NEW x, Begin(t, db, x),
               x.status \in {"ok", "created", "saved"}
        PROVE  RetOK'
    BY <1>4 DEF Begin, RetOK
  <1>5. ASSUME NEW t \in Threads, NEW db, NEW S, Return(t, db, Found(S)) PROVE RetOK'
    BY <1>1, <1>3, <1>5
  <1>6. ASSUME NEW t \in Threads, NEW db, Begin(t, db, Result("ok", {})) PROVE RetOK'
    BY <1>2, <1>4, <1>6
  <1>7. ASSUME NEW t \in Threads, WriteDone(t) PROVE RetOK'
    <2>1. NoResult.status = "none"
      BY DEF NoResult, Abstract!NoResult, Abstract!Result
    <2> QED
      BY <1>0, <1>7, <2>1 DEF WriteDone, RetOK
  <1>8. ASSUME NEW t \in Threads PROVE ~WriteFailed(t) /\ ~InitThrows(t)
    BY DEF WriteFailed, InitThrows
  <1>9. CASE Crash
    <2>1. NoResult.status = "none"
      BY DEF NoResult, Abstract!NoResult, Abstract!Result
    <2> QED
      BY <1>9, <2>1 DEF Crash, RetOK
  <1>10. ASSUME NEW t \in Threads, NEW n \in Names, ByName(t, n) \/ RemoveByName(t, n)
        PROVE  RetOK'
    BY <1>10, <1>5, <1>6 DEF ByName, RemoveByName
  <1>11. ASSUME NEW t \in Threads, NEW i \in 0 .. MaxId, ById(t, i) \/ Remove(t, i)
        PROVE  RetOK'
    BY <1>11, <1>5, <1>6 DEF ById, Remove
  <1>12. ASSUME NEW t \in Threads, NEW g \in Group, Save(t, g) PROVE RetOK'
    <2>1. \A d : Abstract!SaveResult(d, g).status \in {"created", "saved"}
      BY DEF Abstract!SaveResult, Abstract!Result
    <2> QED
      BY <1>4, <1>12, <2>1 DEF Save
  <1>13. ASSUME NEW t \in Threads, Keys(t) PROVE RetOK'
    BY <1>2, <1>3, <1>13 DEF Keys
  <1>14. CASE UNCHANGED storageVars
    BY <1>14 DEF storageVars, RetOK
  <1> QED
    BY <1>7, <1>8, <1>9, <1>10, <1>11, <1>12, <1>13, <1>14 DEF Next

\* While a worker holds the mutex, the others leave the documents alone.
LEMMA HeldStays ==
  ASSUME Inv, [Next]_storageVars, mutex # NoThread, mutex' = mutex
  PROVE  UNCHANGED <<file, memory, pending>>
  <1>1. ASSUME NEW t \in Threads, NEW db, NEW x PROVE ~Return(t, db, x) /\ ~Begin(t, db, x)
    BY DEF Return, Begin
  <1>2. ASSUME NEW t \in Threads PROVE ~WriteDone(t) /\ ~WriteFailed(t)
    BY StorageAssumption DEF WriteDone, WriteFailed
  <1>3. ~Crash
    BY DEF Crash
  <1> QED
    BY <1>1, <1>2, <1>3 DEF Next, ByName, RemoveByName, ById, Remove, Save, Keys, InitThrows, storageVars

\* The first half of a call that changes the document.
LEMMA CallChanges ==
  ASSUME Faults \subseteq {"kill"}, AgentInv, DurableWhenIdle, NEW t \in Threads, Call(t), mutex' = t
  PROVE  \/ Cmd(t).subject \in {"CREATE", "UPDATE"} /\ Saves(Cmd(t), file, memory', pending')
         \/ Cmd(t).subject = "DELETE" /\ Drops(Head(job[t].left), file, memory', pending')
  <1>0. Inv /\ mutex = NoThread
    BY CallAlone DEF AgentInv
  <1>1. Opened = {file}
    BY <1>0, OpenedIsFile
  <1>2. ASSUME NEW db, NEW x PROVE ~Return(t, db, x)
    BY <1>0, StorageAssumption DEF Return
  <1>3. ~Keys(t) /\ ~InitThrows(t) /\ \A i : ~ById(t, i)
    BY <1>2 DEF Keys, InitThrows, ById
  <1>4. ASSUME NEW g, Save(t, g), g \in Cmd(t).groups PROVE Saves(Cmd(t), file, memory', pending')
    <2>1. memory' = SaveTo(file, g) /\ pending' = Abstract!SaveResult(file, g)
      BY <1>1, <1>4 DEF Save, Begin
    <2>2. /\ Abstract!SaveResult(file, g).status \in {"created", "saved"}
          /\ Abstract!SaveResult(file, g).groups = {Saved(file, g)}
      BY DEF Abstract!SaveResult, Abstract!Result, Abstract!Saved, Saved, Abstract!NoId, NoId
    <2> QED
      BY <1>4, <2>1, <2>2 DEF Saves
  <1>5. ASSUME NEW i, Remove(t, i) PROVE Drops(i, file, memory', pending')
    BY <1>1, <1>2, <1>5 DEF Remove, Begin, Drops
  <1> QED
    BY <1>3, <1>4, <1>5 DEF Call

LEMMA ChangeOKStep ==
  ASSUME Faults \subseteq {"kill"}
  PROVE  AgentInv /\ DurableWhenIdle /\ ChangeOK /\ [AgentNext]_vars => ChangeOK'
  <1> SUFFICES ASSUME AgentInv, DurableWhenIdle, ChangeOK, [AgentNext]_vars,
                      NEW t \in Threads, mutex' = t
               PROVE  \/ Cmd(t)'.subject \in {"CREATE", "UPDATE"} /\ Saves(Cmd(t)', file', memory', pending')
                      \/ Cmd(t)'.subject = "DELETE" /\ Drops(Head(job'[t].left), file', memory', pending')
    BY DEF ChangeOK, Saves, Drops
  <1>0. Inv /\ JobsOK /\ HandledOnce /\ HolderOK /\ job[t] \in Job /\ [Next]_storageVars
    BY StorageStep DEF AgentInv, JobsOK
  <1>1. ASSUME job'[t].req = job[t].req, job[t].step \in {"call", "resume"} PROVE Cmd(t)' = Cmd(t)
    <2>1. job[t].req \in Requests
      BY <1>0, <1>1 DEF JobsOK, JobOK
    <2> QED
      BY <1>0, <1>1, <2>1, CmdStays DEF Cmd
  <1>2. CASE Call(t)
    <2>1. job'[t] = [job[t] EXCEPT !.step = "resume"] /\ job[t].step = "call"
      BY <1>0, <1>2 DEF Call, JobsOK
    <2>2. job'[t].req = job[t].req /\ job'[t].left = job[t].left
      BY <1>0, <2>1 DEF Job
    <2>3. file' = file
      <3>1. ASSUME NEW db, NEW x, Return(t, db, x) \/ Begin(t, db, x) PROVE file' = file
        BY <3>1 DEF Return, Begin
      <3> QED
        BY <1>2, <3>1 DEF Call, Save, Remove, Keys, ById, InitThrows
    <2> QED
      BY <1>1, <1>2, <2>1, <2>2, <2>3, CallChanges
  <1>3. CASE job'[t] = job[t] /\ mutex = t
    <2>1. job[t].step = "resume" /\ Cmd(t)' = Cmd(t)
      BY <1>0, <1>1, <1>3 DEF HolderOK
    <2>2. UNCHANGED <<file, memory, pending>>
      BY <1>0, <1>3, HeldStays, StorageAssumption
    <2> QED
      BY <1>3, <2>1, <2>2 DEF ChangeOK
  <1>4. ASSUME NEW r \in Requests, Start(t, r) PROVE FALSE
    BY <1>0, <1>4, NoJobJob DEF Start, storageVars, HolderOK
  <1>5. CASE Write(t) \/ Die
    BY <1>5, StorageAssumption DEF Write, WriteDone, WriteFailed, Die, Crash
  <1>6. CASE Resume(t) \/ Reply(t)
    BY <1>0, <1>6 DEF Resume, Reply, storageVars, HolderOK
  <1> QED
    BY <1>0, <1>2, <1>3, <1>4, <1>5, <1>6, EachWorker

OneOK == AgentInv /\ DurableWhenIdle /\ BareOK /\ RetOK /\ ChangeOK

LEMMA OneAlways ==
  ASSUME Faults \subseteq {"kill"}
  PROVE  AgentSpec => []OneOK
  <1>1. AgentInit => BareOK /\ RetOK /\ ChangeOK
    <2>1. NoResult.status = "none" /\ NoJob.step = "idle"
      BY DEF NoResult, Abstract!NoResult, Abstract!Result, NoJob
    <2> QED
      BY <2>1, StorageAssumption DEF AgentInit, Init, BareOK, RetOK, ChangeOK
  <1>2. AgentInv => JobsOK /\ Inv
    BY DEF AgentInv
  <1>3. AgentInv /\ DurableWhenIdle /\ BareOK /\ RetOK /\ ChangeOK /\ [AgentNext]_vars
          => BareOK' /\ RetOK' /\ ChangeOK'
    BY <1>2, StorageStep, BareOKStep, RetOKStep, ChangeOKStep
  <1>4. AgentSpec => []DurableWhenIdle
    <2>1. Spec => []DurableWhenIdle
      BY DurableAlways
    <2> QED
      BY <2>1, AgentUsesStorage, PTL
  <1> QED
    BY <1>1, <1>3, <1>4, AgentAlways, PTL DEF AgentSpec, OneOK

-----------------------------------------------------------------------------
(* Where the messages of a call are.                                       *)

Changes(c) == c.subject \in {"CREATE", "UPDATE", "DELETE"}

\* The one message of the call was sent.
Sent(p) == p.step \in {"wait", "done"} /\ Single(p.call) /\ p.corr # NoRequest

\* What is under its id is what the call asks, also when it was given up.
SentOK ==
  \A h \in Handlers :
    /\ Single(http[h].call) /\ http[h].step = "send" => http[h].corr = NoRequest
    /\ Sent(http[h]) =>
         /\ http[h].call \in Calls /\ ~Refused(http[h].call)
         /\ \A m \in wire : m.corr = http[h].corr => m.command \in Commanded(http[h].call)
         /\ asked[http[h].corr] # NoCommand => asked[http[h].corr] \in Commanded(http[h].call)

\* What changes the catalog was sent by a handler.
SendersKnown ==
  /\ \A m \in wire : Changes(m.command) =>
       \E h \in Handlers : Sent(http[h]) /\ http[h].corr = m.corr
  /\ \A r \in Requests : Changes(asked[r]) =>
       \E h \in Handlers : Sent(http[h]) /\ http[h].corr = r

\* A message comes to the wire when a handler sends it.
LEMMA WireComes ==
  ASSUME RestInv, [RestNext]_restVars, NEW m \in wire', m \notin wire
  PROVE  \E h \in Handlers : /\ Send(h) /\ m.command \in Message(http[h]) /\ ~Used(m.corr)
                             /\ http'[h] = [http[h] EXCEPT !.step = "wait", !.corr = m.corr]
  <1>1. ASSUME NEW h \in Handlers, Send(h)
        PROVE  /\ m.command \in Message(http[h]) /\ ~Used(m.corr)
               /\ http'[h] = [http[h] EXCEPT !.step = "wait", !.corr = m.corr]
    <2>1. PICK q : q = Fresh
      OBVIOUS
    <2>2. ~Used(q)
      BY <1>1, <2>1, FreshType DEF Send
    <2>3. PICK c \in Message(http[h]) : wire' = wire \cup {[corr |-> q, command |-> c]}
      BY <1>1, <2>1 DEF Send
    <2>4. m.corr = q /\ m.command = c
      BY <2>3
    <2> QED
      BY <1>1, <2>1, <2>2, <2>4 DEF Send, RestInv, HttpOK
  <1>2. ASSUME NEW h \in Handlers, Handle(h) PROVE Send(h)
    BY <1>2 DEF Handle, NarrowingThrows, Receive, Timeout
  <1> QED
    BY <1>1, <1>2 DEF RestNext, Open, Deliver, Serve, restVars

\* A command comes to the agent off the wire.
LEMMA CommandComes ==
  ASSUME RestInv, JobsOK, [RestNext]_restVars, NEW r \in Requests, asked'[r] # asked[r]
  PROVE  \E m \in wire : m.corr = r /\ m.command = asked'[r]
  <1>1. ASSUME NEW m \in wire, Deliver(m) PROVE m.corr = r /\ m.command = asked'[r]
    BY <1>1 DEF Deliver, Process, JobsOK
  <1>2. ASSUME NEW h \in Handlers, Handle(h) PROVE UNCHANGED vars
    BY <1>2, HandleOK DEF RestInv
  <1>3. ASSUME NEW t \in Threads, Serve(t) PROVE asked' = asked
    BY <1>3, ServeAsksNothing DEF Serve
  <1> QED
    BY <1>1, <1>2, <1>3 DEF RestNext, Open, Die, restVars, vars, agentVars

\* What a step of a handler does to its call and its id.
LEMMA HandlerMoves ==
  ASSUME RestInv, [RestNext]_restVars, NEW h \in Handlers, NEW o, NEW p, o = http[h], p = http'[h]
  PROVE  \/ p = o
         \/ /\ UNCHANGED <<vars, wire>>
            /\ o = NoHttp /\ p.corr = NoRequest /\ p.step \in {"send", "done"}
         \/ /\ Send(h) /\ o.step = "send" /\ p.step = "wait" /\ p.corr \notin {r \in Requests : Used(r)}
            /\ p.call = o.call /\ p.listed = o.listed
         \/ /\ UNCHANGED <<vars, wire>>
            /\ o.step \in {"send", "wait"} /\ p.corr = o.corr /\ p.call = o.call
            /\ p.step = "done" \/ ~Single(o.call)
  <1>0. http \in [Handlers -> Http] /\ o \in Http
    BY DEF RestInv, HttpOK
  <1>1. ASSUME NEW s
        PROVE  /\ Ended(o, s).step = "done" /\ Ended(o, s).corr = o.corr
               /\ Ended(o, s).call = o.call
    BY <1>0 DEF Ended, Http
  <1>2. ASSUME NEW c \in Calls, Open(h, c)
        PROVE  UNCHANGED <<vars, wire>> /\ o = NoHttp /\ p.corr = NoRequest /\ p.step \in {"send", "done"}
    <2> DEFINE q == [NoHttp EXCEPT !.call = c]
    <2>1. \A s : Ended(q, s).corr = NoRequest /\ Ended(q, s).step = "done"
      BY DEF Ended, NoHttp
    <2>2. [q EXCEPT !.step = "send"].corr = NoRequest /\ [q EXCEPT !.step = "send"].step = "send"
      BY DEF NoHttp
    <2> HIDE DEF q
    <2>3. (\E s : p = Ended(q, s)) \/ p = [q EXCEPT !.step = "send"]
      BY <1>0, <1>2 DEF Open, q
    <2> QED
      BY <1>2, <2>1, <2>2, <2>3 DEF Open
  <1>3. CASE Send(h)
    <2>1. PICK r : r = Fresh
      OBVIOUS
    <2>2. ~Used(r)
      BY <1>3, <2>1, FreshType DEF Send
    <2>3. p = [o EXCEPT !.step = "wait", !.corr = r]
      BY <1>0, <1>3, <2>1 DEF Send
    <2>4. p.step = "wait" /\ p.corr = r /\ p.call = o.call /\ p.listed = o.listed
      BY <1>0, <2>3 DEF Http
    <2> QED
      BY <1>3, <2>2, <2>4 DEF Send
  <1>4. CASE NarrowingThrows(h) \/ Timeout(h)
    <2>1. p = Ended(o, "error") \/ p = Ended(o, "timeout")
      BY <1>0, <1>4 DEF NarrowingThrows, Timeout
    <2> QED
      BY <1>1, <1>4, <2>1 DEF NarrowingThrows, Timeout
  <1>5. ASSUME NEW r \in Requests, Receive(h, r), Waits(h, r)
        PROVE  /\ UNCHANGED <<vars, wire>> /\ o.step = "wait" /\ p.corr = o.corr /\ p.call = o.call
               /\ p.step = "done" \/ ~Single(o.call)
    <2> DEFINE a == Head(replies[r])
    <2>1. p \in Outcomes(o, a)
      BY <1>0, <1>5 DEF Receive
    <2>2. \A e \in Http : \A x, y :
            LET e2 == [e EXCEPT !.out = x, !.removed = y]
            IN e2.step = e.step /\ e2.corr = e.corr /\ e2.call = e.call
      BY DEF Http
    <2>3. Ended(o, "ok") \in Http
      BY <1>0 DEF Ended, Http
    <2>4. CASE \E s : p = Ended(o, s)
      BY <1>1, <1>5, <2>4 DEF Receive
    <2>5. CASE p = [Ended(o, "ok") EXCEPT !.out = a.out, !.removed = a.removed]
      BY <1>1, <1>5, <2>2, <2>3, <2>5 DEF Receive
    <2>6. CASE p = Gathered(o, a.out) /\ o.call.verb = "list"
      <3>1. p.corr = o.corr /\ p.call = o.call
        BY <1>0, <2>6 DEF Gathered, Http
      <3> QED
        BY <1>5, <2>6, <3>1 DEF Receive, Single
    <2>7. CASE o.call.verb = "list" /\ \E ids : p = Listed(o, ids)
      <3>1. p.corr = o.corr /\ p.call = o.call
        BY <1>0, <1>1, <2>7 DEF Listed, Http
      <3> QED
        BY <1>5, <2>7, <3>1 DEF Receive, Single
    <2> QED
      BY <2>1, <2>4, <2>5, <2>6, <2>7 DEF Outcomes
  <1> QED
    BY <1>2, <1>3, <1>4, <1>5, EachHandler DEF NarrowingThrows, Timeout

\* A handler that has sent its one message waits, and then ends.
LEMMA SentStays ==
  ASSUME RestInv, [RestNext]_restVars, NEW h \in Handlers, NEW o, NEW p, o = http[h], p = http'[h],
         Sent(o)
  PROVE  Sent(p) /\ p.corr = o.corr /\ p.call = o.call /\ (o.step = "done" => p = o)
  <1>1. o.step \notin {"idle", "send"} /\ o # NoHttp
    BY DEF Sent, NoHttp
  <1> QED
    BY <1>1, HandlerMoves DEF Sent

LEMMA SentOKStep == RestInv /\ JobsOK /\ Own /\ Own' /\ HttpOK' /\ SentOK /\ [RestNext]_restVars => SentOK'
  <1> SUFFICES ASSUME RestInv, JobsOK, Own, Own', HttpOK', SentOK, [RestNext]_restVars,
                      NEW h \in Handlers, NEW o, NEW p, o = http[h], p = http'[h]
               PROVE  /\ Single(p.call) /\ p.step = "send" => p.corr = NoRequest
                      /\ Sent(p) =>
                           /\ p.call \in Calls /\ ~Refused(p.call)
                           /\ \A m \in wire' : m.corr = p.corr => m.command \in Commanded(p.call)
                           /\ asked'[p.corr] # NoCommand => asked'[p.corr] \in Commanded(p.call)
    BY DEF SentOK
  <1>0. o \in Http /\ p \in Http /\ AskOK(o) /\ AskOK(p)
    BY DEF RestInv, HttpOK
  <1>1. Single(p.call) /\ p.step = "send" => p.corr = NoRequest
    BY HandlerMoves DEF SentOK
  <1>2. ASSUME Sent(o), Sent(p), p.corr = o.corr, p.call = o.call
        PROVE  /\ p.call \in Calls /\ ~Refused(p.call)
               /\ \A m \in wire' : m.corr = p.corr => m.command \in Commanded(p.call)
               /\ asked'[p.corr] # NoCommand => asked'[p.corr] \in Commanded(p.call)
    <2>1. /\ o.call \in Calls /\ ~Refused(o.call)
          /\ \A m \in wire : m.corr = o.corr => m.command \in Commanded(o.call)
          /\ asked[o.corr] # NoCommand => asked[o.corr] \in Commanded(o.call)
      BY <1>2 DEF SentOK
    <2>2. Used(o.corr) /\ o.corr \in Requests
      BY <1>0, <1>2 DEF Sent, Own, HandlersOwn, Http
    <2>3. \A m \in wire' : m.corr = o.corr => m.command \in Commanded(o.call)
      BY <2>1, <2>2, WireComes
    <2>4. asked'[o.corr] # NoCommand => asked'[o.corr] \in Commanded(o.call)
      BY <2>1, <2>2, CommandComes
    <2> QED
      BY <1>2, <2>1, <2>3, <2>4
  <1>3. ASSUME Sent(p), p.step = "wait", o.step = "send", p.call = o.call
        PROVE  /\ p.call \in Calls /\ ~Refused(p.call)
               /\ \A m \in wire' : m.corr = p.corr => m.command \in Commanded(p.call)
               /\ asked'[p.corr] # NoCommand => asked'[p.corr] \in Commanded(p.call)
    <2>1. Message(p) = Commanded(p.call)
      BY <1>0, <1>3 DEF AskOK, Sent, Single, Message
    <2>2. /\ \A m \in wire' : m.corr = p.corr => m.command \in Message(p)
          /\ asked'[p.corr] # NoCommand => asked'[p.corr] \in Message(p)
      BY <1>3 DEF Own, QuestionOwn
    <2> QED
      BY <1>0, <1>3, <2>1, <2>2 DEF AskOK
  <1>4. ASSUME Sent(p)
        PROVE  \/ Sent(o) /\ p.corr = o.corr /\ p.call = o.call
               \/ p.step = "wait" /\ o.step = "send" /\ p.call = o.call
    <2>1. o.step = "send" /\ Single(o.call) => o.corr = NoRequest
      BY DEF SentOK
    <2> QED
      BY <1>4, <2>1, HandlerMoves DEF Sent
  <1> QED
    BY <1>1, <1>2, <1>3, <1>4

LEMMA SendersKnownStep ==
  RestInv /\ WireOK' /\ JobsOK /\ SendersKnown /\ [RestNext]_restVars => SendersKnown'
  <1> SUFFICES ASSUME RestInv, WireOK', JobsOK, SendersKnown, [RestNext]_restVars
               PROVE  /\ \A m \in wire' : Changes(m.command) =>
                           \E h \in Handlers : Sent(http'[h]) /\ http'[h].corr = m.corr
                      /\ \A r \in Requests : Changes(asked'[r]) =>
                           \E h \in Handlers : Sent(http'[h]) /\ http'[h].corr = r
    BY DEF SendersKnown
  <1>1. ASSUME NEW r, NEW h \in Handlers, Sent(http[h]), http[h].corr = r
        PROVE  \E k \in Handlers : Sent(http'[k]) /\ http'[k].corr = r
    <2>1. PICK p : p = http'[h]
      OBVIOUS
    <2>2. PICK o : o = http[h]
      OBVIOUS
    <2>3. Sent(p) /\ p.corr = o.corr
      BY <1>1, <2>1, <2>2, SentStays
    <2> QED
      BY <1>1, <2>1, <2>2, <2>3
  <1>2. ASSUME NEW m \in wire', m \notin wire, Changes(m.command)
        PROVE  \E h \in Handlers : Sent(http'[h]) /\ http'[h].corr = m.corr
    <2>1. PICK h \in Handlers : /\ Send(h) /\ m.command \in Message(http[h])
                                /\ http'[h] = [http[h] EXCEPT !.step = "wait", !.corr = m.corr]
      BY <1>2, WireComes
    <2>2. PICK o : o = http[h]
      OBVIOUS
    <2>3. PICK p : p = http'[h]
      OBVIOUS
    <2>4. o \in Http /\ AskOK(o) /\ o.step = "send"
      BY <2>1, <2>2 DEF RestInv, HttpOK, Send
    <2>5. p.step = "wait" /\ p.corr = m.corr /\ p.call = o.call
      BY <2>1, <2>2, <2>3, <2>4 DEF Http
    <2>6. o.call \in HttpCall
      BY <2>4, RestAssumption DEF AskOK
    <2>7. Single(o.call)
      BY <1>2, <2>1, <2>2, <2>6 DEF Message, Commanded, Changes, Say, Single, HttpCall, Verbs
    <2>8. m.corr # NoRequest
      BY <1>2, AgentAssumption DEF WireOK
    <2> QED
      BY <2>3, <2>5, <2>7, <2>8 DEF Sent
  <1>3. ASSUME NEW m \in wire, Changes(m.command)
        PROVE  \E h \in Handlers : Sent(http'[h]) /\ http'[h].corr = m.corr
    BY <1>1, <1>3 DEF SendersKnown
  <1>4. ASSUME NEW r \in Requests, Changes(asked'[r])
        PROVE  \E h \in Handlers : Sent(http'[h]) /\ http'[h].corr = r
    <2>1. CASE asked'[r] = asked[r]
      BY <1>1, <1>4, <2>1 DEF SendersKnown
    <2>2. CASE asked'[r] # asked[r]
      BY <1>3, <1>4, <2>2, CommandComes
    <2> QED
      BY <2>1, <2>2
  <1> QED
    BY <1>2, <1>3, <1>4

-----------------------------------------------------------------------------
(* How far the agent has got with a request.                               *)

Gives(q) == IF Stage(q) = "did" THEN ResultOf(q) ELSE Unanswered

OnTheWay(q) == q \in queue \/ \E m \in wire : m.corr = q

\* Where a request is tells how far it is.
StageIs(q) ==
  /\ OnTheWay(q) => Stage(q) = "asked" /\ Gives(q) = Unanswered
  /\ \A t \in Threads : job[t].req = q =>
       IF Affected(t) THEN Stage(q) = "did" /\ Gives(q) = Due(t)
       ELSE Stage(q) = "asked" /\ Gives(q) = Unanswered
  /\ replies[q] # <<>> => Stage(q) = "did" /\ Gives(q) = Head(replies[q])
  /\ ~OnTheWay(q) /\ Workers(q) = {} /\ replies[q] = <<>> => Stage(q) = "gone" /\ Gives(q) = Unanswered

LEMMA Standing == HandledOnce /\ WireOwn => \A q \in Requests : StageIs(q)
  <1> SUFFICES ASSUME HandledOnce, WireOwn, NEW q \in Requests PROVE StageIs(q)
    OBVIOUS
  <1>1. OnTheWay(q) => Workers(q) = {} /\ replies[q] = <<>>
    BY DEF OnTheWay, HandledOnce, WireOwn
  <1>2. ASSUME NEW t \in Threads, job[t].req = q
        PROVE  Workers(q) = {t} /\ replies[q] = <<>> /\ ~OnTheWay(q)
    <2>1. t \in Workers(q)
      BY <1>2 DEF Workers
    <2> QED
      BY <1>1, <2>1 DEF HandledOnce
  <1>3. \A t \in Threads : (CHOOSE u \in {t} : TRUE) = t
    OBVIOUS
  <1>4. ASSUME NEW t \in Threads, job[t].req = q
        PROVE  IF Affected(t) THEN Stage(q) = "did" /\ Gives(q) = Due(t)
               ELSE Stage(q) = "asked" /\ Gives(q) = Unanswered
    <2>1. Workers(q) = {t} /\ replies[q] = <<>> /\ ~OnTheWay(q)
      BY <1>2, <1>4
    <2>3. (Undone(q) <=> ~Affected(t)) /\ (Did(q) <=> Affected(t))
      BY <2>1 DEF Undone, Did, OnTheWay
    <2>2. ResultOf(q) = Due(t)
      BY <1>3, <2>1 DEF ResultOf
    <2> QED
      BY <2>2, <2>3 DEF Stage, Gives
  <1>5. ~OnTheWay(q) /\ Workers(q) = {} => ~Undone(q) /\ Did(q) = (replies[q] # <<>>)
    BY DEF OnTheWay, Undone, Did
  <1>6. OnTheWay(q) => Undone(q)
    BY DEF OnTheWay, Undone
  <1>7. replies[q] # <<>> => ~OnTheWay(q) /\ Workers(q) = {}
    BY DEF OnTheWay, HandledOnce, WireOwn
  <1> QED
    BY <1>4, <1>5, <1>6, <1>7 DEF StageIs, Stage, Gives, ResultOf

LEMMA StandingNext == HandledOnce' /\ WireOwn' => (\A q \in Requests : StageIs(q))'
  BY Standing, PTL

\* A request that no worker has to do with stays where it is.
LEMMA StageSame ==
  ASSUME HandledOnce, WireOwn, HandledOnce', WireOwn', NEW q \in Requests,
         OnTheWay(q)' <=> OnTheWay(q), replies'[q] = replies[q], asked'[q] = asked[q],
         \A u \in Threads : job'[u].req = q <=> job[u].req = q,
         \A u \in Threads : job[u].req = q =>
           job'[u] = job[u] /\ ret'[u] = ret[u] /\ (mutex' = u <=> mutex = u)
  PROVE  Stage(q)' = Stage(q) /\ Gives(q)' = Gives(q)
  <1>1. StageIs(q) /\ StageIs(q)'
    BY Standing, StandingNext
  <1>2. ASSUME NEW u \in Threads, job[u].req = q
        PROVE  (Affected(u)' <=> Affected(u)) /\ Due(u)' = Due(u)
    BY <1>2 DEF Affected, Due, Cmd
  <1>3. Workers(q)' = Workers(q)
    BY DEF Workers
  <1>4. CASE \E u \in Threads : job[u].req = q
    BY <1>1, <1>2, <1>4 DEF StageIs
  <1>5. CASE Workers(q) = {}
    BY <1>1, <1>3, <1>5 DEF StageIs
  <1> QED
    BY <1>4, <1>5 DEF Workers

LEMMA OthersStay ==
  ASSUME AgentInv, WireOwn, HandledOnce', WireOwn', NEW t \in Threads, Work(t), wire' = wire,
         NEW q \in Requests, job[t].req # q, job'[t].req # q
  PROVE  Stage(q)' = Stage(q) /\ Gives(q)' = Gives(q)
  <1>0. Inv /\ JobsOK /\ HandledOnce /\ job \in [Threads -> Job] /\ RepliesOK
    BY DEF AgentInv, JobsOK
  <1>1. \A u \in Threads \ {t} :
          job'[u] = job[u] /\ ret'[u] = ret[u] /\ (mutex' = u <=> mutex = u)
    BY WorkAlone
  <1>2. asked' = asked
    BY ServeAsksNothing
  <1>3. q \in queue' <=> q \in queue
    <2>1. ASSUME NEW r \in Requests, Start(t, r) PROVE r = job'[t].req /\ queue' = queue \ {r}
      <3> DEFINE j == [NoJob EXCEPT !.step = "call", !.req = r, !.left = asked[r].ids,
                                    !.listing = asked[r].subject = "LIST"]
      <3>1. j.req = r /\ Fails(j).req = r /\ [j EXCEPT !.step = "reply"].req = r
        BY DEF NoJob, Fails
      <3> HIDE DEF j
      <3>2. job'[t] \in {j, Fails(j), [j EXCEPT !.step = "reply"]}
        BY <1>0, <2>1 DEF Start, j
      <3> QED
        BY <2>1, <3>1, <3>2 DEF Start
    <2>2. CASE Call(t) \/ Write(t) \/ Resume(t) \/ Reply(t)
      BY <1>0, <2>2, ResumeReq DEF Call, Write, agentVars, Reply, Continue
    <2> QED
      BY <2>1, <2>2 DEF Work
  <1>4. replies'[q] = replies[q]
    BY <1>0, ResumeReq DEF Work, Start, Call, Write, agentVars, Reply, Continue, RepliesOK
  <1> QED
    BY <1>0, <1>1, <1>2, <1>3, <1>4, StageSame DEF OnTheWay

(* What a request that is one call does to the catalog d, and its answer.  *)
Does(c, d, e, a) ==
  \/ /\ c.subject \in {"CREATE", "UPDATE"} /\ ~c.valid
     /\ e = d /\ a = [status |-> "ko", out |-> {}, removed |-> {}]
  \/ /\ c.subject \in {"CREATE", "UPDATE"} /\ c.valid
     /\ \E g \in c.groups : /\ e = SaveTo(d, g)
                            /\ a = [status |-> "ok", out |-> {Saved(d, g)}, removed |-> {}]
  \/ /\ c.subject = "DELETE" /\ WithId(d, Head(c.ids)) = {}
     /\ e = d /\ a = [status |-> "ok", out |-> {}, removed |-> {}]
  \/ /\ c.subject = "DELETE" /\ WithId(d, Head(c.ids)) # {}
     /\ \E gone \in Removals(WithId(d, Head(c.ids))) : e = Drop(d, gone)
     /\ a = [status |-> "ok", out |-> {}, removed |-> {Head(c.ids)}]
  \/ /\ c.subject = "READ" /\ WithId(d, Head(c.ids)) = {}
     /\ e = d /\ a = [status |-> "ko", out |-> {}, removed |-> {}]
  \/ /\ c.subject = "READ" /\ WithId(d, Head(c.ids)) # {}
     /\ e = d /\ a = [status |-> "ok", out |-> First(WithId(d, Head(c.ids))), removed |-> {}]

\* A step leaves the request where it is, or is its effect.
Moves(q) ==
  \/ UNCHANGED <<file, Stage(q), Gives(q)>>
  \/ Stage(q) = "asked" /\ Stage(q)' = "did" /\ Does(asked[q], file, file', Gives(q)')

LEMMA StartMoves ==
  ASSUME AgentInv, WireOwn, HandledOnce', WireOwn', NEW t \in Threads, NEW q \in Requests,
         Start(t, q), OneCall(asked[q]), asked[q].subject \in {"READ", "DELETE"} => asked[q].valid
  PROVE  Moves(q)
  <1>0. /\ job \in [Threads -> Job] /\ StageIs(q) /\ StageIs(q)' /\ file' = file
        /\ Stage(q) = "asked" /\ Gives(q) = Unanswered
    BY Standing, StandingNext DEF AgentInv, JobsOK, Start, storageVars, StageIs, OnTheWay
  <1> DEFINE c == asked[q]
             j == [NoJob EXCEPT !.step = "call", !.req = q, !.left = c.ids,
                                !.listing = c.subject = "LIST"]
  <1>1. j.req = q /\ j.step = "call" /\ j.removed = {} /\ j.status = "ok"
    BY DEF NoJob
  <1>2. /\ Fails(j).req = q /\ Fails(j).step = "reply"
        /\ ReplyOf(Fails(j)) = [status |-> "ko", out |-> {}, removed |-> {}]
    BY DEF NoJob, Fails, ReplyOf
  <1>3. job'[t] = IF c.valid THEN j ELSE Fails(j)
    <2>1. c.subject # "LIST" /\ ~(c.subject = "DELETE" /\ c.ids = <<>>)
      <3>1. Len(<<>>) = 0
        OBVIOUS
      <3> QED
        BY <3>1 DEF OneCall
    <2> QED
      BY <1>0, <2>1 DEF Start
  <1> HIDE DEF j
  <1>4. CASE c.valid
    <2>1. job'[t].req = q /\ job'[t].step = "call"
      BY <1>1, <1>3, <1>4
    <2>2. ~Affected(t)'
      BY <2>1 DEF Affected
    <2>3. Stage(q)' = "asked" /\ Gives(q)' = Unanswered
      BY <1>0, <2>1, <2>2 DEF StageIs
    <2> QED
      BY <1>0, <2>3 DEF Moves
  <1>5. CASE ~c.valid
    <2>1. job'[t] = Fails(j) /\ job'[t].req = q /\ job'[t].step = "reply"
      BY <1>2, <1>3, <1>5
    <2>2. Affected(t)' /\ Due(t)' = ReplyOf(job'[t])
      BY <2>1 DEF Affected, Due
    <2>3. Stage(q)' = "did" /\ Gives(q)' = [status |-> "ko", out |-> {}, removed |-> {}]
      BY <1>0, <1>2, <2>1, <2>2 DEF StageIs
    <2>4. c.subject \in {"CREATE", "UPDATE"}
      BY <1>5 DEF OneCall
    <2>5. Does(c, file, file', Gives(q)')
      BY <1>0, <1>5, <2>3, <2>4 DEF Does
    <2> QED
      BY <1>0, <2>3, <2>5 DEF Moves
  <1> QED
    BY <1>4, <1>5

LEMMA CallMoves ==
  ASSUME Faults \subseteq {"kill"}, OneOK, OneOK', WireOwn, WireOwn', NEW t \in Threads,
         Call(t), NEW q \in Requests, job[t].req = q, OneCall(asked[q])
  PROVE  Moves(q)
  <1>0. /\ job \in [Threads -> Job] /\ job[t] \in Job /\ ret \in [Threads -> Results] /\ Inv /\ mutex = NoThread
        /\ StageIs(q) /\ StageIs(q)' /\ asked' = asked /\ Cmd(t) = asked[q] /\ asked[q] \in Commands
        /\ job[t].step = "call" /\ job'[t] = [job[t] EXCEPT !.step = "resume"]
    BY CallAlone, Standing, StandingNext DEF OneOK, AgentInv, JobsOK, JobOK, Inv, TypeOK, Call, Cmd
  <1>1. job'[t].step = "resume" /\ job'[t].req = q /\ job'[t].left = job[t].left
    BY <1>0 DEF Job
  <1>2. job[t].left = asked[q].ids /\ asked[q].valid
    BY <1>0 DEF OneOK, BareOK, AgentInv, ValidOK, OneCall
  <1>3. Stage(q) = "asked" /\ Gives(q) = Unanswered
    BY <1>0 DEF StageIs, Affected
  <1>4. Opened = {file}
    BY <1>0, OpenedIsFile DEF OneOK
  <1>5. ASSUME mutex' = t, file' = file PROVE Moves(q)
    <2>1. Stage(q)' = "asked" /\ Gives(q)' = Unanswered
      BY <1>0, <1>1, <1>5 DEF StageIs, Affected
    <2> QED
      BY <1>3, <1>5, <2>1 DEF Moves
  <1>6. ASSUME NEW x, Return(t, file, x), Does(asked[q], file, file,
                 IF asked[q].subject = "DELETE"
                 THEN [status |-> "ok", out |-> {},
                       removed |-> {i \in {Head(job[t].left)} : x.status = "ok"}]
                 ELSE [status |-> IF x.status = "not found" THEN "ko" ELSE "ok",
                       out |-> x.groups, removed |-> {}])
        PROVE  Moves(q)
    <2>1. ret'[t] = x /\ mutex' = NoThread /\ file' = file
      BY <1>0, <1>6 DEF Return
    <2>2. Affected(t)'
      BY <1>1, <2>1, StorageAssumption DEF Affected
    <2>3. Cmd(t)' = asked[q]
      BY <1>0, <1>1 DEF Cmd
    <2>4. Due(t)' = IF asked[q].subject = "DELETE"
                    THEN [status |-> "ok", out |-> {},
                          removed |-> {i \in {Head(job[t].left)} : x.status = "ok"}]
                    ELSE [status |-> IF x.status = "not found" THEN "ko" ELSE "ok",
                          out |-> x.groups, removed |-> {}]
      BY <1>1, <2>1, <2>3 DEF Due
    <2>5. Stage(q)' = "did" /\ Gives(q)' = Due(t)'
      BY <1>0, <1>1, <2>2 DEF StageIs
    <2> QED
      BY <1>3, <1>6, <2>1, <2>4, <2>5 DEF Moves
  <1>7. ASSUME NEW db, NEW x, Begin(t, db, x) PROVE mutex' = t /\ file' = file
    BY <1>7 DEF Begin
  <1>8. CASE asked[q].subject \in {"CREATE", "UPDATE"} /\ \E g \in asked[q].groups : Save(t, g)
    BY <1>5, <1>7, <1>8 DEF Save
  <1>9. CASE asked[q].subject = "DELETE" /\ Remove(t, Head(job[t].left))
    <2> DEFINE i == Head(job[t].left)
    <2>1. CASE WithId(file, i) = {} /\ Return(t, file, Found({}))
      <3>1. Found({}).status = "not found"
        BY DEF Found, Abstract!Found, Abstract!Result
      <3>2. {j \in {i} : Found({}).status = "ok"} = {}
        BY <3>1
      <3> QED
        BY <1>2, <1>6, <1>9, <2>1, <3>2 DEF Does
    <2>2. CASE \E gone, x : Begin(t, Drop(file, gone), x)
      BY <1>5, <1>7, <2>2
    <2> QED
      BY <1>4, <1>9, <2>1, <2>2 DEF Remove
  <1>10. CASE asked[q].subject = "READ" /\ ById(t, Head(job[t].left))
    <2> DEFINE i == Head(job[t].left)
               x == Found(First(WithId(file, i)))
    <2>1. Return(t, file, x)
      BY <1>4, <1>10 DEF ById
    <2>2. First(WithId(file, i)) = WithId(file, i)
      <3>1. \A g, h \in WithId(file, i) : g = h /\ g.id <= h.id
        BY <1>0, GroupDbAssumption DEF Inv, TypeOK, IdsSound, Sound, WithId, DbObj, Group
      <3> QED
        BY <3>1 DEF First
    <2>3. x.status = (IF WithId(file, i) = {} THEN "not found" ELSE "ok") /\ x.groups = WithId(file, i)
      BY <2>2 DEF Found, Abstract!Found, Abstract!Result
    <2> HIDE DEF x
    <2> QED
      BY <1>2, <1>6, <1>10, <2>1, <2>2, <2>3 DEF Does
  <1> QED
    BY <1>0, <1>8, <1>9, <1>10 DEF Call, OneCall, InitThrows

\* What a worker is going to answer when its change is written.
Says(c, x) ==
  IF c.subject = "DELETE"
  THEN [status |-> "ok", out |-> {}, removed |-> {i \in {Head(c.ids)} : x.status = "ok"}]
  ELSE [status |-> IF x.status = "not found" THEN "ko" ELSE "ok", out |-> x.groups, removed |-> {}]

\* The change under way is the effect of the request of the worker.
LEMMA HeldDoes ==
  ASSUME OneOK, NEW t \in Threads, mutex = t, OneCall(Cmd(t))
  PROVE  Does(Cmd(t), file, memory, Says(Cmd(t), pending))
  <1>1. job[t].left = Cmd(t).ids /\ (Cmd(t).subject # "LIST" => Cmd(t).valid)
    BY DEF OneOK, BareOK, AgentInv, HolderOK, ValidOK
  <1>2. CASE Cmd(t).subject \in {"CREATE", "UPDATE"} /\ Saves(Cmd(t), file, memory, pending)
    <2>1. PICK g \in Cmd(t).groups : /\ memory = SaveTo(file, g)
                                     /\ pending.status \in {"created", "saved"}
                                     /\ pending.groups = {Saved(file, g)}
      BY <1>2 DEF Saves
    <2>2. Says(Cmd(t), pending) = [status |-> "ok", out |-> {Saved(file, g)}, removed |-> {}]
      BY <1>2, <2>1 DEF Says
    <2> QED
      BY <1>1, <1>2, <2>1, <2>2 DEF Does
  <1>3. CASE Cmd(t).subject = "DELETE" /\ Drops(Head(job[t].left), file, memory, pending)
    <2>1. pending.status = "ok"
      BY <1>3 DEF Drops, Result, Abstract!Result
    <2>2. Says(Cmd(t), pending) = [status |-> "ok", out |-> {}, removed |-> {Head(Cmd(t).ids)}]
      BY <1>3, <2>1 DEF Says
    <2> QED
      BY <1>1, <1>3, <2>2 DEF Does, Drops
  <1> QED
    BY <1>2, <1>3 DEF OneOK, ChangeOK

LEMMA WriteMoves ==
  ASSUME Faults \subseteq {"kill"}, OneOK, OneOK', WireOwn, WireOwn', NEW t \in Threads,
         Write(t), NEW q \in Requests, job[t].req = q, OneCall(asked[q])
  PROVE  Moves(q)
  <1>0. /\ job[t] \in Job /\ ret \in [Threads -> Results]
        /\ StageIs(q) /\ StageIs(q)' /\ Cmd(t) = asked[q] /\ mutex = t /\ WriteDone(t)
        /\ asked' = asked /\ job' = job /\ job[t].step = "resume"
    BY Standing, StandingNext
       DEF OneOK, AgentInv, HolderOK, JobsOK, Inv, TypeOK, Cmd, Write, WriteDone, WriteFailed, agentVars
  <1>1. Stage(q) = "asked"
    BY <1>0 DEF StageIs, Affected
  <1>2. ret'[t] = pending /\ file' = memory /\ mutex' = NoThread
    BY <1>0 DEF WriteDone
  <1>3. Affected(t)' /\ Cmd(t)' = asked[q]
    BY <1>0, <1>2, StorageAssumption DEF Affected, Cmd
  <1>4. job[t].left = asked[q].ids
    BY <1>0 DEF OneOK, BareOK
  <1>5. Due(t)' = Says(asked[q], pending)
    BY <1>0, <1>2, <1>3, <1>4 DEF Due, Says
  <1>6. Stage(q)' = "did" /\ Gives(q)' = Due(t)'
    BY <1>0, <1>3 DEF StageIs
  <1> QED
    BY <1>0, <1>1, <1>2, <1>5, <1>6, HeldDoes DEF Moves

LEMMA ResumeMoves ==
  ASSUME Faults \subseteq {"kill"}, OneOK, OneOK', WireOwn, WireOwn', NEW t \in Threads,
         Resume(t), NEW q \in Requests, job[t].req = q, OneCall(asked[q])
  PROVE  Moves(q)
  <1>0. /\ job \in [Threads -> Job] /\ job[t] \in Job /\ ret \in [Threads -> Results]
        /\ StageIs(q) /\ StageIs(q)' /\ Cmd(t) = asked[q] /\ file' = file
        /\ job[t].step = "resume" /\ mutex # t
    BY Standing, StandingNext DEF OneOK, AgentInv, JobsOK, Inv, TypeOK, Cmd, Resume, storageVars
  <1>1. Stage(q) = "did" /\ Gives(q) = Due(t)
    BY <1>0 DEF StageIs, Affected
  <1>2. /\ job[t].status = "ok" /\ job[t].out = {} /\ job[t].removed = {} /\ ~job[t].listing
        /\ job[t].left = asked[q].ids /\ asked[q].valid
        /\ asked[q].subject \in {"READ", "DELETE"} => Len(job[t].left) = 1
    <2>1. asked[q] \in Commands
      BY <1>0 DEF OneOK, AgentInv, JobsOK, JobOK
    <2> QED
      BY <1>0, <2>1, AgentAssumption DEF OneOK, BareOK, AgentInv, ValidOK, OneCall
  <1>3. /\ ret[t].status \notin {"write error", "exception"}
        /\ ret[t].status = "not found" => ret[t].groups = {}
    BY DEF OneOK, RetOK
  <1>4. ASSUME NEW k, Continue(t, k), k.step = "reply", k.req = q, ReplyOf(k) = Due(t) PROVE Moves(q)
    <2>1. job'[t] = k
      BY <1>0, <1>4 DEF Continue
    <2>2. Affected(t)' /\ Due(t)' = ReplyOf(job'[t])
      BY <1>4, <2>1 DEF Affected, Due
    <2>3. Stage(q)' = "did" /\ Gives(q)' = Due(t)
      BY <1>0, <1>4, <2>1, <2>2 DEF StageIs
    <2> QED
      BY <1>0, <1>1, <2>3 DEF Moves
  <1>5. ASSUME NEW k \in Job, k.left = job[t].left, k.req = q, Len(job[t].left) = 1
        PROVE  /\ Advance(k).step = "reply" /\ Advance(k).req = q
               /\ ReplyOf(Advance(k)) = ReplyOf(k)
    <2> DEFINE s == IF Len(k.left) > 1 THEN "call" ELSE "reply"
    <2>1. s = "reply"
      BY <1>5
    <2>2. Advance(k) = [k EXCEPT !.step = s, !.left = Tail(k.left)]
      BY DEF Advance
    <2> HIDE DEF s
    <2> QED
      BY <1>5, <2>1, <2>2 DEF Job, ReplyOf
  <1>6. CASE AfterSave(t)
    <2> DEFINE k == [job[t] EXCEPT !.step = "reply", !.out = ret[t].groups]
    <2>1. /\ k.step = "reply" /\ k.req = job[t].req
          /\ ReplyOf(k) = [status |-> job[t].status, out |-> ret[t].groups, removed |-> job[t].removed]
      BY <1>0 DEF Job, ReplyOf
    <2>2. Continue(t, k) /\ ret[t].status # "not found" /\ asked[q].subject # "DELETE"
      BY <1>0, <1>3, <1>6 DEF AfterSave
    <2>3. Due(t) = [status |-> "ok", out |-> ret[t].groups, removed |-> {}]
      BY <1>0, <2>2 DEF Due
    <2> HIDE DEF k
    <2> QED
      BY <1>2, <1>4, <2>1, <2>2, <2>3
  <1>7. CASE AfterRemove(t)
    <2> DEFINE i == Head(job[t].left)
               k == [job[t] EXCEPT !.removed = @ \cup {i}]
    <2>1. asked[q].subject = "DELETE" /\ Len(job[t].left) = 1
      BY <1>0, <1>2, <1>7 DEF AfterRemove
    <2>2. Due(t) = [status |-> "ok", out |-> {}, removed |-> {x \in {i} : ret[t].status = "ok"}]
      BY <1>0, <2>1 DEF Due
    <2>3. CASE ret[t].status = "ok" /\ Continue(t, Advance(k))
      <3>1. job[t].left # <<>>
        BY <2>1
      <3>2. i \in 0 .. MaxId
        <4>1. job[t].left \in Seq(0 .. MaxId)
          BY <1>0 DEF Job
        <4> QED
          BY <3>1, <4>1, HeadTailProperties
      <3>3. /\ k \in Job /\ k.left = job[t].left /\ k.req = job[t].req
            /\ ReplyOf(k) = [status |-> job[t].status, out |-> job[t].out, removed |-> job[t].removed \cup {i}]
        BY <1>0, <3>2 DEF Job, ReplyOf
      <3>4. {x \in {i} : ret[t].status = "ok"} = {} \cup {i}
        BY <2>3
      <3> HIDE DEF k, i
      <3>5. ReplyOf(k) = Due(t)
        BY <1>2, <2>2, <3>3, <3>4
      <3> QED
        BY <1>4, <1>5, <2>1, <2>3, <3>3, <3>5
    <2>4. CASE ret[t].status # "ok" /\ Continue(t, Advance(job[t]))
      <3>1. {x \in {i} : ret[t].status = "ok"} = {}
        BY <2>4
      <3>2. ReplyOf(job[t]) = Due(t)
        BY <1>2, <2>2, <3>1 DEF ReplyOf
      <3> QED
        BY <1>0, <1>4, <1>5, <2>1, <2>4, <3>2
    <2> QED
      BY <1>7, <2>3, <2>4 DEF AfterRemove
  <1>8. CASE AfterById(t)
    <2> DEFINE k == [job[t] EXCEPT !.out = @ \cup ret[t].groups]
    <2>1. asked[q].subject = "READ" /\ Len(job[t].left) = 1
      BY <1>0, <1>2, <1>8 DEF AfterById, OneCall
    <2>2. Due(t) = [status |-> IF ret[t].status = "not found" THEN "ko" ELSE "ok",
                    out |-> ret[t].groups, removed |-> {}]
      BY <1>0, <2>1 DEF Due
    <2>3. CASE ret[t].status = "ok" /\ Continue(t, Advance(k))
      <3>1. /\ k \in Job /\ k.left = job[t].left /\ k.req = job[t].req
            /\ ReplyOf(k) = [status |-> job[t].status, out |-> job[t].out \cup ret[t].groups,
                             removed |-> job[t].removed]
        BY <1>0 DEF Job, ReplyOf, Results
      <3> HIDE DEF k
      <3>2. ReplyOf(k) = Due(t)
        BY <1>2, <2>2, <2>3, <3>1
      <3> QED
        BY <1>4, <1>5, <2>1, <2>3, <3>1, <3>2
    <2>4. CASE ret[t].status = "not found" /\ Continue(t, Fails(job[t]))
      <3>1. /\ Fails(job[t]).step = "reply" /\ Fails(job[t]).req = q
            /\ ReplyOf(Fails(job[t])) = [status |-> "ko", out |-> {}, removed |-> job[t].removed]
        BY <1>0 DEF Fails, ReplyOf, Job
      <3> QED
        BY <1>2, <1>3, <1>4, <2>2, <2>4, <3>1
    <2> QED
      BY <1>8, <2>3, <2>4 DEF AfterById
  <1>9. ~AfterIds(t) /\ ~AfterResolve(t) /\ ~Escape(t)
    BY <1>0, <1>2, <1>3 DEF AfterIds, AfterResolve, Escape, OneCall
  <1> QED
    BY <1>6, <1>7, <1>8, <1>9 DEF Resume

\* A reply is sent, or lost.
LEMMA ReplyMoves ==
  ASSUME AgentInv, AgentInv', WireOwn, WireOwn', wire' = wire, NEW t \in Threads, NEW q \in Requests,
         Reply(t), job[t].req = q
  PROVE  \/ Moves(q)
         \/ /\ Stage(q) = "did" /\ Stage(q)' = "gone" /\ Gives(q)' = Unanswered /\ file' = file
  <1>0. /\ job \in [Threads -> Job] /\ StageIs(q) /\ StageIs(q)' /\ file' = file /\ queue' = queue
        /\ job[t].step = "reply" /\ replies \in [Requests -> Seq(Answer)] /\ HandledOnce
        /\ ReplyOf(job[t]) \in Answer
    BY Standing, StandingNext DEF AgentInv, JobsOK, Reply, storageVars, RepliesOK, ReplyOf, Answer, Job
  <1>1. Stage(q) = "did" /\ Gives(q) = ReplyOf(job[t])
    BY <1>0 DEF StageIs, Affected, Due
  <1>2. Workers(q) = {t} /\ replies[q] = <<>> /\ ~OnTheWay(q)
    BY <1>0 DEF HandledOnce, Workers, WireOwn, OnTheWay
  <1>3. CASE replies' = [replies EXCEPT ![q] = Append(@, ReplyOf(job[t]))]
    <2>1. replies'[q] = Append(<<>>, ReplyOf(job[t]))
      BY <1>0, <1>2, <1>3
    <2>2. replies'[q] # <<>> /\ Head(replies'[q]) = ReplyOf(job[t])
      BY <1>0, <2>1
    <2> QED
      BY <1>0, <1>1, <2>2 DEF StageIs, Moves
  <1>4. CASE replies' = replies
    <2>1. Workers(q)' = {}
      BY <1>0, <1>2, AgentAssumption, NoJobJob DEF Workers, Reply
    <2>2. ~OnTheWay(q)'
      BY <1>0, <1>2 DEF OnTheWay
    <2> QED
      BY <1>0, <1>1, <1>2, <1>4, <2>1, <2>2 DEF StageIs
  <1> QED
    BY <1>3, <1>4 DEF Reply

-----------------------------------------------------------------------------
(* The promise, of the state the handlers and the agent are in.            *)

LEMMA SamePromise ==
  /\ Promise!DbObj = DbObj
  /\ \A d : Promise!Sound(d) = Sound(d)
  /\ \A d, g : /\ Promise!SaveTo(d, g) = SaveTo(d, g) /\ Promise!Saved(d, g) = Saved(d, g)
               /\ Promise!Drop(d, g) = Drop(d, g) /\ Promise!WithId(d, g) = WithId(d, g)
  /\ \A S : Promise!First(S) = First(S) /\ Promise!Removals(S) = Removals(S)
  BY DEF Promise!DbObj, DbObj, Promise!Group, Group, Promise!Sound, Sound, Promise!SaveTo, SaveTo,
         Promise!Saved, Saved, Promise!NoId, NoId, Promise!Drop, Drop, Promise!WithId, WithId,
         Promise!First, First, Promise!Removals, Removals

\* The command of a call does what the call promises.
LEMMA DoesPromise ==
  ASSUME NEW c \in Calls, ~Refused(c), Single(c), NEW m \in Commanded(c),
         NEW d, NEW e, NEW a, Does(m, d, e, a)
  PROVE  \E x \in Promise!Effects(c, d) : e = x.db /\ a = x.answer
  <1>0. /\ c \in HttpCall /\ c.groups \subseteq Group
        /\ c.verb \in {"create", "edit", "read", "remove"}
    BY RestAssumption DEF Single, HttpCall, Verbs
  <1>1. c.verb \in {"read", "remove"} => Head(c.ids) = c.ids[1]
    <2>1. c.verb \in {"read", "remove"} => c.ids # <<>> /\ c.ids \in Seq(0 .. MaxId)
      BY <1>0 DEF Refused, HttpCall
    <2> QED
      BY <2>1
  <1>2. Promise!Effect(e, a).db = e /\ Promise!Effect(e, a).answer = a
    BY DEF Promise!Effect
  <1>3. SUFFICES Promise!Effect(e, a) \in Promise!Effects(c, d)
    BY <1>2
  <1> USE DEF Promise!Answer, Promise!Refusal
  <1>4. CASE c.verb = "create"
    <2>1. m.subject = "CREATE" /\ (m.valid <=> c.body = "group") /\ m.groups = c.groups
      BY <1>4 DEF Commanded, Say
    <2>2. Promise!Wanted(c) = c.groups
      <3>1. \A g \in Group : [g EXCEPT !.id = g.id] = g
        BY DEF Group
      <3>2. Promise!Wanted(c) = {[g EXCEPT !.id = g.id] : g \in c.groups}
        BY <1>4 DEF Promise!Wanted
      <3> QED
        BY <1>0, <3>1, <3>2
    <2>3. CASE c.body = "group"
      <3>1. PICK g \in c.groups : /\ e = SaveTo(d, g)
                                  /\ a = [status |-> "ok", out |-> {Saved(d, g)}, removed |-> {}]
        BY <2>1, <2>3 DEF Does
      <3> QED
        BY <1>4, <2>2, <2>3, <3>1, SamePromise DEF Promise!Effects
    <2>4. CASE c.body # "group"
      <3>1. e = d /\ a = [status |-> "ko", out |-> {}, removed |-> {}]
        BY <2>1, <2>4 DEF Does
      <3> QED
        BY <1>4, <2>4, <3>1 DEF Promise!Effects
    <2> QED
      BY <2>3, <2>4
  <1>5. CASE c.verb = "edit"
    <2>1. /\ m.subject = "UPDATE" /\ m.valid
          /\ m.groups = {[g EXCEPT !.id = c.ids[1]] : g \in c.groups}
      BY <1>5 DEF Commanded, Say
    <2>2. Promise!Wanted(c) = m.groups
      BY <1>5, <2>1 DEF Promise!Wanted
    <2>3. c.body = "group"
      BY <1>0, <1>5 DEF Refused, HttpCall
    <2>4. PICK g \in m.groups : /\ e = SaveTo(d, g)
                                /\ a = [status |-> "ok", out |-> {Saved(d, g)}, removed |-> {}]
      BY <2>1 DEF Does
    <2> QED
      BY <1>5, <2>2, <2>3, <2>4, SamePromise DEF Promise!Effects
  <1>6. CASE c.verb = "remove"
    <2>1. m.subject = "DELETE" /\ Head(m.ids) = c.ids[1]
      BY <1>1, <1>6 DEF Commanded, Say
    <2>2. CASE WithId(d, c.ids[1]) = {}
      <3>1. e = d /\ a = [status |-> "ok", out |-> {}, removed |-> {}]
        BY <2>1, <2>2 DEF Does
      <3> QED
        BY <1>6, <2>2, <3>1, SamePromise DEF Promise!Effects
    <2>3. CASE WithId(d, c.ids[1]) # {}
      <3>1. /\ \E gone \in Removals(WithId(d, c.ids[1])) : e = Drop(d, gone)
            /\ a = [status |-> "ok", out |-> {}, removed |-> {c.ids[1]}]
        BY <2>1, <2>3 DEF Does
      <3> QED
        BY <1>6, <2>3, <3>1, SamePromise DEF Promise!Effects
    <2> QED
      BY <2>2, <2>3
  <1>7. CASE c.verb = "read"
    <2>1. m.subject = "READ" /\ Head(m.ids) = c.ids[1]
      <3>1. c.ids \in Seq(0 .. MaxId) /\ c.ids # <<>>
        BY <1>0, <1>7 DEF Refused, HttpCall
      <3>2. c.ids[1] \in 0 .. MaxId
        BY <1>1, <1>7, <3>1, HeadTailProperties
      <3>3. c.ids[1] < ReadLimit
        BY <1>7, <3>2, RestAssumption, GroupDbAssumption DEF Single
      <3>4. PICK i \in Narrowed(c.ids[1]) : m = Say("READ", {}, <<i>>)
        BY <1>7 DEF Commanded
      <3>5. i = c.ids[1]
        BY <3>2, <3>3, <3>4, NarrowedFits
      <3> QED
        BY <3>4, <3>5 DEF Say
    <2>2. CASE WithId(d, c.ids[1]) = {}
      <3>1. e = d /\ a = [status |-> "ko", out |-> {}, removed |-> {}]
        BY <2>1, <2>2 DEF Does
      <3> QED
        BY <1>7, <2>2, <3>1, SamePromise DEF Promise!Effects
    <2>3. CASE WithId(d, c.ids[1]) # {}
      <3>1. e = d /\ a = [status |-> "ok", out |-> First(WithId(d, c.ids[1])), removed |-> {}]
        BY <2>1, <2>3 DEF Does
      <3> QED
        BY <1>7, <2>3, <3>1, SamePromise DEF Promise!Effects
    <2> QED
      BY <2>2, <2>3
  <1> QED
    BY <1>0, <1>4, <1>5, <1>6, <1>7

\* The client, as the promise sees it, of a handler.
BarIs(h) ==
  \A p : p = http[h] =>
    /\ callBar[h] = (IF Single(p.call) THEN p.call ELSE NoCall)
    /\ givenBar[h] = GivenOf(p)
    /\ p.step = "idle" \/ ~Single(p.call) => workBar[h] = "none" /\ resultBar[h] = Unanswered
    /\ p.step = "send" /\ Single(p.call) => workBar[h] = "asked" /\ resultBar[h] = Unanswered
    /\ p.step = "done" /\ Single(p.call) /\ p.corr = NoRequest =>
         workBar[h] = "gone" /\ resultBar[h] = Unanswered
    /\ Sent(p) => workBar[h] = Stage(p.corr) /\ resultBar[h] = Gives(p.corr)

BarsAre ==
  /\ callBar = [k \in Handlers |-> callBar[k]]
  /\ workBar = [k \in Handlers |-> workBar[k]]
  /\ resultBar = [k \in Handlers |-> resultBar[k]]
  /\ givenBar = [k \in Handlers |-> givenBar[k]]
  /\ \A h \in Handlers : BarIs(h)

LEMMA Bars == BarsAre
  <1>1. ASSUME NEW h \in Handlers PROVE BarIs(h)
    <2> SUFFICES ASSUME NEW p, p = http[h]
                 PROVE  /\ callBar[h] = (IF Single(p.call) THEN p.call ELSE NoCall)
                        /\ givenBar[h] = GivenOf(p)
                        /\ p.step = "idle" \/ ~Single(p.call) => workBar[h] = "none" /\ resultBar[h] = Unanswered
                        /\ p.step = "send" /\ Single(p.call) => workBar[h] = "asked" /\ resultBar[h] = Unanswered
                        /\ p.step = "done" /\ Single(p.call) /\ p.corr = NoRequest =>
                             workBar[h] = "gone" /\ resultBar[h] = Unanswered
                        /\ Sent(p) => workBar[h] = Stage(p.corr) /\ resultBar[h] = Gives(p.corr)
      BY DEF BarIs
    <2>1. /\ callBar[h] = (IF Single(p.call) THEN p.call ELSE NoCall)
          /\ givenBar[h] = GivenOf(p)
      BY DEF callBar, givenBar
    <2>2. /\ workBar[h] = WorkOf(p)
          /\ resultBar[h] = IF WorkOf(p) = "did" THEN ResultOf(p.corr) ELSE Unanswered
      BY DEF workBar, resultBar
    <2>3. p.step = "idle" \/ ~Single(p.call) => WorkOf(p) = "none"
      BY DEF WorkOf
    <2>4. p.step = "send" /\ Single(p.call) => WorkOf(p) = "asked"
      BY DEF WorkOf
    <2>5. p.step = "done" /\ Single(p.call) /\ p.corr = NoRequest => WorkOf(p) = "gone"
      BY DEF WorkOf
    <2>6. Sent(p) => WorkOf(p) = Stage(p.corr)
      BY DEF WorkOf, Sent, Stage
    <2> QED
      BY <2>1, <2>2, <2>3, <2>4, <2>5, <2>6 DEF Gives
  <1>2. /\ callBar = [k \in Handlers |-> callBar[k]]
        /\ workBar = [k \in Handlers |-> workBar[k]]
        /\ resultBar = [k \in Handlers |-> resultBar[k]]
        /\ givenBar = [k \in Handlers |-> givenBar[k]]
    BY DEF callBar, workBar, resultBar, givenBar
  <1> QED
    BY <1>1, <1>2 DEF BarsAre

LEMMA BarsNext == BarsAre'
  BY Bars, PTL

\* The client of handler k is as before.
Kept(k) ==
  UNCHANGED <<callBar[k], workBar[k], resultBar[k], givenBar[k]>>

LEMMA BarKept ==
  ASSUME RestInv, Own, NEW k \in Handlers, http'[k] = http[k],
         Sent(http[k]) => UNCHANGED <<Stage(http[k].corr), Gives(http[k].corr)>>
  PROVE  Kept(k)
  <1>1. PICK p : p = http[k]
    OBVIOUS
  <1>2. p = http'[k] /\ BarIs(k) /\ BarIs(k)'
    BY <1>1, Bars, BarsNext DEF BarsAre
  <1>3. p.step \in {"idle", "send", "wait", "done"} /\ (p.step = "wait" => p.corr # NoRequest)
    BY <1>1 DEF RestInv, HttpOK, Http, Own, QuestionOwn
  <1>4. Sent(p) => Stage(p.corr)' = Stage(p.corr) /\ Gives(p.corr)' = Gives(p.corr)
    BY <1>1, <1>2
  <1>5. \/ p.step = "idle" \/ ~Single(p.call)
        \/ p.step = "send" /\ Single(p.call)
        \/ p.step = "done" /\ Single(p.call) /\ p.corr = NoRequest
        \/ Sent(p)
    BY <1>3 DEF Sent
  <1> QED
    BY <1>1, <1>2, <1>4, <1>5 DEF BarIs, Kept

LEMMA AllKept ==
  ASSUME \A k \in Handlers : Kept(k), file' = file
  PROVE  UNCHANGED Promise!vars
  BY Bars, BarsNext DEF BarsAre, Kept, Promise!vars

LEMMA OneUpdated ==
  ASSUME NEW f, NEW g, NEW h \in Handlers, f = [k \in Handlers |-> f[k]], g = [k \in Handlers |-> g[k]],
         \A k \in Handlers \ {h} : g[k] = f[k]
  PROVE  g = [f EXCEPT ![h] = g[h]]
  OBVIOUS

\* What only client h sees is a step of client h.
LEMMA ClientBegins ==
  ASSUME NEW h \in Handlers, \A k \in Handlers \ {h} : Kept(k), file' = file,
         workBar[h] = "none", NEW c \in Calls, callBar'[h] = c, resultBar'[h] = resultBar[h],
         \/ workBar'[h] = "asked" /\ givenBar'[h] = givenBar[h]
         \/ workBar'[h] = "gone" /\ givenBar'[h] = Promise!Refusal
  PROVE  Promise!Begin(h, c)
  <1>1. BarsAre /\ BarsAre'
    BY Bars, BarsNext
  <1>2. /\ callBar' = [callBar EXCEPT ![h] = callBar'[h]]
        /\ workBar' = [workBar EXCEPT ![h] = workBar'[h]]
        /\ givenBar' = [givenBar EXCEPT ![h] = givenBar'[h]]
        /\ resultBar' = [resultBar EXCEPT ![h] = resultBar'[h]]
    BY <1>1, OneUpdated DEF BarsAre, Kept
  <1>3. /\ resultBar' = resultBar
        /\ givenBar'[h] = givenBar[h] => givenBar' = givenBar
    BY <1>1, <1>2 DEF BarsAre, Kept
  <1> QED
    BY <1>2, <1>3 DEF Promise!Begin

LEMMA ClientTold ==
  ASSUME NEW h \in Handlers, \A k \in Handlers \ {h} : Kept(k), file' = file,
         UNCHANGED <<callBar[h], workBar[h], resultBar[h]>>, givenBar[h] = Promise!NoAnswer,
         \/ workBar[h] # "none" /\ givenBar'[h] = Promise!Refusal
         \/ workBar[h] = "did" /\ resultBar[h].status = "ok" /\ givenBar'[h] = resultBar[h]
  PROVE  Promise!Succeed(h) \/ Promise!Fail(h)
  <1>1. BarsAre /\ BarsAre'
    BY Bars, BarsNext
  <1>2. givenBar' = [givenBar EXCEPT ![h] = givenBar'[h]]
    BY <1>1, OneUpdated DEF BarsAre, Kept
  <1>3. UNCHANGED <<callBar, workBar, resultBar>>
    BY <1>1 DEF BarsAre, Kept
  <1> QED
    BY <1>2, <1>3 DEF Promise!Succeed, Promise!Fail

LEMMA ClientDone ==
  ASSUME NEW h \in Handlers, \A k \in Handlers \ {h} : Kept(k),
         UNCHANGED <<callBar[h], givenBar[h]>>, workBar[h] = "asked", workBar'[h] = "did",
         \E x \in Promise!Effects(callBar[h], file) : file' = x.db /\ resultBar'[h] = x.answer
  PROVE  Promise!Do(h)
  <1>1. BarsAre /\ BarsAre'
    BY Bars, BarsNext
  <1>2. /\ workBar' = [workBar EXCEPT ![h] = workBar'[h]]
        /\ resultBar' = [resultBar EXCEPT ![h] = resultBar'[h]]
    BY <1>1, OneUpdated DEF BarsAre, Kept
  <1>3. UNCHANGED <<callBar, givenBar>>
    BY <1>1 DEF BarsAre, Kept
  <1> QED
    BY <1>2, <1>3 DEF Promise!Do

LEMMA ClientsForgotten ==
  ASSUME NEW S \in SUBSET Handlers, \A k \in Handlers \ S : Kept(k),
         \A h \in S : /\ UNCHANGED <<callBar[h], givenBar[h]>>
                      /\ workBar[h] \in {"asked", "did"} /\ workBar'[h] = "gone"
                      /\ resultBar'[h] = Promise!NoAnswer,
         \/ file' = file
         \/ \E h \in S : workBar[h] = "asked"
                           /\ \E x \in Promise!Effects(callBar[h], file) : file' = x.db
  PROVE  Promise!Forget(S)
  <1>1. BarsAre /\ BarsAre'
    BY Bars, BarsNext
  <1>2. UNCHANGED <<callBar, givenBar>>
    BY <1>1 DEF BarsAre, Kept
  <1>3. /\ workBar' = [k \in Handlers |-> IF k \in S THEN "gone" ELSE workBar[k]]
        /\ resultBar' = [k \in Handlers |-> IF k \in S THEN Promise!NoAnswer ELSE resultBar[k]]
    <2>1. \A k \in Handlers : /\ workBar'[k] = IF k \in S THEN "gone" ELSE workBar[k]
                              /\ resultBar'[k] = IF k \in S THEN Promise!NoAnswer ELSE resultBar[k]
      BY DEF Kept
    <2> QED
      BY <1>1, <2>1 DEF BarsAre
  <1> QED
    BY <1>2, <1>3 DEF Promise!Forget

-----------------------------------------------------------------------------
(* Every step is a step of the promise, or leaves it alone.                *)

PromiseOK == RestInv /\ Own /\ OneOK /\ SentOK /\ SendersKnown

\* A handler's step leaves what was sent where it is.
LEMMA QuietStage ==
  ASSUME PromiseOK, PromiseOK', [RestNext]_restVars, UNCHANGED vars, wire \subseteq wire',
         NEW q \in Requests, Used(q)
  PROVE  UNCHANGED <<Stage(q), Gives(q)>>
  <1>1. /\ HandledOnce /\ HandledOnce' /\ WireOwn /\ WireOwn'
        /\ UNCHANGED <<queue, replies, asked, job, ret, mutex>>
    BY DEF PromiseOK, Own, OneOK, AgentInv, vars, agentVars, storageVars
  <1>2. \A m \in wire' : m.corr = q => m \in wire
    BY WireComes DEF PromiseOK
  <1>3. OnTheWay(q)' <=> OnTheWay(q)
    BY <1>1, <1>2 DEF OnTheWay
  <1> QED
    BY <1>1, <1>3, StageSame

LEMMA SentUsed ==
  ASSUME PromiseOK, NEW h \in Handlers, Sent(http[h])
  PROVE  http[h].corr \in Requests /\ Used(http[h].corr)
  BY DEF PromiseOK, Sent, RestInv, HttpOK, Http, Own, HandlersOwn

LEMMA OpenPromise ==
  ASSUME PromiseOK, PromiseOK', [RestNext]_restVars, NEW h \in Handlers, NEW c \in Calls, Open(h, c)
  PROVE  [Promise!Next]_(Promise!vars)
  <1>0. UNCHANGED <<vars, wire>> /\ file' = file
    BY DEF Open, vars, storageVars
  <1>1. ASSUME NEW k \in Handlers, k # h PROVE Kept(k)
    <2>1. http'[k] = http[k]
      BY <1>1 DEF PromiseOK, RestInv, HttpOK, Open
    <2> QED
      BY <1>0, <2>1, BarKept, QuietStage, SentUsed DEF PromiseOK
  <1>2. PICK p : p = http'[h]
    OBVIOUS
  <1>3. p.call = c /\ p.corr = NoRequest
        /\ (p.step = "send" \/ (p.step = "done" /\ p.status # "ok"))
    <2> DEFINE q == [NoHttp EXCEPT !.call = c]
    <2>1. \A s : /\ Ended(q, s).corr = NoRequest /\ Ended(q, s).step = "done"
                 /\ Ended(q, s).call = c /\ Ended(q, s).status = s
      BY DEF Ended, NoHttp
    <2>2. LET k == [q EXCEPT !.step = "send"] IN k.corr = NoRequest /\ k.step = "send" /\ k.call = c
      BY DEF NoHttp
    <2> HIDE DEF q
    <2>3. p = Ended(q, "refused") \/ p = Ended(q, "error") \/ p = [q EXCEPT !.step = "send"]
      BY <1>2 DEF Open, PromiseOK, RestInv, HttpOK, q
    <2> QED
      BY <2>1, <2>2, <2>3
  <1>4. /\ callBar'[h] = (IF Single(c) THEN c ELSE NoCall) /\ givenBar'[h] = GivenOf(p)
        /\ ~Single(c) => workBar'[h] = "none" /\ resultBar'[h] = Unanswered
        /\ p.step = "send" /\ Single(c) => workBar'[h] = "asked" /\ resultBar'[h] = Unanswered
        /\ p.step = "done" /\ Single(c) => workBar'[h] = "gone" /\ resultBar'[h] = Unanswered
    BY <1>2, <1>3, BarsNext DEF BarsAre, BarIs
  <1>5. /\ callBar[h] = NoCall /\ givenBar[h] = Unanswered
        /\ workBar[h] = "none" /\ resultBar[h] = Unanswered
    <2>1. http[h].step = "idle" /\ http[h].call = NoCall /\ Single(NoCall)
      BY DEF Open, NoHttp, NoCall, Single
    <2>2. /\ callBar[h] = (IF Single(http[h].call) THEN http[h].call ELSE NoCall)
          /\ givenBar[h] = GivenOf(http[h])
          /\ workBar[h] = "none" /\ resultBar[h] = Unanswered
      BY <2>1, Bars DEF BarsAre, BarIs
    <2> QED
      BY <2>1, <2>2 DEF GivenOf
  <1>6. GivenOf(p) = IF p.step = "done" /\ Single(c) THEN Promise!Refusal ELSE Unanswered
    <2>1. [Unanswered EXCEPT !.status = "ko"] = Promise!Refusal
      BY DEF Unanswered, Promise!Refusal, Promise!Answer
    <2> QED
      BY <1>3, <2>1 DEF GivenOf
  <1>7. CASE Single(c)
    <2>1. Promise!Begin(h, c)
      BY <1>0, <1>1, <1>3, <1>4, <1>5, <1>6, <1>7, ClientBegins
    <2> QED
      BY <2>1 DEF Promise!Next
  <1>8. CASE ~Single(c)
    <2>1. Kept(h)
      BY <1>4, <1>5, <1>6, <1>8 DEF Kept
    <2> QED
      BY <1>0, <1>1, <2>1, AllKept
  <1> QED
    BY <1>7, <1>8

LEMMA HandlePromise ==
  ASSUME PromiseOK, PromiseOK', [RestNext]_restVars, NEW h \in Handlers, Handle(h)
  PROVE  [Promise!Next]_(Promise!vars)
  <1>0. /\ UNCHANGED vars /\ file' = file /\ wire \subseteq wire' /\ replies' = replies
        /\ http \in [Handlers -> Http] /\ \A k \in Handlers : AskOK(http[k])
    BY HandleOK DEF PromiseOK, RestInv, HttpOK, Handle, Send, NarrowingThrows, Receive, Timeout,
                    vars, storageVars, agentVars
  <1>1. ASSUME NEW k \in Handlers, http'[k] = http[k] PROVE Kept(k)
    BY <1>0, <1>1, BarKept, QuietStage, SentUsed DEF PromiseOK
  <1>2. CASE http' = http
    BY <1>0, <1>1, <1>2, AllKept
  <1>3. CASE \A k \in Handlers \ {h} : http'[k] = http[k]
    <2>0. \A k \in Handlers \ {h} : Kept(k)
      BY <1>1, <1>3
    <2>1. PICK o : o = http[h]
      OBVIOUS
    <2>2. PICK p : p = http'[h]
      OBVIOUS
    <2>3. o \in Http /\ AskOK(o)
      BY <1>0, <2>1
    <2>4. BarIs(h) /\ BarIs(h)'
      BY Bars, BarsNext DEF BarsAre
    <2>5. \A s : /\ Ended(o, s).step = "done" /\ Ended(o, s).corr = o.corr
                 /\ Ended(o, s).call = o.call /\ Ended(o, s).status = s
      BY <2>3 DEF Ended, Http
    <2>6. ASSUME ~Single(o.call), p.call = o.call PROVE Kept(h)
      BY <2>1, <2>2, <2>4, <2>6 DEF BarIs, Kept, GivenOf
    <2>7. ASSUME Kept(h) PROVE [Promise!Next]_(Promise!vars)
      BY <1>0, <2>0, <2>7, AllKept
    <2>8. ASSUME Sent(o), p.call = o.call, p.corr = o.corr, p.step = "done", o.step = "wait"
          PROVE  /\ UNCHANGED <<callBar[h], workBar[h], resultBar[h]>> /\ givenBar[h] = Promise!NoAnswer
                 /\ workBar[h] = Stage(o.corr) /\ resultBar[h] = Gives(o.corr)
                 /\ givenBar'[h] = GivenOf(p)
      <3>1. Sent(p)
        BY <2>8 DEF Sent
      <3>2. o.corr \in Requests /\ Used(o.corr)
        BY <2>1, <2>8, SentUsed
      <3>3. Stage(o.corr)' = Stage(o.corr) /\ Gives(o.corr)' = Gives(o.corr)
        BY <1>0, <3>2, QuietStage
      <3>4. GivenOf(o) = Promise!NoAnswer
        BY <2>8 DEF GivenOf, Unanswered, Promise!NoAnswer, Promise!Answer
      <3> QED
        BY <2>1, <2>2, <2>4, <2>8, <3>1, <3>3, <3>4 DEF BarIs
    <2>9. \A s : s # "ok" /\ Single(o.call) => GivenOf(Ended(o, s)) = Promise!Refusal
      <3>1. [Unanswered EXCEPT !.status = "ko"] = Promise!Refusal
        BY DEF Unanswered, Promise!Refusal, Promise!Answer
      <3> QED
        BY <2>5, <3>1 DEF GivenOf
    <2>10. ASSUME o.step = "wait", Single(o.call), NEW s, s # "ok", p = Ended(o, s)
           PROVE  [Promise!Next]_(Promise!vars)
      <3>1. Sent(o)
        BY <2>1, <2>10 DEF Sent, PromiseOK, Own, QuestionOwn
      <3>2. Stage(o.corr) # "none"
        BY DEF Stage
      <3>3. Promise!Succeed(h) \/ Promise!Fail(h)
        BY <1>0, <2>0, <2>5, <2>8, <2>9, <2>10, <3>1, <3>2, ClientTold
      <3> QED
        BY <3>3 DEF Promise!Next
    <2>11. CASE Send(h)
      <3>1. PICK r : r = Fresh
        OBVIOUS
      <3>2. PICK c : wire' = wire \cup {[corr |-> r, command |-> c]}
        BY <2>11, <3>1 DEF Send
      <3>3. r \in Requests /\ o.step = "send"
        BY <2>1, <2>11, <3>1, FreshType DEF Send
      <3>4. p = [o EXCEPT !.step = "wait", !.corr = r]
        BY <1>0, <2>1, <2>2, <2>11, <3>1 DEF Send
      <3>5. p.step = "wait" /\ p.corr = r /\ p.call = o.call
        BY <2>3, <3>4 DEF Http
      <3>6. CASE Single(o.call)
        <4>1. [corr |-> r, command |-> c] \in wire'
          BY <3>2
        <4>2. OnTheWay(r)'
          BY <4>1 DEF OnTheWay
        <4>3. Stage(r)' = "asked" /\ Gives(r)' = Unanswered
          BY <3>3, <4>2, StandingNext DEF StageIs, PromiseOK, Own, OneOK, AgentInv
        <4>4. Sent(p)
          BY <3>3, <3>5, <3>6, AgentAssumption DEF Sent
        <4>5. GivenOf(p) = GivenOf(o)
          BY <3>3, <3>5 DEF GivenOf
        <4>6. Kept(h)
          BY <2>1, <2>2, <2>4, <3>3, <3>5, <3>6, <4>3, <4>4, <4>5 DEF BarIs, Kept
        <4> QED
          BY <2>7, <4>6
      <3> QED
        BY <2>6, <2>7, <3>5, <3>6
    <2>12. CASE NarrowingThrows(h)
      <3>1. p = Ended(o, "error") /\ o.step = "send" /\ o.call.verb \in {"read", "resolve"}
            /\ o.call.ids[1] >= ReadLimit
        BY <1>0, <2>1, <2>2, <2>12 DEF NarrowingThrows
      <3>2. ~Single(o.call)
        BY <3>1 DEF Single
      <3> QED
        BY <2>5, <2>6, <2>7, <3>1, <3>2
    <2>13. CASE Timeout(h)
      <3>1. p = Ended(o, "timeout") /\ o.step = "wait"
        BY <1>0, <2>1, <2>2, <2>13 DEF Timeout
      <3> QED
        BY <2>5, <2>6, <2>7, <2>10, <3>1
    <2>14. ASSUME NEW r \in Requests, Receive(h, r), Waits(h, r) PROVE [Promise!Next]_(Promise!vars)
      <3> DEFINE a == Head(replies[r])
      <3>1. o.step = "wait" /\ o.corr = r /\ replies[r] # <<>> /\ p \in Outcomes(o, a)
        BY <1>0, <2>1, <2>2, <2>14 DEF Receive, Waits
      <3>2. a \in Answer
        BY <3>1 DEF PromiseOK, RestInv, RepliesOK
      <3>3. Stage(r) = "did" /\ Gives(r) = a
        BY <3>1, Standing DEF StageIs, PromiseOK, Own, OneOK, AgentInv
      <3>4. CASE Single(o.call) /\ a.status = "ko"
        BY <2>10, <3>1, <3>4 DEF Outcomes
      <3>5. CASE Single(o.call) /\ a.status = "ok"
        <4>1. p = [Ended(o, "ok") EXCEPT !.out = a.out, !.removed = a.removed]
          BY <3>1, <3>5 DEF Outcomes, Single
        <4>2. Ended(o, "ok") \in Http
          BY <2>3 DEF Ended, Http
        <4>3. \A e \in Http : LET e2 == [e EXCEPT !.out = a.out, !.removed = a.removed]
                              IN /\ e2.step = e.step /\ e2.corr = e.corr /\ e2.call = e.call
                                 /\ e2.status = e.status /\ e2.out = a.out /\ e2.removed = a.removed
          BY DEF Http
        <4>4. /\ p.step = "done" /\ p.corr = o.corr /\ p.call = o.call /\ p.status = "ok"
              /\ p.out = a.out /\ p.removed = a.removed
          BY <2>5, <4>1, <4>2, <4>3
        <4>5. GivenOf(p) = [status |-> "ok", out |-> a.out, removed |-> a.removed]
          BY <3>5, <4>4 DEF GivenOf
        <4>6. GivenOf(p) = a
          BY <3>2, <3>5, <4>5 DEF Answer
        <4>7. Sent(o)
          BY <3>1, <3>5, AgentAssumption DEF Sent
        <4>8. /\ UNCHANGED <<callBar[h], workBar[h], resultBar[h]>> /\ givenBar[h] = Promise!NoAnswer
              /\ workBar[h] = "did" /\ resultBar[h] = a /\ givenBar'[h] = a
          BY <2>8, <3>1, <3>3, <4>4, <4>6, <4>7
        <4>9. Promise!Succeed(h) \/ Promise!Fail(h)
          BY <1>0, <2>0, <3>5, <4>8, ClientTold
        <4> QED
          BY <4>9 DEF Promise!Next
      <3>6. CASE ~Single(o.call)
        <4>1. p.call = o.call
          BY <2>1, <2>2, <3>1, HandlerMoves DEF PromiseOK, NoHttp
        <4> QED
          BY <2>6, <2>7, <3>6, <4>1
      <3> QED
        BY <3>2, <3>4, <3>5, <3>6 DEF Answer
    <2>15. ASSUME NEW r \in Requests, Receive(h, r), ~Waits(h, r) PROVE [Promise!Next]_(Promise!vars)
      BY <1>2, <2>15 DEF Receive
    <2> QED
      BY <2>11, <2>12, <2>13, <2>14, <2>15 DEF Handle
  <1>4. \A k \in Handlers \ {h} : http'[k] = http[k]
    BY <1>0 DEF Handle, Send, NarrowingThrows, Receive, Timeout
  <1> QED
    BY <1>3, <1>4

\* A message of a call that is one message is one call of Storage.
LEMMA OneMessage ==
  ASSUME NEW c \in Calls, ~Refused(c), Single(c), NEW m \in Commanded(c)
  PROVE  /\ OneCall(m) /\ m.subject \in Subjects
         /\ m.subject \in {"READ", "DELETE"} => m.valid
  <1>1. c \in HttpCall /\ c.verb \in {"create", "edit", "read", "remove"} /\ Len(c.ids) <= 1
    BY RestAssumption DEF Single, HttpCall, Verbs
  <1>2. CASE c.verb = "remove"
    <2>1. c.ids # <<>> /\ c.ids \in Seq(0 .. MaxId)
      BY <1>1, <1>2 DEF Refused, HttpCall
    <2>2. Len(c.ids) = 1
      <3>1. Len(c.ids) \in Nat \ {0}
        BY <2>1, EmptySeq
      <3>2. \A n \in Nat \ {0} : n <= 1 => n = 1
        OBVIOUS
      <3> QED
        BY <1>1, <3>1, <3>2
    <2>3. m.subject = "DELETE" /\ m.ids = c.ids /\ m.valid
      BY <1>2 DEF Commanded, Say
    <2> QED
      BY <2>2, <2>3 DEF OneCall, Subjects
  <1>3. CASE c.verb # "remove"
    BY <1>1, <1>3 DEF Commanded, Say, OneCall, Subjects
  <1> QED
    BY <1>2, <1>3

LEMMA SentAsked ==
  ASSUME PromiseOK, NEW h \in Handlers, Sent(http[h])
  PROVE  LET q == http[h].corr IN
         /\ q \in Requests /\ StageIs(q)
         /\ asked[q] # NoCommand =>
              /\ asked[q] \in Commanded(http[h].call) /\ OneCall(asked[q])
              /\ asked[q].subject \in {"READ", "DELETE"} => asked[q].valid
         /\ \A m \in wire : m.corr = q => m.command.subject \in Subjects
         /\ http[h].call \in Calls /\ ~Refused(http[h].call) /\ Single(http[h].call)
         /\ callBar[h] = http[h].call /\ workBar[h] = Stage(q) /\ resultBar[h] = Gives(q)
  <1> DEFINE q == http[h].corr
             c == http[h].call
  <1>1. q \in Requests
    BY SentUsed
  <1>2. StageIs(q)
    BY <1>1, Standing DEF PromiseOK, Own, OneOK, AgentInv
  <1>3. c \in Calls /\ ~Refused(c) /\ Single(c)
    BY DEF PromiseOK, SentOK, Sent
  <1>4. asked[q] # NoCommand => asked[q] \in Commanded(c)
    BY DEF PromiseOK, SentOK
  <1>5. \A m \in wire : m.corr = q => m.command \in Commanded(c)
    BY DEF PromiseOK, SentOK
  <1>6. callBar[h] = c /\ workBar[h] = Stage(q) /\ resultBar[h] = Gives(q)
    BY <1>3, Bars DEF BarsAre, BarIs
  <1> HIDE DEF q, c
  <1>7. asked[q] # NoCommand => OneCall(asked[q]) /\ (asked[q].subject \in {"READ", "DELETE"} => asked[q].valid)
    BY <1>3, <1>4, OneMessage
  <1>8. \A m \in wire : m.corr = q => m.command.subject \in Subjects
    BY <1>3, <1>5, OneMessage
  <1> QED
    BY <1>1, <1>2, <1>3, <1>4, <1>6, <1>7, <1>8 DEF q, c

LEMMA DeliverPromise ==
  ASSUME PromiseOK, PromiseOK', [RestNext]_restVars, NEW m \in wire, Deliver(m)
  PROVE  [Promise!Next]_(Promise!vars)
  <1>0. /\ http' = http /\ file' = file /\ UNCHANGED <<job, ret, mutex, replies>>
        /\ wire' = wire \ {m} /\ asked \in [Requests -> Commands \cup {NoCommand}]
        /\ asked' = [asked EXCEPT ![m.corr] = m.command]
        /\ queue' = IF m.command.subject \in Subjects THEN queue \cup {m.corr} ELSE queue
    BY DEF Deliver, Process, storageVars, PromiseOK, OneOK, AgentInv, JobsOK
  <1>1. /\ HandledOnce /\ WireOwn /\ HandledOnce' /\ WireOwn'
    BY DEF PromiseOK, Own, OneOK, AgentInv
  <1>2. ASSUME NEW k \in Handlers, Sent(http[k]) PROVE UNCHANGED <<Stage(http[k].corr), Gives(http[k].corr)>>
    <2>1. PICK q : q = http[k].corr
      OBVIOUS
    <2>2. q \in Requests /\ StageIs(q) /\ StageIs(q)' /\ (m.corr = q => m.command.subject \in Subjects)
      BY <1>1, <1>2, <2>1, SentAsked, StandingNext
    <2>3. CASE m.corr = q
      <3>1. OnTheWay(q) /\ OnTheWay(q)'
        BY <1>0, <2>2, <2>3 DEF OnTheWay
      <3> QED
        BY <1>0, <2>1, <2>2, <3>1 DEF StageIs
    <2>4. CASE m.corr # q
      <3>1. OnTheWay(q)' <=> OnTheWay(q)
        BY <1>0, <2>4 DEF OnTheWay
      <3>2. asked'[q] = asked[q]
        BY <1>0, <2>2, <2>4
      <3>3. UNCHANGED <<Stage(q), Gives(q)>>
        BY <1>0, <1>1, <2>2, <3>1, <3>2, StageSame
      <3> QED
        BY <1>0, <2>1, <3>3
    <2> QED
      BY <2>3, <2>4
  <1>3. \A k \in Handlers : Kept(k)
    BY <1>0, <1>2, BarKept DEF PromiseOK
  <1> QED
    BY <1>0, <1>3, AllKept

LEMMA ServePromise ==
  ASSUME Faults \subseteq {"kill"},
         PromiseOK, PromiseOK', [RestNext]_restVars, NEW t \in Threads, Serve(t)
  PROVE  [Promise!Next]_(Promise!vars)
  <1>0. /\ http' = http /\ wire' = wire /\ asked' = asked /\ Work(t)
        /\ JobsOK /\ job \in [Threads -> Job] /\ AgentInv /\ AgentInv'
        /\ OneOK /\ OneOK' /\ WireOwn /\ WireOwn' /\ HandledOnce /\ HandledOnce'
    BY ServeAsksNothing DEF Serve, PromiseOK, OneOK, Own, AgentInv, JobsOK
  <1>1. \E r \in Requests :
          /\ job[t].req \in {r, NoRequest} /\ job'[t].req \in {r, NoRequest}
          /\ asked[r] # NoCommand
          /\ Start(t, r) \/ (job[t].req = r /\ (Call(t) \/ Write(t) \/ Resume(t) \/ Reply(t)))
    <2>1. ASSUME NEW r \in Requests, Start(t, r) PROVE job[t].req = NoRequest /\ job'[t].req = r
      <3> DEFINE j == [NoJob EXCEPT !.step = "call", !.req = r, !.left = asked[r].ids,
                                    !.listing = asked[r].subject = "LIST"]
      <3>1. j.req = r /\ Fails(j).req = r /\ [j EXCEPT !.step = "reply"].req = r
        BY DEF NoJob, Fails
      <3> HIDE DEF j
      <3>2. job'[t] \in {j, Fails(j), [j EXCEPT !.step = "reply"]}
        BY <1>0, <2>1 DEF Start, j
      <3> QED
        BY <2>1, <3>1, <3>2, NoJobJob DEF Start
    <2>2. CASE Call(t) \/ Write(t) \/ Resume(t) \/ Reply(t)
      <3>1. job[t].step # "idle"
        BY <1>0, <2>2, StorageAssumption
           DEF Call, Write, WriteDone, WriteFailed, Resume, Reply, AgentInv, HolderOK
      <3>2. job[t].req \in Requests
        BY <1>0, <3>1 DEF JobsOK, JobOK
      <3>3. job'[t].req \in {job[t].req, NoRequest}
        BY <1>0, <2>2, ResumeReq, NoJobJob DEF Call, Write, agentVars, Reply, Continue, Job
      <3>4. asked[job[t].req] # NoCommand
        BY <1>0, <3>2 DEF HandledOnce, Workers
      <3> QED
        BY <2>2, <3>2, <3>3, <3>4
    <2>3. ASSUME NEW r \in Requests, Start(t, r) PROVE asked[r] # NoCommand
      BY <1>0, <2>3 DEF HandledOnce, Start
    <2> QED
      BY <1>0, <2>1, <2>2, <2>3 DEF Work
  <1>2. PICK r \in Requests :
          /\ job[t].req \in {r, NoRequest} /\ job'[t].req \in {r, NoRequest}
          /\ asked[r] # NoCommand
          /\ Start(t, r) \/ (job[t].req = r /\ (Call(t) \/ Write(t) \/ Resume(t) \/ Reply(t)))
    BY <1>1
  <1>3. ASSUME NEW k \in Handlers, Sent(http[k]) => http[k].corr # r PROVE Kept(k)
    <2>1. ASSUME Sent(http[k]) PROVE UNCHANGED <<Stage(http[k].corr), Gives(http[k].corr)>>
      <3>1. PICK q : q = http[k].corr
        OBVIOUS
      <3>2. q \in Requests /\ q # r
        BY <1>3, <2>1, <3>1, SentUsed
      <3>3. job[t].req # q /\ job'[t].req # q
        BY <1>2, <3>2, AgentAssumption
      <3>4. UNCHANGED <<Stage(q), Gives(q)>>
        BY <1>0, <3>2, <3>3, OthersStay
      <3> QED
        BY <1>0, <3>1, <3>4
    <2> QED
      BY <1>0, <2>1, BarKept DEF PromiseOK
  <1>4. CASE \E h \in Handlers : Sent(http[h]) /\ http[h].corr = r
    <2>1. PICK h \in Handlers : Sent(http[h]) /\ http[h].corr = r
      BY <1>4
    <2>2. \A k \in Handlers \ {h} : Kept(k)
      <3>1. \A k \in Handlers \ {h} : Sent(http[k]) => http[k].corr # r
        BY <2>1 DEF PromiseOK, Own, HandlersOwn, Sent
      <3> QED
        BY <1>3, <3>1
    <2>3. /\ asked[r] \in Commanded(http[h].call) /\ OneCall(asked[r])
          /\ asked[r].subject \in {"READ", "DELETE"} => asked[r].valid
          /\ http[h].call \in Calls /\ ~Refused(http[h].call) /\ Single(http[h].call)
          /\ callBar[h] = http[h].call /\ workBar[h] = Stage(r) /\ resultBar[h] = Gives(r)
      BY <1>2, <2>1, SentAsked
    <2>4. /\ UNCHANGED <<callBar[h], givenBar[h]>> /\ workBar'[h] = Stage(r)' /\ resultBar'[h] = Gives(r)'
      <3>1. PICK p : p = http[h]
        OBVIOUS
      <3>2. p = http'[h] /\ Sent(p) /\ p.corr = r
        BY <1>0, <2>1, <3>1
      <3>5. BarIs(h) /\ BarIs(h)'
        BY Bars, BarsNext DEF BarsAre
      <3>3. UNCHANGED <<callBar[h], givenBar[h]>>
        BY <3>1, <3>2, <3>5 DEF BarIs
      <3>4. workBar'[h] = Stage(p.corr)' /\ resultBar'[h] = Gives(p.corr)'
        BY <3>2, <3>5 DEF BarIs
      <3> QED
        BY <3>2, <3>3, <3>4
    <2>5. \/ Moves(r)
          \/ Stage(r) = "did" /\ Stage(r)' = "gone" /\ Gives(r)' = Unanswered /\ file' = file
      BY <1>0, <1>2, <2>3, StartMoves, CallMoves, WriteMoves, ResumeMoves, ReplyMoves
    <2>6. CASE UNCHANGED <<file, Stage(r), Gives(r)>>
      <3>1. Kept(h)
        BY <2>3, <2>4, <2>6 DEF Kept
      <3> QED
        BY <2>2, <2>6, <3>1, AllKept
    <2>7. CASE Stage(r) = "asked" /\ Stage(r)' = "did" /\ Does(asked[r], file, file', Gives(r)')
      <3>1. \E x \in Promise!Effects(callBar[h], file) : file' = x.db /\ resultBar'[h] = x.answer
        BY <2>3, <2>4, <2>7, DoesPromise
      <3>2. Promise!Do(h)
        BY <2>2, <2>3, <2>4, <2>7, <3>1, ClientDone
      <3> QED
        BY <3>2 DEF Promise!Next
    <2>8. CASE Stage(r) = "did" /\ Stage(r)' = "gone" /\ Gives(r)' = Unanswered /\ file' = file
      <3>1. Unanswered = Promise!NoAnswer
        BY DEF Unanswered, Promise!NoAnswer, Promise!Answer
      <3>2. Promise!Forget({h})
        BY <2>2, <2>3, <2>4, <2>8, <3>1, ClientsForgotten
      <3> QED
        BY <3>2 DEF Promise!Next
    <2> QED
      BY <2>5, <2>6, <2>7, <2>8 DEF Moves
  <1>5. CASE \A h \in Handlers : Sent(http[h]) => http[h].corr # r
    <2>1. \A k \in Handlers : Kept(k)
      BY <1>3, <1>5
    <2>2. ~Changes(asked[r])
      BY <1>5 DEF PromiseOK, SendersKnown
    <2>3. file' = file
      <3>1. CASE Write(t)
        <4>1. mutex = t
          BY <3>1 DEF Write, WriteDone, WriteFailed
        <4>2. job[t].req = r
          BY <1>0, <1>2, <3>1, <4>1 DEF Start, NoJob, AgentInv, HolderOK
        <4> QED
          BY <1>0, <2>2, <4>1, <4>2 DEF AgentInv, HolderOK, Changes, Cmd
      <3>2. CASE Call(t)
        <4>1. ASSUME NEW db, NEW x, Return(t, db, x) \/ Begin(t, db, x) PROVE file' = file
          BY <4>1 DEF Return, Begin
        <4> QED
          BY <3>2, <4>1 DEF Call, Save, Remove, Keys, ById, InitThrows
      <3> QED
        BY <1>2, <3>1, <3>2 DEF Start, Resume, Reply, storageVars
    <2> QED
      BY <2>1, <2>3, AllKept
  <1> QED
    BY <1>4, <1>5

LEMMA DiePromise ==
  ASSUME Faults \subseteq {"kill"},
         PromiseOK, PromiseOK', [RestNext]_restVars, Die, UNCHANGED <<http, wire>>
  PROVE  [Promise!Next]_(Promise!vars)
  <1>0. /\ queue' = {} /\ \A t \in Threads : job'[t] = NoJob
        /\ asked' = asked /\ replies' = replies
        /\ HandledOnce /\ WireOwn /\ HandledOnce' /\ WireOwn'
        /\ OneOK /\ Inv /\ JobsOK /\ HolderOK /\ job \in [Threads -> Job]
    BY DEF Die, PromiseOK, OneOK, Own, AgentInv, JobsOK
  <1>1. Unanswered = Promise!NoAnswer
    BY DEF Unanswered, Promise!NoAnswer, Promise!Answer
  <1>2. ASSUME NEW q \in Requests
        PROVE  \/ UNCHANGED <<Stage(q), Gives(q)>>
               \/ Stage(q) \in {"asked", "did"} /\ Stage(q)' = "gone" /\ Gives(q)' = Unanswered
    <2>1. StageIs(q) /\ StageIs(q)'
      BY <1>0, Standing, StandingNext
    <2>2. Workers(q)' = {}
      BY <1>0, NoJobJob, AgentAssumption DEF Workers
    <2>3. CASE \E m \in wire : m.corr = q
      BY <2>1, <2>3 DEF StageIs, OnTheWay
    <2>4. CASE replies[q] # <<>>
      BY <1>0, <2>1, <2>4 DEF StageIs
    <2>5. CASE (\A m \in wire : m.corr # q) /\ replies[q] = <<>>
      <3>1. ~OnTheWay(q)'
        BY <1>0, <2>5 DEF OnTheWay
      <3>2. Stage(q)' = "gone" /\ Gives(q)' = Unanswered
        BY <1>0, <2>1, <2>2, <2>5, <3>1 DEF StageIs
      <3> QED
        BY <3>2 DEF Stage, Gives
    <2> QED
      BY <2>3, <2>4, <2>5
  <1> DEFINE S == {h \in Handlers : Sent(http[h]) /\ ~UNCHANGED <<Stage(http[h].corr), Gives(http[h].corr)>>}
  <1>3. \A k \in Handlers \ S : Kept(k)
    BY BarKept DEF PromiseOK
  <1>4. ASSUME NEW h \in S
        PROVE  /\ UNCHANGED <<callBar[h], givenBar[h]>>
               /\ workBar[h] \in {"asked", "did"} /\ workBar'[h] = "gone"
               /\ resultBar'[h] = Promise!NoAnswer
    <2>1. PICK p : p = http[h]
      OBVIOUS
    <2>2. p = http'[h] /\ Sent(p) /\ p.corr \in Requests
      BY <2>1, SentUsed
    <2>3. Stage(p.corr) \in {"asked", "did"} /\ Stage(p.corr)' = "gone" /\ Gives(p.corr)' = Unanswered
      BY <1>2, <2>1, <2>2
    <2> QED
      BY <1>1, <2>1, <2>2, <2>3, Bars, BarsNext DEF BarsAre, BarIs
  <1>5. \/ file' = file
        \/ \E h \in S : workBar[h] = "asked"
                          /\ \E x \in Promise!Effects(callBar[h], file) : file' = x.db
    <2>1. CASE mutex # NoThread /\ file' = memory
      <3>1. PICK t \in Threads : mutex = t
        BY <1>0, <2>1 DEF Inv, TypeOK
      <3>0. job[t].step = "resume" /\ job[t].req \in Requests
        BY <1>0, <3>1 DEF HolderOK, JobsOK, JobOK
      <3>. PICK r \in Requests : r = job[t].req
        BY <3>0
      <3>2. job[t].step = "resume" /\ Changes(asked[r])
        BY <1>0, <3>1 DEF HolderOK, Cmd, Changes
      <3>3. PICK h \in Handlers : Sent(http[h]) /\ http[h].corr = r
        BY <3>2 DEF PromiseOK, SendersKnown
      <3>4. asked[r] # NoCommand
        BY <1>0, <3>2 DEF HandledOnce, Workers
      <3>5. /\ asked[r] \in Commanded(http[h].call) /\ OneCall(asked[r]) /\ StageIs(r)
            /\ http[h].call \in Calls /\ ~Refused(http[h].call) /\ Single(http[h].call)
            /\ callBar[h] = http[h].call /\ workBar[h] = Stage(r)
        BY <3>3, <3>4, SentAsked
      <3>6. Stage(r) = "asked"
        BY <3>1, <3>2, <3>5 DEF StageIs, Affected
      <3>7. Does(asked[r], file, file', Says(asked[r], pending))
        BY <1>0, <2>1, <3>1, <3>5, HeldDoes DEF Cmd
      <3>8. \E x \in Promise!Effects(callBar[h], file) : file' = x.db
        BY <3>5, <3>7, DoesPromise
      <3>9. Stage(r)' # Stage(r)
        <4>1. t \in Workers(r)
          BY DEF Workers
        <4>2. replies[r] = <<>> /\ \A m \in wire : m.corr # r
          BY <1>0, <3>2, <3>4, <4>1 DEF HandledOnce, WireOwn
        <4>3. Workers(r)' = {} /\ ~OnTheWay(r)'
          BY <1>0, <3>2, <4>2, NoJobJob, AgentAssumption DEF Workers, OnTheWay
        <4>4. StageIs(r)'
          BY <1>0, <3>2, StandingNext
        <4> QED
          BY <1>0, <3>6, <4>2, <4>3, <4>4 DEF StageIs
      <3>10. h \in S
        <4>1. PICK p : p = http[h]
          OBVIOUS
        <4>2. p = http'[h] /\ p.corr = r
          BY <3>3, <4>1
        <4>3. Stage(p.corr)' # Stage(p.corr)
          BY <3>9, <4>2
        <4> QED
          BY <3>3, <4>1, <4>2, <4>3
      <3> QED
        BY <3>5, <3>6, <3>8, <3>10
    <2> QED
      BY <2>1 DEF Die, Crash
  <1>6. Promise!Forget(S)
    <2>1. S \in SUBSET Handlers
      OBVIOUS
    <2> HIDE DEF S
    <2> QED
      BY <1>3, <1>4, <1>5, <2>1, ClientsForgotten
  <1> QED
    BY <1>6 DEF Promise!Next

LEMMA RestPromiseStep ==
  ASSUME Faults \subseteq {"kill"}
  PROVE  PromiseOK /\ PromiseOK' /\ [RestNext]_restVars => [Promise!Next]_(Promise!vars)
  <1> SUFFICES ASSUME PromiseOK, PromiseOK', [RestNext]_restVars PROVE [Promise!Next]_(Promise!vars)
    OBVIOUS
  <1>1. CASE UNCHANGED restVars
    <2>1. UNCHANGED <<http, file, vars>> /\ wire \subseteq wire' /\ http' = http
      BY <1>1 DEF restVars, vars, storageVars
    <2>2. ASSUME NEW k \in Handlers PROVE Kept(k)
      BY <2>1, BarKept, QuietStage, SentUsed DEF PromiseOK
    <2> QED
      BY <2>1, <2>2, AllKept
  <1> QED
    BY <1>1, OpenPromise, HandlePromise, DeliverPromise, ServePromise, DiePromise DEF RestNext

LEMMA PromiseAlways ==
  ASSUME Faults \subseteq {"kill"}
  PROVE  RestSpec => []PromiseOK
  <1>1. RestInit => SentOK /\ SendersKnown
    <2>1. NoHttp.step = "idle" /\ ~Changes(NoCommand)
      BY DEF NoHttp, NoCommand, Changes
    <2> QED
      BY <2>1 DEF RestInit, AgentInit, SentOK, SendersKnown, Sent
  <1>2. RestInv /\ RestInv' /\ OneOK /\ Own /\ Own' /\ SentOK /\ SendersKnown /\ [RestNext]_restVars
          => SentOK' /\ SendersKnown'
    BY SentOKStep, SendersKnownStep DEF RestInv, OneOK, AgentInv
  <1>3. RestSpec => AgentSpec /\ []RestInv
    BY RestUsesAgent
  <1>4. AgentSpec => []OneOK
    BY OneAlways
  <1>5. RestSpec => []Own
    BY HandlersAskTheirOwn
  <1> QED
    BY <1>1, <1>2, <1>3, <1>4, <1>5, PTL DEF RestSpec, PromiseOK

(* For every number of handlers, calls, workers, requests and ids, and     *)
(* whenever the agent is killed, a call of the clients that is one message *)
(* takes effect at most once, after it was made and before it is answered, *)
(* and is answered with what its effect gave: the handlers (rest/src), the *)
(* bus wrapper, Task::operator(), the jobs and Storage implement Remote,   *)
(* whatever the type is that GET converts an id to.                        *)
THEOREM RestImplementsRemote ==
  ASSUME Faults \subseteq {"kill"}
  PROVE  RestSpec => ImplementsRemote
  <1>1. RestInit => Promise!Init
    <2> SUFFICES ASSUME RestInit PROVE Promise!Init
      OBVIOUS
    <2>1. file \in {d \in Promise!DbObj : Promise!Sound(d)}
      BY StorageAssumption, SamePromise DEF RestInit, AgentInit, Init
    <2>2. Unanswered = Promise!NoAnswer
      BY DEF Unanswered, Promise!NoAnswer, Promise!Answer
    <2>3. ASSUME NEW k \in Handlers
          PROVE  /\ callBar[k] = NoCall /\ workBar[k] = "none"
                 /\ resultBar[k] = Promise!NoAnswer /\ givenBar[k] = Promise!NoAnswer
      <3>1. http[k] = NoHttp /\ BarIs(k)
        BY Bars DEF RestInit, BarsAre
      <3>2. NoHttp.call = NoCall /\ NoHttp.step = "idle" /\ Single(NoCall)
        BY DEF NoHttp, NoCall, Single
      <3>3. GivenOf(NoHttp) = Unanswered
        BY <3>2 DEF GivenOf
      <3> QED
        BY <2>2, <3>1, <3>2, <3>3 DEF BarIs
    <2> QED
      BY <2>1, <2>3, Bars DEF BarsAre, Promise!Init
  <1>2. PromiseOK /\ PromiseOK' /\ [RestNext]_restVars => [Promise!Next]_(Promise!vars)
    BY RestPromiseStep
  <1>3. RestSpec => []PromiseOK
    BY PromiseAlways
  <1> QED
    BY <1>1, <1>2, <1>3, PTL DEF RestSpec, ImplementsRemote, Promise!Spec

-----------------------------------------------------------------------------
(* What is reported as removed was removed while its call ran.             *)

\* Only a removal removes.
RemovesOnly ==
  /\ \A t \in Threads : job[t].removed # {} =>
       job[t].req \in Requests /\ Cmd(t).subject = "DELETE"
  /\ \A r \in Requests : \A a \in Answers(r) : a.removed # {} => asked[r].subject = "DELETE"

\* The group of the call of worker t is out of the memory.
Dropped(t) == Removing(t) /\ (mutex = t \/ ret[t].status = "ok")

\* The handler that waits for a removal has seen it.
LostOK ==
  \A h \in Handlers :
    /\ \A t \in Threads : Waits(h, job[t].req) =>
         /\ job[t].removed \subseteq span[h].lost
         /\ Dropped(t) => Head(job[t].left) \in span[h].lost
    /\ \A r \in Requests : Waits(h, r) => \A a \in Answers(r) : a.removed \subseteq span[h].lost

\* What the clients were told is removed.
ReportsOK ==
  \A h \in Handlers :
    /\ http[h].removed \subseteq span[h].lost
    /\ http[h].removed # {} => http[h].call.verb = "remove" /\ http[h].status = "ok"

LEMMA ResumeRemoves ==
  ASSUME JobsOK, NEW t \in Threads, Resume(t), NEW i \in job'[t].removed
  PROVE  /\ job'[t].req = job[t].req
         /\ i \in job[t].removed \/ (Dropped(t) /\ i = Head(job[t].left))
  <1>1. job[t] \in Job
    BY DEF JobsOK
  <1>2. ASSUME NEW k, Continue(t, k) PROVE job'[t] = k
    BY <1>2 DEF Continue, JobsOK
  <1>3. ASSUME NEW j \in Job
        PROVE  /\ Advance(j).req = j.req /\ Advance(j).removed = j.removed
               /\ Fails(j).req = j.req /\ Fails(j).removed = j.removed
    BY DEF Advance, Fails, Job
  <1>4. NoJob.removed = {}
    BY DEF NoJob
  <1>5. CASE AfterSave(t)
    <2> DEFINE k == [job[t] EXCEPT !.step = "reply", !.out = ret[t].groups]
    <2>1. k.req = job[t].req /\ k.removed = job[t].removed
      BY <1>1 DEF Job
    <2> HIDE DEF k
    <2>2. Continue(t, k) \/ Continue(t, Fails(job[t]))
      BY <1>5 DEF AfterSave, k
    <2> QED
      BY <1>1, <1>2, <1>3, <2>1, <2>2
  <1>6. CASE AfterRemove(t)
    <2> DEFINE x == Head(job[t].left)
               k == [job[t] EXCEPT !.removed = @ \cup {x}]
    <2>1. /\ Advance(k).req = job[t].req
          /\ Advance(k).removed = job[t].removed \cup {x}
      BY <1>1 DEF Advance, Job
    <2>2. job[t].step = "resume"
      BY DEF Resume
    <2> HIDE DEF k
    <2>3. \/ job'[t] = Advance(job[t])
          \/ ret[t].status = "ok" /\ job'[t] = Advance(k)
      BY <1>2, <1>6 DEF AfterRemove, k
    <2>4. Cmd(t).subject = "DELETE"
      BY <1>6 DEF AfterRemove
    <2> QED
      BY <1>1, <1>3, <2>1, <2>2, <2>3, <2>4 DEF Dropped, Removing
  <1>7. CASE AfterIds(t)
    <2> DEFINE J(ids) == [job[t] EXCEPT !.listing = FALSE, !.left = ids,
                                        !.step = IF ids = <<>> THEN "reply" ELSE "call"]
    <2>1. \A ids : J(ids).req = job[t].req /\ J(ids).removed = job[t].removed
      BY <1>1 DEF Job
    <2>2. PICK ids : Continue(t, J(ids))
      BY <1>7 DEF AfterIds
    <2> HIDE DEF J
    <2> QED
      BY <1>2, <2>1, <2>2
  <1>8. CASE AfterById(t)
    <2> DEFINE k == [job[t] EXCEPT !.out = @ \cup ret[t].groups]
    <2>1. Advance(k).req = job[t].req /\ Advance(k).removed = job[t].removed
      BY <1>1 DEF Advance, Job
    <2> HIDE DEF k
    <2>2. Continue(t, Advance(k)) \/ Continue(t, Fails(job[t]))
      BY <1>8 DEF AfterById, k
    <2> QED
      BY <1>1, <1>2, <1>3, <2>1, <2>2
  <1>9. CASE AfterResolve(t)
    BY <1>1, <1>2, <1>3, <1>9 DEF AfterResolve
  <1>10. CASE Escape(t)
    BY <1>2, <1>4, <1>10 DEF Escape
  <1> QED
    BY <1>5, <1>6, <1>7, <1>8, <1>9, <1>10 DEF Resume

\* A worker reports what it reported, or what its call removed.
LEMMA WorkerRemoves ==
  ASSUME AgentInv, [AgentNext]_vars, NEW t \in Threads, NEW i \in job'[t].removed
  PROVE  /\ job'[t].req = job[t].req
         /\ i \in job[t].removed \/ (Dropped(t) /\ i = Head(job[t].left))
  <1>0. Inv /\ JobsOK /\ job[t] \in Job
    BY DEF AgentInv, JobsOK
  <1>1. NoJob.removed = {}
    BY DEF NoJob
  <1>2. ASSUME NEW r \in Requests, Start(t, r) PROVE FALSE
    <2> DEFINE c == asked[r]
               j == [NoJob EXCEPT !.step = "call", !.req = r, !.left = c.ids,
                                  !.listing = c.subject = "LIST"]
    <2>1. j.removed = {} /\ Fails(j).removed = {} /\ [j EXCEPT !.step = "reply"].removed = {}
      BY DEF Fails, NoJob
    <2> HIDE DEF j
    <2>2. job'[t] \in {j, Fails(j), [j EXCEPT !.step = "reply"]}
      BY <1>0, <1>2 DEF Start, JobsOK, j
    <2> QED
      BY <2>1, <2>2
  <1>3. CASE Call(t)
    <2>1. job'[t] = [job[t] EXCEPT !.step = "resume"]
      BY <1>0, <1>3 DEF Call, JobsOK
    <2> QED
      BY <1>0, <2>1 DEF Job
  <1>4. CASE Write(t)
    BY <1>4 DEF Write, agentVars
  <1>5. CASE Reply(t) \/ Die
    BY <1>0, <1>1, <1>5 DEF Reply, Die, JobsOK
  <1> QED
    BY <1>0, <1>2, <1>3, <1>4, <1>5, ResumeRemoves, EachWorker

LEMMA RemovesOnlyStep == AgentInv /\ RemovesOnly /\ [AgentNext]_vars => RemovesOnly'
  <1> SUFFICES ASSUME AgentInv, RemovesOnly, [AgentNext]_vars
               PROVE  /\ \A t \in Threads : job'[t].removed # {} =>
                           job'[t].req \in Requests /\ Cmd(t)'.subject = "DELETE"
                      /\ \A r \in Requests : \A a \in Answers(r)' :
                           a.removed # {} => asked'[r].subject = "DELETE"
    BY DEF RemovesOnly
  <1>0. Inv /\ JobsOK /\ HandledOnce /\ RepliesOK
    BY DEF AgentInv
  <1>1. ASSUME NEW t \in Threads, job'[t].removed # {}
        PROVE  job'[t].req \in Requests /\ Cmd(t)'.subject = "DELETE"
    <2>1. PICK i : i \in job'[t].removed
      BY <1>1
    <2>2. job'[t].req = job[t].req /\ (i \in job[t].removed \/ Dropped(t))
      BY <2>1, WorkerRemoves
    <2>3. Cmd(t).subject = "DELETE" /\ job[t].req \in Requests
      BY <1>0, <2>2 DEF RemovesOnly, Dropped, Removing, JobsOK, JobOK
    <2>5. asked'[job'[t].req] = asked[job'[t].req]
      BY <1>0, <2>2, <2>3, CmdStays
    <2> QED
      BY <2>2, <2>3, <2>5 DEF Cmd
  <1>2. ASSUME NEW r \in Requests, NEW a \in Answers(r)', a.removed # {}
        PROVE  asked'[r].subject = "DELETE"
    <2>1. ASSUME NEW t \in Threads, Reply(t), job[t].req = r, a = ReplyOf(job[t])
          PROVE  asked[r].subject = "DELETE"
      BY <1>2, <2>1 DEF RemovesOnly, ReplyOf, Cmd
    <2>2. asked[r].subject = "DELETE"
      BY <1>0, <1>2, <2>1, NewAnswers DEF RemovesOnly
    <2>3. asked[r] # NoCommand
      BY <2>2 DEF NoCommand
    <2> QED
      BY <1>0, <2>2, <2>3, AskedStays
  <1> QED
    BY <1>1, <1>2

\* A worker waits for a call from where it makes it to where it goes on.
LEMMA Resuming ==
  ASSUME AgentInv, [AgentNext]_vars, NEW t \in Threads, job'[t].step = "resume"
  PROVE  \/ Call(t)
         \/ /\ job'[t] = job[t]
            /\ Write(t) \/ (ret'[t] = ret[t] /\ (mutex' = t <=> mutex = t))
  <1>0. Inv /\ JobsOK /\ job[t] \in Job
    BY DEF AgentInv, JobsOK
  <1>1. ASSUME NEW r \in Requests, Start(t, r) PROVE FALSE
    <2> DEFINE c == asked[r]
               j == [NoJob EXCEPT !.step = "call", !.req = r, !.left = c.ids,
                                  !.listing = c.subject = "LIST"]
    <2>1. j.step = "call" /\ Fails(j).step = "reply" /\ [j EXCEPT !.step = "reply"].step = "reply"
      BY DEF Fails, NoJob
    <2> HIDE DEF j
    <2>2. job'[t] \in {j, Fails(j), [j EXCEPT !.step = "reply"]}
      BY <1>0, <1>1 DEF Start, JobsOK, j
    <2> QED
      BY <2>1, <2>2
  <1>2. CASE Resume(t)
    <2>1. ASSUME NEW j, j = job[t] \/ (\E x : j = [job[t] EXCEPT !.out = x])
                              \/ (\E x : j = [job[t] EXCEPT !.removed = x])
          PROVE  Advance(j).step # "resume"
      <3>1. "step" \in DOMAIN j /\ j.left = job[t].left
        BY <1>0, <2>1 DEF Job
      <3>2. PICK s : s = IF Len(j.left) > 1 THEN "call" ELSE "reply"
        OBVIOUS
      <3>3. Advance(j) = [j EXCEPT !.step = s, !.left = Tail(j.left)]
        BY <3>2 DEF Advance
      <3> QED
        BY <1>0, <2>1, <3>1, <3>2, <3>3 DEF Job
    <2>2. ASSUME NEW j, Continue(t, j) PROVE job'[t] = j
      BY <1>0, <2>2 DEF Continue, JobsOK
    <2>3. Fails(job[t]).step = "reply" /\ NoJob.step = "idle"
      BY <1>0 DEF Fails, NoJob, Job
    <2>4. CASE AfterSave(t)
      <3>1. [job[t] EXCEPT !.step = "reply", !.out = ret[t].groups].step = "reply"
        BY <1>0 DEF Job
      <3> QED
        BY <2>2, <2>3, <2>4, <3>1 DEF AfterSave
    <2>5. CASE AfterRemove(t)
      <3> DEFINE k == [job[t] EXCEPT !.removed = @ \cup {Head(job[t].left)}]
      <3>1. Advance(k).step # "resume"
        BY <2>1
      <3> HIDE DEF k
      <3>2. Continue(t, Advance(k)) \/ Continue(t, Advance(job[t]))
        BY <2>5 DEF AfterRemove, k
      <3> QED
        BY <2>1, <2>2, <3>1, <3>2
    <2>6. CASE AfterIds(t)
      <3> DEFINE J(ids) == [job[t] EXCEPT !.listing = FALSE, !.left = ids,
                                          !.step = IF ids = <<>> THEN "reply" ELSE "call"]
      <3>1. \A ids : J(ids).step # "resume"
        BY <1>0 DEF Job
      <3>2. PICK ids : Continue(t, J(ids))
        BY <2>6 DEF AfterIds
      <3> HIDE DEF J
      <3> QED
        BY <2>2, <3>1, <3>2
    <2>7. CASE AfterById(t)
      <3> DEFINE k == [job[t] EXCEPT !.out = @ \cup ret[t].groups]
      <3>1. Advance(k).step # "resume"
        BY <2>1
      <3> HIDE DEF k
      <3>2. Continue(t, Advance(k)) \/ Continue(t, Fails(job[t]))
        BY <2>7 DEF AfterById, k
      <3> QED
        BY <2>2, <2>3, <3>1, <3>2
    <2>8. CASE AfterResolve(t)
      BY <2>1, <2>2, <2>3, <2>8 DEF AfterResolve
    <2>9. CASE Escape(t)
      BY <2>2, <2>3, <2>9 DEF Escape
    <2> QED
      BY <1>2, <2>4, <2>5, <2>6, <2>7, <2>8, <2>9 DEF Resume
  <1>3. CASE Write(t)
    BY <1>3 DEF Write, agentVars
  <1>4. CASE Reply(t) \/ Die
    BY <1>0, <1>4, NoJobJob DEF Reply, Die, JobsOK
  <1> QED
    BY <1>0, <1>1, <1>2, <1>3, <1>4, EachWorker

\* A call that drops a group drops it before the eyes of who asked for it.
LEMMA CallLoses ==
  ASSUME Faults \subseteq {"kill"}, AgentInv, DurableWhenIdle, NEW t \in Threads, Call(t),
         Dropped(t)'
  PROVE  Head(job'[t].left) \in Ids(Shown) \ Ids(Shown')
  <1>0. Inv /\ JobsOK /\ HandledOnce /\ job[t] \in Job /\ mutex = NoThread
    BY CallAlone DEF AgentInv, JobsOK
  <1>1. job'[t] = [job[t] EXCEPT !.step = "resume"] /\ UNCHANGED asked
    BY <1>0 DEF Call, JobsOK
  <1>2. job'[t].left = job[t].left /\ job'[t].req = job[t].req
    BY <1>0, <1>1 DEF Job
  <1>3. Cmd(t).subject = "DELETE"
    BY <1>1, <1>2 DEF Dropped, Removing, Cmd
  <1>4. mutex' = t /\ Clear(Head(job[t].left), memory')
    BY <1>0, <1>3, CallRemoves DEF Dropped
  <1>5. Drops(Head(job[t].left), file, memory', pending')
    BY <1>3, <1>4, CallChanges
  <1>6. inited'
    BY DEF Call, Save, Remove, Keys, ById, InitThrows, Return, Begin
  <1>7. Shown = file /\ Shown' = memory'
    BY <1>0, <1>6 DEF Shown, DurableWhenIdle
  <1>8. Head(job[t].left) \in Ids(file)
    BY <1>5 DEF Drops, WithId, Ids
  <1>9. Head(job[t].left) \notin Ids(memory')
    BY <1>4 DEF Clear, Ids
  <1> QED
    BY <1>2, <1>7, <1>8, <1>9

LEMMA LostOKStep ==
  ASSUME Faults \subseteq {"kill"}
  PROVE  CallsOK /\ DurableWhenIdle /\ LostOK /\ Own' /\ ServedOK' /\ [RestNext]_restVars => LostOK'
  <1> SUFFICES ASSUME CallsOK, DurableWhenIdle, LostOK, Own', ServedOK', [RestNext]_restVars,
                      NEW h \in Handlers
               PROVE  /\ \A t \in Threads : Waits(h, job[t].req)' =>
                           /\ job'[t].removed \subseteq span'[h].lost
                           /\ Dropped(t)' => Head(job'[t].left) \in span'[h].lost
                      /\ \A r \in Requests : Waits(h, r)' => \A a \in Answers(r)' :
                           a.removed \subseteq span'[h].lost
    BY DEF LostOK
  <1>0. RestInv /\ Own /\ AgentInv /\ Inv /\ JobsOK /\ HandledOnce /\ RepliesOK
    BY DEF CallsOK, ServedOK, AgentInv
  <1>1. [AgentNext]_vars /\ HttpOK'
    BY <1>0, RestStep
  <1>3. ASSUME NEW r, Waits(h, r)' PROVE r \in Requests
    BY <1>1, <1>3 DEF Waits, HttpOK, Http, Own, QuestionOwn
  <1>4. ASSUME NEW r, Waits(h, r)', asked[r] # NoCommand
        PROVE  Waits(h, r) /\ span[h].lost \subseteq span'[h].lost
    <2>1. Waits(h, r)
      BY <1>0, <1>3, <1>4, Waiting
    <2> QED
      BY <2>1, RestWatches, SpanWidens DEF Waits, Wider, restVars
  <1>5. ASSUME NEW t \in Threads, NEW r, r = job'[t].req, Waits(h, r)'
        PROVE  asked[r] # NoCommand /\ r \in Requests
    <2>1. r \in Requests /\ asked'[r] # NoCommand
      BY <1>3, <1>5 DEF ServedOK, AgentInv, HandledOnce, Workers
    <2> QED
      BY <1>0, <1>1, <1>5, <2>1, CmdStays
  <1>6. ASSUME NEW t \in Threads, Waits(h, job[t].req)', NEW i \in job'[t].removed
        PROVE  i \in span'[h].lost
    <2>1. PICK r : r = job'[t].req
      OBVIOUS
    <2>2. Waits(h, r) /\ span[h].lost \subseteq span'[h].lost
      BY <1>4, <1>5, <1>6, <2>1
    <2>3. r = job[t].req /\ (i \in job[t].removed \/ (Dropped(t) /\ i = Head(job[t].left)))
      BY <1>0, <1>1, <1>6, <2>1, WorkerRemoves
    <2> QED
      BY <2>2, <2>3 DEF LostOK
  <1>7. ASSUME NEW t \in Threads, Waits(h, job[t].req)', Dropped(t)'
        PROVE  Head(job'[t].left) \in span'[h].lost
    <2>1. PICK r : r = job'[t].req
      OBVIOUS
    <2>2. Waits(h, r) /\ span[h].lost \subseteq span'[h].lost /\ asked'[r] = asked[r]
      BY <1>0, <1>1, <1>4, <1>5, <1>7, <2>1, CmdStays
    <2>3. ASSUME job'[t] = job[t], Dropped(t) PROVE Head(job'[t].left) \in span'[h].lost
      BY <2>1, <2>2, <2>3 DEF LostOK
    <2>4. CASE job'[t] = job[t] /\ ret'[t] = ret[t] /\ (mutex' = t <=> mutex = t)
      <3>1. Dropped(t)
        BY <1>7, <2>1, <2>2, <2>4 DEF Dropped, Removing, Cmd
      <3> QED
        BY <2>3, <2>4, <3>1
    <2>5. CASE Write(t)
      <3>1. job' = job /\ mutex = t /\ asked' = asked
        BY <2>5 DEF Write, WriteDone, WriteFailed, agentVars
      <3>2. Dropped(t)
        BY <1>7, <3>1 DEF Dropped, Removing, Cmd
      <3> QED
        BY <2>3, <3>1, <3>2
    <2>6. CASE Call(t)
      <3>1. Head(job'[t].left) \in Ids(Shown) \ Ids(Shown')
        BY <1>0, <1>7, <2>6, CallLoses
      <3>2. Shown' # Shown
        BY <3>1
      <3>3. Watch
        BY <3>2, RestWatches DEF restVars, vars, storageVars, Shown
      <3> QED
        BY <2>2, <3>1, <3>3, SpanWidens DEF Waits
    <2>7. job'[t].step = "resume"
      BY <1>7 DEF Dropped, Removing
    <2> QED
      BY <1>0, <1>1, <2>4, <2>5, <2>6, <2>7, Resuming
  <1>8. ASSUME NEW r \in Requests, Waits(h, r)', NEW a \in Answers(r)'
        PROVE  a.removed \subseteq span'[h].lost
    <2>1. asked[r] # NoCommand
      <3>1. a \in Answers(r) => replies[r] # <<>>
        BY DEF Answers
      <3> QED
        BY <1>0, <1>1, <3>1, NewAnswers DEF HandledOnce, Workers
    <2>2. Waits(h, r) /\ span[h].lost \subseteq span'[h].lost
      BY <1>4, <1>8, <2>1
    <2>3. ASSUME NEW t \in Threads, job[t].req = r, a = ReplyOf(job[t])
          PROVE  a.removed \subseteq span[h].lost
      BY <2>2, <2>3 DEF LostOK, ReplyOf
    <2>4. a \in Answers(r) => a.removed \subseteq span[h].lost
      BY <2>2 DEF LostOK
    <2> QED
      BY <1>0, <1>1, <2>2, <2>3, <2>4, NewAnswers
  <1> QED
    BY <1>6, <1>7, <1>8

\* What a handler makes of an answer reports what the answer reports.
LEMMA OutcomeReports ==
  ASSUME NEW p \in Http, NEW a \in Answer, NEW q \in Outcomes(p, a)
  PROVE  /\ q.call = p.call
         /\ \/ q.removed = p.removed
            \/ p.call.verb # "list" /\ q.status = "ok" /\ q.removed = a.removed
  <1>1. ASSUME NEW s PROVE Ended(p, s).call = p.call /\ Ended(p, s).removed = p.removed
    BY DEF Ended, Http
  <1>2. CASE p.call.verb # "list" /\ q = [Ended(p, "ok") EXCEPT !.out = a.out, !.removed = a.removed]
    BY <1>2 DEF Ended, Http
  <1>3. ASSUME NEW x PROVE Gathered(p, x).call = p.call /\ Gathered(p, x).removed = p.removed
    BY DEF Gathered, Http
  <1>4. ASSUME NEW ids PROVE Listed(p, ids).call = p.call /\ Listed(p, ids).removed = p.removed
    BY DEF Listed, Ended, Http
  <1> QED
    BY <1>1, <1>2, <1>3, <1>4 DEF Outcomes

\* Only a call to remove asks for a removal.
LEMMA DeletesRemove ==
  ASSUME NEW p \in Http, AskOK(p), p.step = "wait", NEW c \in Message(p), c.subject = "DELETE"
  PROVE  p.call.verb = "remove"
  <1>1. ~p.listed
    BY DEF Message, Say
  <1>2. p.call.verb \in Verbs /\ c \in Commanded(p.call)
    BY <1>1, RestAssumption DEF AskOK, Message, HttpCall
  <1> QED
    BY <1>2 DEF Commanded, Say, Verbs

LEMMA ReportsOKStep == CallsOK /\ LostOK /\ RemovesOnly /\ ReportsOK /\ [RestNext]_restVars => ReportsOK'
  <1> SUFFICES ASSUME CallsOK, LostOK, RemovesOnly, ReportsOK, [RestNext]_restVars, NEW h \in Handlers
               PROVE  /\ http'[h].removed \subseteq span'[h].lost
                      /\ http'[h].removed # {} =>
                           http'[h].call.verb = "remove" /\ http'[h].status = "ok"
    BY DEF ReportsOK
  <1> DEFINE p == http[h]
  <1>0. /\ http \in [Handlers -> Http] /\ p \in Http /\ AskOK(p) /\ Collects(p, span[h])
        /\ p.removed \subseteq span[h].lost
        /\ p.removed # {} => p.call.verb = "remove" /\ p.status = "ok"
    BY DEF CallsOK, RestInv, HttpOK, CollectsOK, ReportsOK
  <1>1. p.step # "done" => p.removed = {}
    BY <1>0 DEF Collects
  <1>2. CASE http'[h] = http[h]
    <2>1. p.step \in {"send", "wait"} => p.removed = {}
      BY <1>1
    <2>2. p.step \notin {"send", "wait"} => span'[h] = span[h]
      BY <1>2, SpanStays
    <2> QED
      BY <1>0, <1>2, <2>1, <2>2
  <1>3. ASSUME NEW q, http'[h] = q, q.removed = {}
        PROVE  http'[h].removed = {}
    BY <1>3
  <1>4. ASSUME NEW c \in Calls, Open(h, c) PROVE http'[h].removed = {}
    <2> DEFINE o == [NoHttp EXCEPT !.call = c]
    <2>1. o.removed = {} /\ [o EXCEPT !.step = "send"].removed = {} /\ \A s : Ended(o, s).removed = {}
      BY DEF NoHttp, Ended
    <2> HIDE DEF o
    <2>2. \/ http'[h] = [o EXCEPT !.step = "send"]
          \/ \E s : http'[h] = Ended(o, s)
      BY <1>0, <1>4 DEF Open, o
    <2> QED
      BY <2>1, <2>2
  <1>5. CASE Send(h) \/ NarrowingThrows(h) \/ Timeout(h)
    <2>1. p.step # "done"
      BY <1>5 DEF Send, NarrowingThrows, Timeout
    <2>2. PICK q : q = http'[h]
      OBVIOUS
    <2>3. CASE Send(h)
      <3>1. PICK r : q = [p EXCEPT !.step = "wait", !.corr = r]
        BY <1>0, <2>2, <2>3 DEF Send
      <3>2. q.removed = p.removed
        BY <1>0, <3>1 DEF Http
      <3> QED
        BY <1>1, <2>1, <2>2, <3>2
    <2>4. ASSUME NEW s, q = Ended(p, s) PROVE q.removed = p.removed
      BY <1>0, <2>4 DEF Ended, Http
    <2>5. CASE NarrowingThrows(h) \/ Timeout(h)
      <3>1. \E s : q = Ended(p, s)
        BY <1>0, <2>2, <2>5 DEF NarrowingThrows, Timeout
      <3> QED
        BY <1>1, <2>1, <2>2, <2>4, <3>1
    <2> QED
      BY <1>5, <2>3, <2>5
  <1>6. ASSUME NEW r \in Requests, Receive(h, r), Waits(h, r), Watch
        PROVE  /\ http'[h].removed \subseteq span'[h].lost
               /\ http'[h].removed # {} => http'[h].call.verb = "remove" /\ http'[h].status = "ok"
    <2> DEFINE a == Head(replies[r])
    <2>1. replies[r] \in Seq(Answer) /\ replies[r] # <<>> /\ p.step = "wait"
      BY <1>6 DEF Receive, CallsOK, RestInv, RepliesOK
    <2>2. a \in Answer /\ a \in Answers(r)
      <3>1. Len(replies[r]) \in Nat /\ Len(replies[r]) # 0 /\ DOMAIN replies[r] = 1 .. Len(replies[r])
        BY <2>1, LenProperties, EmptySeq
      <3>2. a = replies[r][1] /\ 1 \in DOMAIN replies[r]
        BY <2>1, <3>1
      <3> QED
        BY <2>1, <3>2, HeadTailProperties DEF Answers
    <2>3. asked[r] \in Message(p)
      BY <1>6, <2>1 DEF CallsOK, ServedOK, AgentInv, HandledOnce, Own, QuestionOwn, Waits
    <2>4. a.removed \subseteq span[h].lost /\ (a.removed # {} => asked[r].subject = "DELETE")
      BY <1>6, <2>2 DEF LostOK, RemovesOnly
    <2>5. span[h].lost \subseteq span'[h].lost
      BY <1>6, <2>1, SpanWidens DEF Wider
    <2>6. PICK q \in Outcomes(p, a) : http'[h] = q
      BY <1>0, <1>6 DEF Receive
    <2> HIDE DEF a
    <2>7. /\ q.call = p.call
          /\ \/ q.removed = p.removed
             \/ q.status = "ok" /\ q.removed = a.removed
      BY <1>0, <2>2, OutcomeReports
    <2>8. a.removed # {} => p.call.verb = "remove"
      BY <1>0, <2>1, <2>3, <2>4, DeletesRemove
    <2> QED
      BY <1>1, <2>1, <2>4, <2>5, <2>6, <2>7, <2>8
  <1> QED
    BY <1>2, <1>4, <1>5, <1>6, EachHandler DEF CallsOK

-----------------------------------------------------------------------------
(* What is confirmed as saved was stored while its call ran.               *)

Saving(c) == c.subject \in {"CREATE", "UPDATE"}

\* A group that was saved was seen, if it is new or was there all the time.
Traced(s, c, groups) ==
  \A g \in groups : g.id \in s.kept \/ NoId \in IdsOf(c.groups) => g \in s.seen

\* What the call of worker t gives back, or is about to.
Handed(t) == IF mutex = t THEN pending.groups ELSE ret[t].groups

\* The handler that waits for a save has seen what it will be told.
StoredOK ==
  \A h \in Handlers :
    /\ \A t \in Threads : Waits(h, job[t].req) /\ Saving(Cmd(t)) =>
         /\ Traced(span[h], Cmd(t), job[t].out)
         /\ job[t].step = "resume" => Traced(span[h], Cmd(t), Handed(t))
    /\ \A r \in Requests : Waits(h, r) /\ Saving(asked[r]) =>
         \A a \in Answers(r) : Traced(span[h], asked[r], a.out)

LEMMA TracedMore ==
  ASSUME NEW s, NEW w, Wider(s, w), NEW c, NEW groups, Traced(s, c, groups)
  PROVE  Traced(w, c, groups)
  BY DEF Wider, Traced

\* A worker answers with what it had, or with what its call gave back.
LEMMA ResumeGives ==
  ASSUME JobsOK, NEW t \in Threads, Resume(t), NEW g \in job'[t].out
  PROVE  job'[t].req = job[t].req /\ g \in job[t].out \cup ret[t].groups
  <1>1. job[t] \in Job
    BY DEF JobsOK
  <1>2. ASSUME NEW k, Continue(t, k) PROVE job'[t] = k
    BY <1>2 DEF Continue, JobsOK
  <1>3. ASSUME NEW j \in Job
        PROVE  /\ Advance(j).req = j.req /\ Advance(j).out = j.out
               /\ Fails(j).req = j.req /\ Fails(j).out = {}
    BY DEF Advance, Fails, Job
  <1>4. NoJob.out = {}
    BY DEF NoJob
  <1>5. CASE AfterSave(t)
    <2> DEFINE k == [job[t] EXCEPT !.step = "reply", !.out = ret[t].groups]
    <2>1. k.req = job[t].req /\ k.out = ret[t].groups
      BY <1>1 DEF Job
    <2> HIDE DEF k
    <2>2. Continue(t, k) \/ Continue(t, Fails(job[t]))
      BY <1>5 DEF AfterSave, k
    <2> QED
      BY <1>1, <1>2, <1>3, <2>1, <2>2
  <1>6. CASE AfterRemove(t)
    <2> DEFINE k == [job[t] EXCEPT !.removed = @ \cup {Head(job[t].left)}]
    <2>1. Advance(k).req = job[t].req /\ Advance(k).out = job[t].out
      BY <1>1 DEF Advance, Job
    <2> HIDE DEF k
    <2>2. Continue(t, Advance(k)) \/ Continue(t, Advance(job[t]))
      BY <1>6 DEF AfterRemove, k
    <2> QED
      BY <1>1, <1>2, <1>3, <2>1, <2>2
  <1>7. CASE AfterIds(t)
    <2> DEFINE J(ids) == [job[t] EXCEPT !.listing = FALSE, !.left = ids,
                                        !.step = IF ids = <<>> THEN "reply" ELSE "call"]
    <2>1. \A ids : J(ids).req = job[t].req /\ J(ids).out = job[t].out
      BY <1>1 DEF Job
    <2>2. PICK ids : Continue(t, J(ids))
      BY <1>7 DEF AfterIds
    <2> HIDE DEF J
    <2> QED
      BY <1>2, <2>1, <2>2
  <1>8. CASE AfterById(t)
    <2> DEFINE k == [job[t] EXCEPT !.out = @ \cup ret[t].groups]
    <2>1. Advance(k).req = job[t].req /\ Advance(k).out = job[t].out \cup ret[t].groups
      BY <1>1 DEF Advance, Job
    <2> HIDE DEF k
    <2>2. Continue(t, Advance(k)) \/ Continue(t, Fails(job[t]))
      BY <1>8 DEF AfterById, k
    <2> QED
      BY <1>1, <1>2, <1>3, <2>1, <2>2
  <1>9. CASE AfterResolve(t)
    BY <1>1, <1>2, <1>3, <1>9 DEF AfterResolve
  <1>10. CASE Escape(t)
    BY <1>2, <1>4, <1>10 DEF Escape
  <1> QED
    BY <1>5, <1>6, <1>7, <1>8, <1>9, <1>10 DEF Resume

LEMMA WorkerGives ==
  ASSUME AgentInv, [AgentNext]_vars, NEW t \in Threads, NEW g \in job'[t].out
  PROVE  /\ job'[t].req = job[t].req
         /\ g \in job[t].out \/ (job[t].step = "resume" /\ g \in Handed(t))
  <1>0. Inv /\ JobsOK /\ job[t] \in Job
    BY DEF AgentInv, JobsOK
  <1>1. NoJob.out = {}
    BY DEF NoJob
  <1>2. ASSUME NEW r \in Requests, Start(t, r) PROVE FALSE
    <2> DEFINE c == asked[r]
               j == [NoJob EXCEPT !.step = "call", !.req = r, !.left = c.ids,
                                  !.listing = c.subject = "LIST"]
    <2>1. j.out = {} /\ Fails(j).out = {} /\ [j EXCEPT !.step = "reply"].out = {}
      BY DEF Fails, NoJob
    <2> HIDE DEF j
    <2>2. job'[t] \in {j, Fails(j), [j EXCEPT !.step = "reply"]}
      BY <1>0, <1>2 DEF Start, JobsOK, j
    <2> QED
      BY <2>1, <2>2
  <1>3. CASE Call(t)
    <2>1. job'[t] = [job[t] EXCEPT !.step = "resume"]
      BY <1>0, <1>3 DEF Call, JobsOK
    <2> QED
      BY <1>0, <2>1 DEF Job
  <1>4. CASE Write(t)
    BY <1>4 DEF Write, agentVars
  <1>5. CASE Reply(t) \/ Die
    BY <1>0, <1>1, <1>5 DEF Reply, Die, JobsOK
  <1>6. CASE Resume(t)
    <2>1. job[t].step = "resume" /\ mutex # t
      BY <1>6 DEF Resume
    <2> QED
      BY <1>0, <1>6, <2>1, ResumeGives DEF Handed
  <1> QED
    BY <1>0, <1>2, <1>3, <1>4, <1>5, <1>6, EachWorker

\* A save stores its group, or there is none of its id, neither before nor after.
LEMMA CallStores ==
  ASSUME AgentInv, NEW t \in Threads, Call(t), Saving(Cmd(t)), NEW g \in Handed(t)',
         g.id \in Ids(Shown') \/ NoId \in IdsOf(Cmd(t).groups)
  PROVE  g \in Shown'.groups
  <1>0. Inv /\ JobsOK /\ ValidOK /\ t # NoThread
    BY StorageAssumption DEF AgentInv
  <1>1. CASE InitThrows(t)
    <2>1. mutex' # t /\ ret'[t] = Result("exception", {})
      BY <1>0, <1>1 DEF InitThrows, Return, Inv, TypeOK
    <2> QED
      BY <2>1 DEF Handed, Result, Abstract!Result
  <1>2. ASSUME NEW b \in Cmd(t).groups, Save(t, b) PROVE g \in Shown'.groups
    <2>1. PICK db \in Opened : Begin(t, SaveTo(db, b), Abstract!SaveResult(db, b))
      BY <1>2 DEF Save
    <2>2. /\ Shown' = SaveTo(db, b) /\ mutex' = t
          /\ pending' = Abstract!SaveResult(db, b)
      BY <2>1 DEF Begin, Shown
    <2>3. g = Saved(db, b)
      BY <2>2 DEF Handed, Abstract!SaveResult, Abstract!Result, Abstract!Saved, Saved,
                  Abstract!NoId, NoId
    <2>4. CASE b.id = NoId
      BY <2>2, <2>3, <2>4 DEF SaveTo
    <2>5. CASE b.id # NoId
      <3>1. g = b
        BY <2>3, <2>5 DEF Saved
      <3>2. Cmd(t).groups = {b}
        BY <1>0, <1>2, AgentAssumption DEF Saving, Call, JobsOK, JobOK, ValidOK, Cmd
      <3>3. g.id \in Ids(SaveTo(db, b))
        BY <2>2, <2>5, <3>2 DEF IdsOf
      <3>4. SaveTo(db, b).groups = {IF x \in First(WithId(db, b.id)) THEN b ELSE x : x \in db.groups}
        BY <2>5 DEF SaveTo
      <3>5. PICK x \in db.groups :
              g.id = (IF x \in First(WithId(db, b.id)) THEN b ELSE x).id
        BY <3>3, <3>4 DEF Ids
      <3>6. x \in First(WithId(db, b.id))
        <4>1. x.id = b.id
          BY <3>1, <3>5 DEF First, WithId
        <4>2. x \in Group
          BY <1>0, OpenedSound DEF DbObj
        <4> QED
          BY <4>1, <4>2, GroupDbAssumption DEF First, WithId, Group
      <3>7. b \in {IF y \in First(WithId(db, b.id)) THEN b ELSE y : y \in db.groups}
        BY <3>5, <3>6
      <3> QED
        BY <2>2, <3>1, <3>4, <3>7
    <2> QED
      BY <2>4, <2>5
  <1> QED
    BY <1>1, <1>2 DEF Call, Saving

LEMMA StoredOKStep ==
  CallsOK /\ StoredOK /\ Own' /\ ServedOK' /\ [RestNext]_restVars => StoredOK'
  <1> SUFFICES ASSUME CallsOK, StoredOK, Own', ServedOK', [RestNext]_restVars,
                      NEW h \in Handlers
               PROVE  /\ \A t \in Threads : Waits(h, job[t].req)' /\ Saving(Cmd(t))' =>
                           /\ Traced(span'[h], Cmd(t)', job'[t].out)
                           /\ job'[t].step = "resume" => Traced(span'[h], Cmd(t)', Handed(t)')
                      /\ \A r \in Requests : Waits(h, r)' /\ Saving(asked'[r]) =>
                           \A a \in Answers(r)' : Traced(span'[h], asked'[r], a.out)
    BY DEF StoredOK
  <1>0. RestInv /\ Own /\ AgentInv /\ Inv /\ JobsOK /\ HandledOnce /\ RepliesOK
    BY DEF CallsOK, ServedOK, AgentInv
  <1>1. [AgentNext]_vars /\ HttpOK'
    BY <1>0, RestStep
  <1>2. ASSUME NEW r, Waits(h, r)' PROVE r \in Requests
    BY <1>1, <1>2 DEF Waits, HttpOK, Http, Own, QuestionOwn
  <1>3. ASSUME NEW r, Waits(h, r)', asked[r] # NoCommand
        PROVE  /\ Waits(h, r) /\ Wider(span[h], span'[h])
    <2>1. Waits(h, r)
      BY <1>0, <1>2, <1>3, Waiting
    <2> QED
      BY <2>1, RestWatches, SpanWidens DEF Waits, Wider, restVars
  <1>4. ASSUME NEW t \in Threads, NEW r, r = job'[t].req, Waits(h, r)'
        PROVE  /\ r \in Requests /\ asked[r] # NoCommand /\ asked'[r] = asked[r]
               /\ Waits(h, r) /\ Wider(span[h], span'[h]) /\ Cmd(t)' = asked[r]
    <2>1. r \in Requests /\ asked'[r] # NoCommand
      BY <1>2, <1>4 DEF ServedOK, AgentInv, HandledOnce, Workers
    <2>2. asked'[r] = asked[r]
      BY <1>0, <1>1, <1>4, <2>1, CmdStays
    <2> QED
      BY <1>3, <1>4, <2>1, <2>2 DEF Cmd
  <1>5. ASSUME NEW t \in Threads, Waits(h, job[t].req)', Saving(Cmd(t))'
        PROVE  Traced(span'[h], Cmd(t)', job'[t].out)
    <2>1. PICK r : r = job'[t].req
      OBVIOUS
    <2>2. Waits(h, r) /\ Wider(span[h], span'[h]) /\ Cmd(t)' = asked[r]
      BY <1>4, <1>5, <2>1
    <2>3. ASSUME NEW g \in job'[t].out PROVE Traced(span[h], asked[r], {g})
      <3>1. r = job[t].req /\ (g \in job[t].out \/ (job[t].step = "resume" /\ g \in Handed(t)))
        BY <1>0, <1>1, <2>1, <2>3, WorkerGives
      <3>2. Cmd(t) = asked[r] /\ Saving(Cmd(t))
        BY <1>5, <2>2, <3>1 DEF Cmd, Saving
      <3> QED
        BY <2>2, <3>1, <3>2 DEF StoredOK, Traced
    <2>4. Traced(span[h], asked[r], job'[t].out)
      BY <2>3 DEF Traced
    <2> QED
      BY <2>2, <2>4, TracedMore
  <1>6. ASSUME NEW t \in Threads, Waits(h, job[t].req)', Saving(Cmd(t))', job'[t].step = "resume"
        PROVE  Traced(span'[h], Cmd(t)', Handed(t)')
    <2>1. PICK r : r = job'[t].req
      OBVIOUS
    <2>2. Waits(h, r) /\ Wider(span[h], span'[h]) /\ Cmd(t)' = asked[r]
      BY <1>4, <1>6, <2>1
    <2>3. ASSUME job'[t] = job[t], Handed(t)' \subseteq Handed(t)
          PROVE  Traced(span'[h], Cmd(t)', Handed(t)')
      <3>1. Cmd(t) = asked[r] /\ Saving(Cmd(t))
        BY <1>6, <2>1, <2>2, <2>3 DEF Cmd, Saving
      <3>2. Traced(span[h], asked[r], Handed(t))
        BY <1>6, <2>1, <2>2, <2>3, <3>1 DEF StoredOK
      <3>3. Traced(span[h], asked[r], Handed(t)')
        BY <2>3, <3>2 DEF Traced
      <3> QED
        BY <2>2, <3>3, TracedMore
    <2>4. CASE job'[t] = job[t] /\ ret'[t] = ret[t] /\ (mutex' = t <=> mutex = t)
      <3>1. mutex = t => pending' = pending
        BY <1>0, <1>1, <2>4, StorageStep, HeldStays, StorageAssumption
      <3> QED
        BY <2>3, <2>4, <3>1 DEF Handed
    <2>5. CASE Write(t)
      <3>1. job' = job /\ mutex = t /\ mutex' = NoThread /\ t # NoThread
        BY <2>5, StorageAssumption DEF Write, WriteDone, WriteFailed, agentVars
      <3>2. PICK x : x = Result("write error", {})
        OBVIOUS
      <3>3. ret'[t] = pending \/ ret'[t] = x
        BY <1>0, <2>5, <3>2 DEF Write, WriteDone, WriteFailed, Inv, TypeOK
      <3>4. x.groups = {}
        BY <3>2 DEF Result, Abstract!Result
      <3> QED
        BY <2>3, <3>1, <3>3, <3>4 DEF Handed
    <2>6. CASE Call(t)
      <3>1. job' # job
        BY <1>0, <2>6 DEF Call, JobsOK, Job
      <3>2. Watch
        BY <3>1, RestWatches DEF restVars, vars, agentVars
      <3>3. span'[h].kept \subseteq Ids(Shown') /\ Shown'.groups \subseteq span'[h].seen
        BY <2>2, <3>2, SpanWidens DEF Waits
      <3>4. job'[t].req = job[t].req
        BY <1>0, <2>6 DEF Call, JobsOK, Job
      <3>5. Cmd(t) = asked[r] /\ Saving(Cmd(t))
        BY <1>6, <2>1, <2>2, <3>4 DEF Cmd, Saving
      <3> QED
        BY <1>0, <2>2, <2>6, <3>3, <3>5, CallStores DEF Traced
    <2> QED
      BY <1>0, <1>1, <1>6, <2>4, <2>5, <2>6, Resuming
  <1>7. ASSUME NEW r \in Requests, Waits(h, r)', Saving(asked'[r]), NEW a \in Answers(r)'
        PROVE  Traced(span'[h], asked'[r], a.out)
    <2>1. asked[r] # NoCommand
      <3>1. a \in Answers(r) => replies[r] # <<>>
        BY DEF Answers
      <3> QED
        BY <1>0, <1>1, <3>1, NewAnswers DEF HandledOnce, Workers
    <2>2. Waits(h, r) /\ Wider(span[h], span'[h]) /\ asked'[r] = asked[r]
      BY <1>0, <1>1, <1>3, <1>7, <2>1, AskedStays
    <2>3. ASSUME NEW t \in Threads, job[t].req = r, a = ReplyOf(job[t])
          PROVE  Traced(span[h], asked[r], a.out)
      BY <1>7, <2>2, <2>3 DEF StoredOK, ReplyOf, Cmd
    <2>4. a \in Answers(r) => Traced(span[h], asked[r], a.out)
      BY <1>7, <2>2 DEF StoredOK
    <2>5. Traced(span[h], asked[r], a.out)
      BY <1>0, <1>1, <1>7, <2>3, <2>4, NewAnswers
    <2> QED
      BY <2>2, <2>5, TracedMore
  <1> QED
    BY <1>5, <1>6, <1>7

\* What a handler tells of a save is what it was told.
LEMMA OutcomeSaves ==
  ASSUME NEW p \in Http, NEW a, NEW q \in Outcomes(p, a), q.call.verb \in {"create", "edit"},
         q.status = "ok", p.status = "none"
  PROVE  q.call = p.call /\ q.out = a.out
  <1>1. ASSUME NEW s PROVE Ended(p, s).call = p.call /\ Ended(p, s).status = s
    BY DEF Ended, Http
  <1>2. ASSUME NEW x PROVE Gathered(p, x).call = p.call
    BY DEF Gathered, Http
  <1>3. ASSUME NEW ids PROVE Listed(p, ids).call = p.call
    BY DEF Listed, Ended, Http
  <1>4. q.call = p.call
    <2>1. CASE q = [Ended(p, "ok") EXCEPT !.out = a.out, !.removed = a.removed]
      BY <2>1 DEF Ended, Http
    <2> QED
      BY <1>1, <1>2, <1>3, <2>1 DEF Outcomes
  <1>5. q = [Ended(p, "ok") EXCEPT !.out = a.out, !.removed = a.removed]
    BY <1>1, <1>4 DEF Outcomes
  <1> QED
    BY <1>4, <1>5 DEF Ended, Http

\* POST and PUT save, without an id if their target has none.
LEMMA SaveMessage ==
  ASSUME NEW p \in Http, AskOK(p), p.step = "wait", p.call.verb \in {"create", "edit"},
         NEW c \in Message(p)
  PROVE  Saving(c) /\ (NoId \in Target(p.call) => NoId \in IdsOf(c.groups))
  <1>1. p.call \in Calls /\ p.call \in HttpCall /\ ~Refused(p.call) /\ c \in Commanded(p.call)
    BY RestAssumption DEF AskOK, Message
  <1>2. CASE p.call.verb = "create"
    <2>1. c = [Say("CREATE", p.call.groups, <<>>) EXCEPT !.valid = p.call.body = "group"]
      BY <1>1, <1>2 DEF Commanded
    <2>2. c.subject = "CREATE" /\ c.groups = p.call.groups
      BY <2>1 DEF Say
    <2> QED
      BY <1>2, <2>2 DEF Saving, Target
  <1>3. CASE p.call.verb = "edit"
    <2>1. c = Say("UPDATE", {[g EXCEPT !.id = p.call.ids[1]] : g \in p.call.groups}, <<>>)
      BY <1>1, <1>3 DEF Commanded
    <2>2. c.subject = "UPDATE" /\ c.groups = {[g EXCEPT !.id = p.call.ids[1]] : g \in p.call.groups}
      BY <2>1 DEF Say
    <2>3. PICK g \in Group : p.call.groups = {g}
      BY <1>1, <1>3, RestAssumption DEF Refused, HttpCall
    <2>4. [g EXCEPT !.id = p.call.ids[1]].id = p.call.ids[1]
      BY DEF Group
    <2> QED
      BY <1>3, <2>2, <2>3, <2>4 DEF Saving, Target, IdsOf
  <1> QED
    BY <1>2, <1>3

LEMMA SavesStoredStep ==
  CallsOK /\ StoredOK /\ SavesStored /\ [RestNext]_restVars => SavesStored'
  <1> SUFFICES ASSUME CallsOK, StoredOK, SavesStored, [RestNext]_restVars, NEW h \in Handlers,
                      http'[h].status = "ok", http'[h].call.verb \in {"create", "edit"},
                      NEW g \in http'[h].out,
                      g.id \in span'[h].kept \/ NoId \in Target(http'[h].call)
               PROVE  g \in span'[h].seen
    BY DEF SavesStored, Succeeded
  <1> DEFINE p == http[h]
  <1>0. /\ http \in [Handlers -> Http] /\ p \in Http /\ AskOK(p) /\ Collects(p, span[h])
    BY DEF CallsOK, RestInv, HttpOK, CollectsOK
  <1>1. p.step # "done" => p.status = "none"
    BY <1>0 DEF Collects
  <1>2. CASE http'[h] = http[h]
    <2>1. p.step = "done" /\ Succeeded(h, p.call.verb)
      BY <1>0, <1>1, <1>2 DEF Succeeded, Http
    <2>2. span'[h] = span[h]
      BY <1>2, <2>1, SpanStays
    <2> QED
      BY <1>2, <2>1, <2>2 DEF SavesStored
  <1>3. ASSUME NEW c \in Calls, Open(h, c) PROVE http'[h].status # "ok"
    <2> DEFINE o == [NoHttp EXCEPT !.call = c]
    <2>1. /\ [o EXCEPT !.step = "send"].status = "none"
          /\ \A s : Ended(o, s).status = s
      BY DEF NoHttp, Ended
    <2> HIDE DEF o
    <2>2. \/ http'[h] = [o EXCEPT !.step = "send"]
          \/ \E s \in {"refused", "error"} : http'[h] = Ended(o, s)
      BY <1>0, <1>3 DEF Open, o
    <2> QED
      BY <2>1, <2>2
  <1>4. ASSUME Send(h) \/ NarrowingThrows(h) \/ Timeout(h) PROVE http'[h].status # "ok"
    <2>1. p.status = "none"
      BY <1>1, <1>4 DEF Send, NarrowingThrows, Timeout
    <2>2. PICK q : q = http'[h]
      OBVIOUS
    <2>3. CASE Send(h)
      <3>1. PICK r : q = [p EXCEPT !.step = "wait", !.corr = r]
        BY <1>0, <2>2, <2>3 DEF Send
      <3>2. q.status = p.status
        BY <1>0, <3>1 DEF Http
      <3> QED
        BY <2>1, <2>2, <3>2
    <2>4. ASSUME NEW s, q = Ended(p, s) PROVE q.status = s
      BY <1>0, <2>4 DEF Ended, Http
    <2>5. CASE NarrowingThrows(h) \/ Timeout(h)
      <3>1. \E s \in {"error", "timeout"} : q = Ended(p, s)
        BY <1>0, <2>2, <2>5 DEF NarrowingThrows, Timeout
      <3> QED
        BY <2>2, <2>4, <3>1
    <2> QED
      BY <1>4, <2>3, <2>5
  <1>5. ASSUME NEW r \in Requests, Receive(h, r), Waits(h, r), Watch
        PROVE  g \in span'[h].seen
    <2> DEFINE a == Head(replies[r])
    <2>1. replies[r] \in Seq(Answer) /\ replies[r] # <<>> /\ p.step = "wait" /\ p.status = "none"
      BY <1>1, <1>5 DEF Receive, CallsOK, RestInv, RepliesOK
    <2>2. a \in Answers(r)
      <3>1. Len(replies[r]) \in Nat /\ Len(replies[r]) # 0 /\ DOMAIN replies[r] = 1 .. Len(replies[r])
        BY <2>1, LenProperties, EmptySeq
      <3>2. a = replies[r][1] /\ 1 \in DOMAIN replies[r]
        BY <2>1, <3>1
      <3> QED
        BY <3>2 DEF Answers
    <2>3. asked[r] \in Message(p)
      BY <1>5, <2>1 DEF CallsOK, ServedOK, AgentInv, HandledOnce, Own, QuestionOwn, Waits
    <2>4. PICK q \in Outcomes(p, a) : http'[h] = q
      BY <1>0, <1>5 DEF Receive
    <2> HIDE DEF a
    <2>5. q.call = p.call /\ q.out = a.out
      BY <1>0, <2>1, <2>4, OutcomeSaves
    <2>6. Saving(asked[r]) /\ (NoId \in Target(p.call) => NoId \in IdsOf(asked[r].groups))
      BY <1>0, <2>1, <2>3, <2>4, <2>5, SaveMessage
    <2>7. Traced(span[h], asked[r], a.out)
      BY <1>5, <2>2, <2>6 DEF StoredOK
    <2>8. Traced(span'[h], asked[r], a.out)
      BY <1>5, <2>1, <2>7, SpanWidens, TracedMore
    <2> QED
      BY <2>4, <2>5, <2>6, <2>8 DEF Traced
  <1> QED
    BY <1>2, <1>3, <1>4, <1>5, EachHandler DEF CallsOK

(* Whatever fails, what POST or PUT was told is stored was stored during   *)
(* the call, if the group is a new one or one that was there all the time: *)
(* a confirmed save leaves no trace only if its group was not there, or    *)
(* was removed meanwhile (storage.cpp:172).                                *)
THEOREM SavesStoredAlways == RestSpec => []SavesStored
  <1>1. RestInit => StoredOK /\ SavesStored
    BY DEF RestInit, StoredOK, SavesStored, Waits, Succeeded, NoHttp
  <1>2. CallsOK /\ CallsOK' /\ StoredOK /\ [RestNext]_restVars => StoredOK'
    BY StoredOKStep DEF CallsOK
  <1>3. CallsOK /\ StoredOK /\ SavesStored /\ [RestNext]_restVars => SavesStored'
    BY SavesStoredStep
  <1> QED
    BY <1>1, <1>2, <1>3, CallsAlways, PTL DEF RestSpec

-----------------------------------------------------------------------------
(* What the clients of Remote are told.                                    *)

\* The successes that are told, or can be told any moment.
Successes(h) == {a \in {resultBar[h], givenBar[h]} : a.status = "ok"}

\* The call stores a group under a new id.
Creates(c) == c.verb = "create" /\ NoId \in IdsOf(c.groups)

\* What an answer to call c says, d being the catalog.
Truthful(c, a, d) ==
  /\ c.verb = "create" => \A g \in a.out : g.name \in {b.name : b \in c.groups}
  /\ c.verb = "create" /\ NoId \notin IdsOf(c.groups) => a.out = c.groups
  /\ Creates(c) => \A i \in IdsOf(a.out) : i \in 0 .. d.lastId
  /\ c.verb = "edit" /\ c.ids[1] # NoId => a.out = {[g EXCEPT !.id = c.ids[1]] : g \in c.groups}
  /\ c.verb = "remove" => a.removed \subseteq {c.ids[1]}
  /\ \A i \in a.removed : Clear(i, d)

SuccessesOK ==
  /\ \A h \in Handlers : \A a \in Successes(h) : Truthful(callBar[h], a, file)
  /\ \A h, k \in Handlers : h # k => \A a \in Successes(h), b \in Successes(k) :
       /\ a.removed \cap b.removed = {}
       /\ Creates(callBar[h]) /\ Creates(callBar[k]) => IdsOf(a.out) \cap IdsOf(b.out) = {}

LEMMA EffectTrue ==
  ASSUME NEW c \in Calls, Single(c), ~Refused(c), NEW d \in DbObj, Sound(d), NEW x \in Promise!Effects(c, d)
  PROVE  /\ x.db.lastId = d.lastId \/ x.db.lastId = d.lastId + 1
         /\ \A i : Clear(i, d) => Clear(i, x.db)
         /\ x.answer.status = "ok" => Truthful(c, x.answer, x.db)
         /\ Creates(c) => \A i \in IdsOf(x.answer.out) : i \notin 0 .. d.lastId
         /\ \A i \in x.answer.removed : ~Clear(i, d)
  <1>0. /\ c.groups \subseteq Group /\ c.verb \in {"create", "edit", "read", "remove"}
        /\ c.body \in {"none", "broken", "group"}
        /\ c.body = "group" => \E g \in Group : c.groups = {g}
        /\ d.lastId \in Nat
    BY RestAssumption, GroupDbAssumption DEF Single, HttpCall, Verbs, DbObj
  <1>1. \A e, a : Promise!Effect(e, a).db = e /\ Promise!Effect(e, a).answer = a
    BY DEF Promise!Effect
  <1>2. \A s, o, m : LET a == Promise!Answer(s, o, m) IN a.status = s /\ a.out = o /\ a.removed = m
    BY DEF Promise!Answer
  <1>3. ASSUME NEW a, x = Promise!Effect(d, a), a.status # "ok" \/ c.verb \in {"read", "remove"},
               a.removed = {}, c.verb = "create" => a.out = {}
        PROVE  /\ x.db.lastId = d.lastId \/ x.db.lastId = d.lastId + 1
               /\ \A i : Clear(i, d) => Clear(i, x.db)
               /\ x.answer.status = "ok" => Truthful(c, x.answer, x.db)
               /\ Creates(c) => \A i \in IdsOf(x.answer.out) : i \notin 0 .. d.lastId
               /\ \A i \in x.answer.removed : ~Clear(i, d)
    BY <1>1, <1>3 DEF Truthful, Creates, IdsOf
  <1>4. Promise!Refusal.status = "ko" /\ Promise!Refusal.removed = {} /\ Promise!Refusal.out = {}
    BY <1>2 DEF Promise!Refusal
  <1>5. CASE c.verb \in {"create", "edit"} /\ c.body # "group"
    <2>1. x = Promise!Effect(d, Promise!Refusal)
      BY <1>5 DEF Promise!Effects
    <2> QED
      BY <1>3, <1>4, <2>1
  <1>6. CASE c.verb \in {"create", "edit"} /\ c.body = "group"
    <2>1. PICK g \in Promise!Wanted(c) :
            x = Promise!Effect(SaveTo(d, g), Promise!Answer("ok", {Saved(d, g)}, {}))
      BY <1>6, SamePromise DEF Promise!Effects
    <2>2. PICK b \in Group : c.groups = {b}
      BY <1>0, <1>6
    <2>3. PICK i : i = (IF c.verb = "edit" THEN c.ids[1] ELSE b.id)
      OBVIOUS
    <2>4. g = [b EXCEPT !.id = i] /\ g.name = b.name /\ g.id = i
      BY <2>1, <2>2, <2>3 DEF Promise!Wanted, Group
    <2>5. /\ x.db = SaveTo(d, g) /\ x.answer.out = {Saved(d, g)} /\ x.answer.removed = {}
      BY <1>1, <1>2, <2>1
    <2>6. Saved(d, g).name = b.name /\ Saved(d, g).id = IF i = NoId THEN d.lastId + 1 ELSE i
      BY <2>4 DEF Saved, Group
    <2>7. SaveTo(d, g).lastId = IF i = NoId THEN d.lastId + 1 ELSE d.lastId
      BY <2>4 DEF SaveTo, DbObj
    <2>8. g \in Group
      <3>1. c.verb = "edit" => c.ids[1] \in 0 .. MaxId
        <4>1. c.verb = "edit" => c.ids \in Seq(0 .. MaxId) /\ c.ids # <<>>
          BY RestAssumption DEF Refused, HttpCall
        <4>2. c.verb = "edit" => Head(c.ids) \in 0 .. MaxId
          BY <4>1, HeadTailProperties
        <4>3. c.verb = "edit" => Head(c.ids) = c.ids[1]
          BY <4>1
        <4> QED
          BY <4>2, <4>3
      <3> QED
        BY <2>3, <2>4, <3>1 DEF Group
    <2>9. Creates(c) => i = NoId
      BY <2>2, <2>3 DEF Creates, IdsOf
    <2>10. IdsOf(x.answer.out) = {Saved(d, g).id}
      BY <2>5 DEF IdsOf
    <2>11. c.verb = "edit" /\ i # NoId => x.answer.out = {[h EXCEPT !.id = i] : h \in c.groups}
      BY <2>2, <2>4, <2>5 DEF Saved
    <2>12. Truthful(c, x.answer, x.db)
      <3>1. \A h \in x.answer.out : h.name \in {k.name : k \in c.groups}
        BY <2>2, <2>5, <2>6
      <3>2. Creates(c) => \A j \in IdsOf(x.answer.out) : j \in 0 .. x.db.lastId
        <4>1. d.lastId + 1 \in 0 .. d.lastId + 1
          BY <1>0
        <4> QED
          BY <2>5, <2>6, <2>7, <2>9, <2>10, <4>1
      <3>3. c.verb = "edit" => c.ids[1] = i
        BY <2>3
      <3>4. c.verb = "edit" /\ c.ids[1] # NoId =>
              x.answer.out = {[h EXCEPT !.id = c.ids[1]] : h \in c.groups}
        BY <2>11, <3>3, Zenon
      <3>5. c.verb # "remove"
        BY <1>6
      <3>6. c.verb = "create" /\ NoId \notin IdsOf(c.groups) => x.answer.out = c.groups
        <4>1. c.verb = "create" => g = b
          BY <2>2, <2>3, <2>4 DEF Group
        <4>2. NoId \notin IdsOf(c.groups) => b.id # NoId
          BY <2>2 DEF IdsOf
        <4>3. b.id # NoId => Saved(d, b) = b
          BY DEF Saved
        <4> QED
          BY <2>2, <2>5, <4>1, <4>2, <4>3
      <3> QED
        BY <2>5, <3>1, <3>2, <3>4, <3>5, <3>6 DEF Truthful
    <2>13. \A j : Clear(j, d) => Clear(j, x.db)
      BY <2>5, <2>8, SaveToClear
    <2>14. Creates(c) => \A j \in IdsOf(x.answer.out) : j \notin 0 .. d.lastId
      <3>1. d.lastId + 1 \notin 0 .. d.lastId
        BY <1>0
      <3> QED
        BY <2>6, <2>9, <2>10, <3>1
    <2>15. x.db.lastId = d.lastId \/ x.db.lastId = d.lastId + 1
      BY <2>5, <2>7
    <2>16. \A j \in x.answer.removed : ~Clear(j, d)
      BY <2>5
    <2> QED
      BY <2>12, <2>13, <2>14, <2>15, <2>16
  <1>7. CASE c.verb = "remove" /\ WithId(d, c.ids[1]) = {}
    <2>1. x = Promise!Effect(d, Promise!Answer("ok", {}, {}))
      BY <1>7, SamePromise DEF Promise!Effects
    <2> QED
      BY <1>2, <1>3, <1>7, <2>1
  <1>8. CASE c.verb = "remove" /\ WithId(d, c.ids[1]) # {}
    <2>1. PICK i : i = c.ids[1]
      OBVIOUS
    <2>2. PICK gone \in Removals(WithId(d, i)) :
            x = Promise!Effect(Drop(d, gone), Promise!Answer("ok", {}, {i}))
      BY <1>8, <2>1, SamePromise DEF Promise!Effects
    <2>3. x.db = Drop(d, gone) /\ x.answer.out = {} /\ x.answer.removed = {i}
      BY <1>1, <1>2, <2>2
    <2>4. Clear(i, x.db) /\ ~Clear(i, d)
      BY <1>8, <2>1, <2>3, RemovedClear DEF Clear, WithId
    <2>5. x.db.lastId = d.lastId
      BY <2>3 DEF Drop, DbObj
    <2>6. Truthful(c, x.answer, x.db)
      BY <1>8, <2>1, <2>3, <2>4 DEF Truthful, Creates
    <2> QED
      BY <1>8, <2>3, <2>4, <2>5, <2>6, DropClear DEF Creates
  <1>9. CASE c.verb = "read"
    <2>1. \E a : x = Promise!Effect(d, a) /\ a.removed = {}
      BY <1>2, <1>4, <1>9, SamePromise DEF Promise!Effects
    <2> QED
      BY <1>3, <1>9, <2>1
  <1> QED
    BY <1>0, <1>5, <1>6, <1>7, <1>8, <1>9

\* The answer stays true when calls of others take effect.
LEMMA TruthStays ==
  ASSUME NEW c, NEW a, NEW d \in DbObj, NEW e, Truthful(c, a, d),
         e.lastId = d.lastId \/ e.lastId = d.lastId + 1, \A i : Clear(i, d) => Clear(i, e)
  PROVE  Truthful(c, a, e)
  <1>1. 0 .. d.lastId \subseteq 0 .. e.lastId
    BY GroupDbAssumption DEF DbObj
  <1> QED
    BY <1>1 DEF Truthful

\* A client whose call is to take effect has made one, and one that has made
\* none has been told nothing.
LEMMA ClientLegal ==
  ASSUME PromiseOK, NEW h \in Handlers
  PROVE  /\ workBar[h] = "asked" =>
              callBar[h] \in Calls /\ Single(callBar[h]) /\ ~Refused(callBar[h])
         /\ workBar[h] = "none" => resultBar[h].status # "ok" /\ givenBar[h].status # "ok"
  <1>1. PICK p : p = http[h]
    OBVIOUS
  <1>2. BarIs(h)
    BY Bars DEF BarsAre
  <1>3. /\ p.step \in {"idle", "send", "wait", "done"} /\ (p.step = "wait" => p.corr # NoRequest)
        /\ p.step = "send" => p.call \in Calls /\ ~Refused(p.call)
        /\ Sent(p) => p.call \in Calls /\ ~Refused(p.call)
    BY <1>1 DEF PromiseOK, RestInv, HttpOK, Http, Own, QuestionOwn, AskOK, SentOK
  <1>4. Unanswered.status # "ok"
    BY DEF Unanswered
  <1>5. p.step = "idle" \/ ~Single(p.call) => GivenOf(p) = Unanswered
    BY DEF GivenOf
  <1>6. \/ p.step = "idle" \/ ~Single(p.call)
        \/ p.step = "send" /\ Single(p.call)
        \/ p.step = "done" /\ Single(p.call) /\ p.corr = NoRequest
        \/ Sent(p)
    BY <1>3 DEF Sent
  <1>7. Stage(p.corr) # "none"
    BY DEF Stage
  <1>8. Sent(p) => Single(p.call)
    BY DEF Sent
  <1> QED
    BY <1>1, <1>2, <1>3, <1>4, <1>5, <1>6, <1>7, <1>8 DEF BarIs

\* The client of a handler hears nothing new.
Quiet(k) ==
  \A a : a \in Successes(k)' => a \in Successes(k) /\ callBar'[k] = callBar[k]

LEMMA PromiseTells ==
  ASSUME PromiseOK, [Promise!Next]_(Promise!vars)
  PROVE  \/ /\ \A k \in Handlers : Quiet(k)
            /\ \/ file' = file
               \/ \E h \in Handlers : /\ workBar[h] = "asked"
                                      /\ \E x \in Promise!Effects(callBar[h], file) : file' = x.db
         \/ \E h \in Handlers : /\ workBar[h] = "asked" /\ callBar' = callBar
                                /\ \A k \in Handlers \ {h} : Quiet(k)
                                /\ \E x \in Promise!Effects(callBar[h], file) :
                                     /\ file' = x.db
                                     /\ \A a : a \in Successes(h)' => a \in Successes(h) \cup {x.answer}
  <1>0. BarsAre
    BY Bars
  <1>1. ASSUME NEW k \in Handlers, UNCHANGED <<callBar[k], resultBar[k], givenBar[k]>> PROVE Quiet(k)
    BY <1>1 DEF Quiet, Successes
  <1>2. Promise!NoAnswer.status # "ok" /\ Promise!Refusal.status # "ok"
    BY DEF Promise!NoAnswer, Promise!Refusal, Promise!Answer
  <1>3. ASSUME NEW k \in Handlers, callBar'[k] = callBar[k],
               resultBar'[k] \in {resultBar[k], Promise!NoAnswer},
               givenBar'[k] \in {givenBar[k], resultBar[k], Promise!Refusal}
        PROVE  Quiet(k)
    BY <1>2, <1>3 DEF Quiet, Successes
  <1>4. CASE UNCHANGED Promise!vars
    BY <1>1, <1>4 DEF Promise!vars
  <1>5. ASSUME NEW h \in Handlers, NEW c \in Calls, Promise!Begin(h, c)
        PROVE  file' = file /\ \A k \in Handlers : Quiet(k)
    <2>1. ASSUME NEW k \in Handlers, k # h PROVE Quiet(k)
      <3>1. UNCHANGED <<callBar[k], resultBar[k], givenBar[k]>>
        BY <1>0, <1>5, <2>1 DEF Promise!Begin, BarsAre
      <3> QED
        BY <1>1, <3>1
    <2>2. Quiet(h)
      <3>1. resultBar[h].status # "ok" /\ givenBar[h].status # "ok"
        BY <1>5, ClientLegal DEF Promise!Begin
      <3>2. resultBar'[h] = resultBar[h] /\ givenBar'[h] \in {givenBar[h], Promise!Refusal}
        BY <1>0, <1>5 DEF Promise!Begin, BarsAre
      <3> QED
        BY <1>2, <3>1, <3>2 DEF Quiet, Successes
    <2> QED
      BY <1>5, <2>1, <2>2 DEF Promise!Begin
  <1>6. ASSUME NEW h \in Handlers, Promise!Do(h)
        PROVE  /\ workBar[h] = "asked" /\ callBar' = callBar
               /\ \A k \in Handlers \ {h} : Quiet(k)
               /\ \E x \in Promise!Effects(callBar[h], file) :
                    /\ file' = x.db
                    /\ \A a : a \in Successes(h)' => a \in Successes(h) \cup {x.answer}
    <2>1. PICK x \in Promise!Effects(callBar[h], file) :
            file' = x.db /\ resultBar' = [resultBar EXCEPT ![h] = x.answer]
      BY <1>6 DEF Promise!Do
    <2>2. workBar[h] = "asked" /\ callBar' = callBar /\ givenBar' = givenBar
      BY <1>6 DEF Promise!Do
    <2>3. \A k \in Handlers : resultBar'[k] = IF k = h THEN x.answer ELSE resultBar[k]
      BY <1>0, <2>1 DEF BarsAre
    <2>4. ASSUME NEW k \in Handlers \ {h} PROVE Quiet(k)
      BY <1>1, <2>2, <2>3
    <2>5. \A a : a \in Successes(h)' => a \in Successes(h) \cup {x.answer}
      BY <2>2, <2>3 DEF Successes
    <2> QED
      BY <2>1, <2>2, <2>4, <2>5
  <1>7. ASSUME NEW h \in Handlers, Promise!Succeed(h) \/ Promise!Fail(h)
        PROVE  file' = file /\ \A k \in Handlers : Quiet(k)
    <2>1. /\ callBar' = callBar /\ resultBar' = resultBar /\ file' = file
          /\ \E x \in {resultBar[h], Promise!Refusal} : givenBar' = [givenBar EXCEPT ![h] = x]
      BY <1>7 DEF Promise!Succeed, Promise!Fail
    <2>2. \A k \in Handlers : givenBar'[k] \in {givenBar[k], resultBar[k], Promise!Refusal}
      BY <1>0, <2>1 DEF BarsAre
    <2> QED
      BY <1>3, <2>1, <2>2
  <1>8. ASSUME NEW S \in SUBSET Handlers, Promise!Forget(S)
        PROVE  /\ \A k \in Handlers : Quiet(k)
               /\ \/ file' = file
                  \/ \E h \in Handlers : /\ workBar[h] = "asked"
                                         /\ \E x \in Promise!Effects(callBar[h], file) : file' = x.db
    <2>1. /\ callBar' = callBar /\ givenBar' = givenBar
          /\ \A k \in Handlers : resultBar'[k] \in {resultBar[k], Promise!NoAnswer}
      BY <1>8 DEF Promise!Forget
    <2> QED
      BY <1>3, <1>8, <2>1 DEF Promise!Forget
  <1> QED
    BY <1>4, <1>5, <1>6, <1>7, <1>8 DEF Promise!Next
LEMMA SuccessesStep ==
  ASSUME PromiseOK, PromiseOK', [Promise!Next]_(Promise!vars), SuccessesOK
  PROVE  SuccessesOK'
  <1>0. file \in DbObj /\ Sound(file) /\ file' \in DbObj
    BY DEF PromiseOK, OneOK, AgentInv, Inv, TypeOK, IdsSound
  <1>1. ASSUME NEW h \in Handlers, workBar[h] = "asked", NEW x \in Promise!Effects(callBar[h], file)
        PROVE  /\ x.db.lastId = file.lastId \/ x.db.lastId = file.lastId + 1
               /\ \A i : Clear(i, file) => Clear(i, x.db)
               /\ x.answer.status = "ok" => Truthful(callBar[h], x.answer, x.db)
               /\ Creates(callBar[h]) => \A i \in IdsOf(x.answer.out) : i \notin 0 .. file.lastId
               /\ \A i \in x.answer.removed : ~Clear(i, file)
    BY <1>0, <1>1, ClientLegal, EffectTrue
  <1>2. ASSUME NEW k \in Handlers, NEW a \in Successes(k) PROVE Truthful(callBar[k], a, file')
    <2>1. Truthful(callBar[k], a, file)
      BY <1>2 DEF SuccessesOK
    <2>2. CASE file' = file
      BY <2>1, <2>2
    <2>3. ASSUME NEW h \in Handlers, workBar[h] = "asked",
                 NEW x \in Promise!Effects(callBar[h], file), file' = x.db
          PROVE  Truthful(callBar[k], a, file')
      BY <1>0, <1>1, <2>1, <2>3, TruthStays
    <2> QED
      BY <2>2, <2>3, PromiseTells
  <1>3. CASE \A k \in Handlers : Quiet(k)
    <2>1. ASSUME NEW k \in Handlers, NEW a \in Successes(k)' PROVE Truthful(callBar'[k], a, file')
      BY <1>2, <1>3, <2>1 DEF Quiet
    <2>2. ASSUME NEW h \in Handlers, NEW k \in Handlers, h # k,
                 NEW a \in Successes(h)', NEW b \in Successes(k)'
          PROVE  /\ a.removed \cap b.removed = {}
                 /\ Creates(callBar'[h]) /\ Creates(callBar'[k]) => IdsOf(a.out) \cap IdsOf(b.out) = {}
      BY <1>3, <2>2 DEF Quiet, SuccessesOK
    <2> QED
      BY <2>1, <2>2 DEF SuccessesOK
  <1>4. ASSUME NEW h \in Handlers, workBar[h] = "asked", callBar' = callBar,
               \A k \in Handlers \ {h} : Quiet(k),
               NEW x \in Promise!Effects(callBar[h], file), file' = x.db,
               \A a : a \in Successes(h)' => a \in Successes(h) \cup {x.answer}
        PROVE  SuccessesOK'
    <2>0. \A k \in Handlers : \A a \in Successes(k)' :
            a \in Successes(k) \/ (k = h /\ a = x.answer /\ a.status = "ok")
      BY <1>4 DEF Quiet, Successes
    <2>1. ASSUME NEW k \in Handlers, NEW a \in Successes(k)' PROVE Truthful(callBar[k], a, file')
      BY <1>1, <1>2, <1>4, <2>0, <2>1
    <2>2. ASSUME NEW k \in Handlers, NEW b \in Successes(k)
          PROVE  /\ x.answer.removed \cap b.removed = {}
                 /\ Creates(callBar[h]) /\ Creates(callBar[k])
                      => IdsOf(x.answer.out) \cap IdsOf(b.out) = {}
      <3>1. Truthful(callBar[k], b, file)
        BY <2>2 DEF SuccessesOK
      <3> QED
        BY <1>1, <1>4, <3>1 DEF Truthful
    <2>3. ASSUME NEW j \in Handlers, NEW k \in Handlers, j # k,
                 NEW a \in Successes(j)', NEW b \in Successes(k)'
          PROVE  /\ a.removed \cap b.removed = {}
                 /\ Creates(callBar[j]) /\ Creates(callBar[k]) => IdsOf(a.out) \cap IdsOf(b.out) = {}
      <3>1. a \in Successes(j) \/ (j = h /\ a = x.answer)
        BY <2>0
      <3>2. b \in Successes(k) \/ (k = h /\ b = x.answer)
        BY <2>0
      <3>3. CASE a \in Successes(j) /\ b \in Successes(k)
        BY <2>3, <3>3 DEF SuccessesOK
      <3>4. CASE j = h /\ a = x.answer /\ b \in Successes(k)
        BY <2>2, <3>4
      <3>5. CASE k = h /\ b = x.answer /\ a \in Successes(j)
        BY <2>2, <3>5
      <3> QED
        BY <2>3, <3>1, <3>2, <3>3, <3>4, <3>5
    <2> QED
      BY <1>4, <2>1, <2>3 DEF SuccessesOK
  <1> QED
    BY <1>3, <1>4, PromiseTells

(* When nothing but the process and the network fails, a client that was   *)
(* told of a success was told of its own call.  Whatever is late, lost or  *)
(* strays, and however often the agent is killed, a create has a new id of *)
(* its own, or the one it came with, an edit the id of its path, a removal *)
(* is told to one client, who asked for it, and happened during its call,  *)
(* and what a read shows was stored then under the id GET asked for.       *)
THEOREM AnswersTheCallAlways ==
  ASSUME Faults \subseteq {"kill"}
  PROVE  RestSpec => []AnswersTheCall
  <1>1. RestInit => LostOK /\ RemovesOnly /\ ReportsOK /\ SuccessesOK
    <2> SUFFICES ASSUME RestInit PROVE LostOK /\ RemovesOnly /\ ReportsOK /\ SuccessesOK
      OBVIOUS
    <2>1. NoHttp.step = "idle" /\ NoHttp.removed = {} /\ NoJob.removed = {} /\ NoHttp.call = NoCall
      BY DEF NoHttp, NoJob
    <2>2. LostOK
      BY <2>1 DEF RestInit, LostOK, Waits
    <2>3. RemovesOnly
      BY <2>1 DEF RestInit, AgentInit, RemovesOnly, Answers
    <2>4. ReportsOK
      BY <2>1 DEF RestInit, ReportsOK
    <2>5. SuccessesOK
      <3>1. ASSUME NEW h \in Handlers PROVE Successes(h) = {}
        <4>1. BarIs(h) /\ http[h] = NoHttp
          BY Bars DEF BarsAre, RestInit
        <4>2. GivenOf(NoHttp) = Unanswered
          BY <2>1 DEF GivenOf
        <4>3. Unanswered.status # "ok"
          BY DEF Unanswered
        <4> QED
          BY <2>1, <4>1, <4>2, <4>3 DEF BarIs, Successes
      <3> QED
        BY <3>1 DEF SuccessesOK
    <2> QED
      BY <2>2, <2>3, <2>4, <2>5
  <1>2. PromiseOK /\ CallsOK /\ RemovesOnly /\ [RestNext]_restVars => RemovesOnly'
    BY RemovesOnlyStep, RestStep DEF CallsOK, ServedOK, AgentInv
  <1>3. PromiseOK /\ CallsOK /\ CallsOK' /\ LostOK /\ [RestNext]_restVars => LostOK'
    BY LostOKStep DEF CallsOK, PromiseOK, OneOK
  <1>4. CallsOK /\ LostOK /\ RemovesOnly /\ ReportsOK /\ [RestNext]_restVars => ReportsOK'
    BY ReportsOKStep
  <1>5. PromiseOK /\ PromiseOK' /\ SuccessesOK /\ [RestNext]_restVars => SuccessesOK'
    BY SuccessesStep, RestPromiseStep
  <1>6. CallsOK /\ ReadsOK /\ ReportsOK /\ SuccessesOK => AnswersTheCall
    <2> SUFFICES ASSUME CallsOK, ReadsOK, ReportsOK, SuccessesOK PROVE AnswersTheCall
      OBVIOUS
    <2>1. ASSUME NEW h \in Handlers, http[h].status = "ok", Single(http[h].call)
          PROVE  /\ callBar[h] = http[h].call
                 /\ \E a \in Successes(h) : a.out = http[h].out /\ a.removed = http[h].removed
      <3>1. PICK p : p = http[h]
        OBVIOUS
      <3>2. BarIs(h) /\ p.step = "done"
        BY <2>1, <3>1, Bars DEF BarsAre, CallsOK, CollectsOK, Collects
      <3>3. PICK a : a = [status |-> "ok", out |-> p.out, removed |-> p.removed]
        OBVIOUS
      <3>4. GivenOf(p) = a
        BY <2>1, <3>1, <3>2, <3>3 DEF GivenOf
      <3> QED
        BY <2>1, <3>1, <3>2, <3>3, <3>4 DEF BarIs, Successes
    <2>2. ASSUME NEW h \in Handlers, NEW v \in {"create", "edit", "remove"}, Succeeded(h, v)
          PROVE  http[h].status = "ok" /\ Single(http[h].call) /\ http[h].call.verb = v
      BY <2>2 DEF Succeeded, Single
    <2>3. ASSUME NEW h \in Handlers, Succeeded(h, "create")
          PROVE  /\ \A g \in http[h].out : g.name \in {b.name : b \in http[h].call.groups}
                 /\ NoId \notin IdsOf(http[h].call.groups) => http[h].out = http[h].call.groups
                 /\ NoId \in IdsOf(http[h].call.groups) => \A k \in Handlers \ {h} :
                      Succeeded(k, "create") /\ NoId \in IdsOf(http[k].call.groups)
                        => IdsOf(http[h].out) \cap IdsOf(http[k].out) = {}
      <3>1. PICK a \in Successes(h) : a.out = http[h].out
        BY <2>1, <2>2, <2>3
      <3>2. callBar[h] = http[h].call /\ http[h].call.verb = "create"
        BY <2>1, <2>2, <2>3
      <3>3. Truthful(http[h].call, a, file)
        BY <3>2 DEF SuccessesOK
      <3>4. ASSUME NEW k \in Handlers \ {h}, Succeeded(k, "create"),
                   NoId \in IdsOf(http[h].call.groups), NoId \in IdsOf(http[k].call.groups)
            PROVE  IdsOf(http[h].out) \cap IdsOf(http[k].out) = {}
        <4>1. PICK b \in Successes(k) : b.out = http[k].out
          BY <2>1, <2>2, <3>4
        <4>2. Creates(callBar[h]) /\ Creates(callBar[k])
          BY <2>1, <2>2, <3>2, <3>4 DEF Creates
        <4> QED
          BY <3>1, <4>1, <4>2 DEF SuccessesOK
      <3> QED
        BY <3>1, <3>2, <3>3, <3>4 DEF Truthful
    <2>4. ASSUME NEW h \in Handlers, Succeeded(h, "edit"), http[h].call.ids[1] # NoId
          PROVE  http[h].out = {[g EXCEPT !.id = http[h].call.ids[1]] : g \in http[h].call.groups}
      <3>1. PICK a \in Successes(h) : a.out = http[h].out
        BY <2>1, <2>2, <2>4
      <3>2. PICK c : c = http[h].call
        OBVIOUS
      <3>3. Truthful(c, a, file) /\ c.verb = "edit"
        BY <2>1, <2>2, <2>4, <3>2 DEF SuccessesOK
      <3> QED
        BY <2>4, <3>1, <3>2, <3>3 DEF Truthful
    <2>5. ASSUME NEW h \in Handlers, Succeeded(h, "remove")
          PROVE  /\ http[h].removed \subseteq {http[h].call.ids[1]} \cap span[h].lost
                 /\ \A k \in Handlers \ {h} : http[k].removed \cap http[h].removed = {}
      <3>1. PICK a \in Successes(h) : a.removed = http[h].removed
        BY <2>1, <2>2, <2>5
      <3>2. callBar[h] = http[h].call /\ http[h].call.verb = "remove"
        BY <2>1, <2>2, <2>5
      <3>3. Truthful(http[h].call, a, file)
        BY <3>2 DEF SuccessesOK
      <3>4. ASSUME NEW k \in Handlers \ {h}, http[k].removed # {}
            PROVE  http[k].removed \cap http[h].removed = {}
        <4>1. Succeeded(k, "remove")
          BY <3>4 DEF ReportsOK, Succeeded
        <4>2. PICK b \in Successes(k) : b.removed = http[k].removed
          BY <2>1, <2>2, <4>1
        <4> QED
          BY <3>1, <4>2 DEF SuccessesOK
      <3> QED
        BY <3>1, <3>2, <3>3, <3>4 DEF Truthful, ReportsOK
    <2>6. ASSUME NEW h \in Handlers, Succeeded(h, "read")
          PROVE  /\ \E i \in Narrowed(http[h].call.ids[1]) : IdsOf(http[h].out) = {i}
                 /\ http[h].out \subseteq span[h].seen
      BY <2>6 DEF ReadsOK, ReadsTrue, Granted, Succeeded
    <2> HIDE DEF AnswersTheCall
    <2>7. ASSUME NEW h \in Handlers, NEW g \in http[h].out, NEW k \in Handlers,
                 IdsOf(http[h].out) \cap IdsOf(http[k].out) = {}
          PROVE  g.id \notin IdsOf(http[k].out)
      BY <2>7 DEF IdsOf
    <2> QED
      BY <2>3, <2>4, <2>5, <2>6, <2>7 DEF AnswersTheCall
  <1>7. RestSpec => []PromiseOK /\ []CallsOK /\ []ReadsOK
    BY PromiseAlways, CallsAlways, ReadsAlways, PTL
  <1> QED
    BY <1>1, <1>2, <1>3, <1>4, <1>5, <1>6, <1>7, PTL DEF RestSpec
=============================================================================
