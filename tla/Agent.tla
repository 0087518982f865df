-------------------------------- MODULE Agent --------------------------------
(***************************************************************************)
(* The group agent (server/src): Server::process hands every request to a  *)
(* pool of threads, a task runs the job of the request, the job calls      *)
(* Storage one call after the other, publishes what it changed and the     *)
(* task sends the reply.  The threads of the pool are the Threads that     *)
(* call Storage, and a call is a step of Storage.tla.                      *)
(*                                                                         *)
(* A worker's steps: Start takes a task from the pool and parses its       *)
(* payload; Call makes the next Storage call; Resume goes on with what the *)
(* call returned, to the next call, to the reply, or out of the task; Reply *)
(* sends the reply.  Between any two of them the other workers run.        *)
(***************************************************************************)
EXTENDS Storage, Sequences, FiniteSets

CONSTANTS Requests,   \* messages clients send, each delivered at most once
          NoRequest,
          Commands,   \* what a message can say
          Outages     \* what else can go wrong, see OutageKinds

Subjects == {"CREATE", "UPDATE", "DELETE", "LIST", "READ", "RESOLVE"}

(* The payload: one group for CREATE and UPDATE, the ids for DELETE, one   *)
(* id for READ and RESOLVE.  valid says that decode accepts it.            *)
Command == [subject : Subjects \cup {"OTHER"}, valid : BOOLEAN,
            groups : SUBSET Group, ids : Seq(0 .. MaxId)]

(* "publish"  publishing fails, which is only logged                       *)
(* "reply"    sending the reply fails, which is only logged                *)
(* "connect"  tntdb::connect throws, which is no job::Error                *)
OutageKinds == {"publish", "reply", "connect"}

ASSUME AgentAssumption ==
  /\ NoRequest \notin Requests
  /\ Commands \subseteq Command
  /\ \A c \in Commands : c.valid =>
       /\ c.subject \in {"CREATE", "UPDATE"} => \E g \in Group : c.groups = {g}
       /\ c.subject \in {"READ", "RESOLVE"} => Len(c.ids) = 1
  /\ Outages \subseteq OutageKinds

VARIABLES asked,    \* the command of every request that was delivered
          queue,    \* tasks no worker has taken yet
          job,      \* what each worker is doing
          events,   \* what was published on FTY.Q.GROUP.EVENT
          replies,  \* the replies sent to each request
          view      \* history: what a running LIST could have seen

agentVars == <<asked, queue, job, events, replies>>
vars == <<storageVars, agentVars, view>>

-----------------------------------------------------------------------------
(* step   "idle", or what the worker does next: "call", "resume", "reply"  *)
(* left   the ids that are still to be removed, read or listed             *)
(* status, out, removed: Response::status and Response::out, with the ids  *)
(* a DELETE reports as "Ok" in place of its list of lines                  *)
Job == [step : {"idle", "call", "resume", "reply"},
        req : Requests \cup {NoRequest}, left : Seq(0 .. MaxId), listing : BOOLEAN,
        status : {"ok", "ko"}, out : SUBSET Group, removed : SUBSET (0 .. MaxId)]

NoJob == [step |-> "idle", req |-> NoRequest, left |-> <<>>, listing |-> FALSE,
          status |-> "ok", out |-> {}, removed |-> {}]

NoCommand == [subject |-> "none", valid |-> FALSE, groups |-> {}, ids |-> <<>>]

NoView == [given |-> {}, kept |-> {}, seen |-> {}]

Answer == [status : {"ok", "ko"}, out : SUBSET Group, removed : SUBSET (0 .. MaxId)]

Event == [subject : {"CREATED", "UPDATED", "DELETED"}, id : 0 .. MaxId]

ReplyOf(j) == [status |-> j.status, out |-> j.out, removed |-> j.removed]

Cmd(t) == asked[job[t].req]

\* The list of groups is in the order of the ids.
Ascending(S) ==
  {s \in [1 .. Cardinality(S) -> S] : \A i, j \in DOMAIN s : i < j => s[i] < s[j]}

\* What the job does after an id is done with: the next id, or the reply.
Advance(j) == [j EXCEPT !.step = IF Len(j.left) > 1 THEN "call" ELSE "reply",
                      !.left = Tail(@)]

\* Mutant: the error of a job sets no status.
Fails_NoStatus(j) == [j EXCEPT !.step = "reply", !.status = "none", !.out = {}]

Fails(j) == [j EXCEPT !.step = "reply", !.status = "ko", !.out = {}]

-----------------------------------------------------------------------------
AgentInit ==
  /\ Init
  /\ asked = [r \in Requests |-> NoCommand]
  /\ queue = {}
  /\ job = [t \in Threads |-> NoJob]
  /\ events = <<>>
  /\ replies = [r \in Requests |-> <<>>]
  /\ view = [t \in Threads |-> NoView]

(* Server::process: a message with another subject starts no task and gets *)
(* no reply.                                                               *)
Process(r, c) ==
  /\ asked[r] = NoCommand
  /\ asked' = [asked EXCEPT ![r] = c]
  /\ queue' = IF c.subject \in Subjects THEN queue \cup {r} ELSE queue
  /\ UNCHANGED <<storageVars, job, events, replies>>

\* Mutant: the task stays in the pool.
Start_KeepsTask(t, r) ==
  /\ job[t] = NoJob
  /\ r \in queue
  /\ job' = [job EXCEPT ![t] = [NoJob EXCEPT !.step = "reply", !.req = r]]
  /\ UNCHANGED <<storageVars, asked, queue, events, replies>>

(* Task::operator(): a payload that is empty or does not parse is answered *)
(* with an error.  A DELETE of no ids has nothing to call.                 *)
Start(t, r) ==
  /\ job[t] = NoJob
  /\ r \in queue
  /\ queue' = queue \ {r}
  /\ LET c == asked[r]
         j == [NoJob EXCEPT !.step = "call", !.req = r, !.left = c.ids,
                            !.listing = c.subject = "LIST"]
     IN job' = [job EXCEPT ![t] =
                  IF c.subject # "LIST" /\ ~c.valid THEN Fails(j)
                  ELSE IF c.subject = "DELETE" /\ c.ids = <<>>
                  THEN [j EXCEPT !.step = "reply"] ELSE j]
  /\ UNCHANGED <<storageVars, asked, events, replies>>

(* The next call of Storage.                                               *)
Call(t) ==
  /\ job[t].step = "call"
  /\ \/ Cmd(t).subject \in {"CREATE", "UPDATE"} /\ \E g \in Cmd(t).groups : Save(t, g)
     \/ Cmd(t).subject = "DELETE" /\ Remove(t, Head(job[t].left))
     \/ Cmd(t).subject = "LIST" /\ job[t].listing /\ Keys(t)
     \/ Cmd(t).subject = "LIST" /\ ~job[t].listing /\ ById(t, Head(job[t].left))
     \/ Cmd(t).subject \in {"READ", "RESOLVE"} /\ ById(t, Head(job[t].left))
     \/ InitThrows(t)
  /\ job' = [job EXCEPT ![t].step = "resume"]
  /\ UNCHANGED <<asked, queue, events, replies>>

\* The second half of a call that changes the document.
Write(t) == (WriteDone(t) \/ WriteFailed(t)) /\ UNCHANGED agentVars

-----------------------------------------------------------------------------
(* A worker goes on with what its call of Storage returned (ret).          *)

Continue(t, j) == job' = [job EXCEPT ![t] = j] /\ UNCHANGED <<asked, queue, replies>>

Publish(subject, i) ==
  \/ events' = Append(events, [subject |-> subject, id |-> i])
  \/ "publish" \in Outages /\ UNCHANGED events

\* Mutant: an update is announced with the subject of a create.
AfterSave_CreatedOnly(t) ==
  /\ Cmd(t).subject \in {"CREATE", "UPDATE"}
  /\ Continue(t, [job[t] EXCEPT !.step = "reply", !.out = ret[t].groups])
  /\ \E g \in ret[t].groups : Publish("CREATED", g.id)

\* Mutant: the error of save is not answered.
AfterSave_Silent(t) ==
  /\ Cmd(t).subject \in {"CREATE", "UPDATE"}
  /\ \/ /\ ret[t].status \in {"created", "saved"}
        /\ Continue(t, [job[t] EXCEPT !.step = "reply", !.out = ret[t].groups])
     \/ ret[t].status = "write error" /\ Continue(t, NoJob)
  /\ UNCHANGED events

\* Create::run and Update::run
AfterSave(t) ==
  /\ Cmd(t).subject \in {"CREATE", "UPDATE"}
  /\ \/ /\ ret[t].status \in {"created", "saved"}
        /\ Continue(t, [job[t] EXCEPT !.step = "reply", !.out = ret[t].groups])
        /\ \E g \in ret[t].groups :
             Publish(IF Cmd(t).subject = "CREATE" THEN "CREATED" ELSE "UPDATED", g.id)
     \/ /\ ret[t].status = "write error"
        /\ Continue(t, Fails(job[t]))
        /\ UNCHANGED events

\* Mutant: a removal is announced before its outcome is looked at.
AfterRemove_Always(t) ==
  /\ Cmd(t).subject = "DELETE"
  /\ Continue(t, Advance(job[t]))
  /\ Publish("DELETED", Head(job[t].left))

\* Remove::run: one id; an error is reported in its line and the loop goes on.
AfterRemove(t) ==
  /\ Cmd(t).subject = "DELETE"
  /\ LET i == Head(job[t].left) IN
     \/ /\ ret[t].status = "ok"
        /\ Continue(t, Advance([job[t] EXCEPT !.removed = @ \cup {i}]))
        /\ Publish("DELETED", i)
     \/ /\ ret[t].status \in {"not found", "write error"}
        /\ Continue(t, Advance(job[t]))
        /\ UNCHANGED events

\* List::run: ids() returned.
AfterIds(t) ==
  /\ job[t].listing
  /\ ret[t].status = "ok"
  /\ \E ids \in Ascending(Ids(ret[t])) :
       Continue(t, [job[t] EXCEPT !.listing = FALSE, !.left = ids,
                                  !.step = IF ids = <<>> THEN "reply" ELSE "call"])
  /\ UNCHANGED events

\* Mutant: a group that is gone ends the list instead of failing it.
AfterById_Breaks(t) ==
  /\ Cmd(t).subject \in {"LIST", "READ"}
  /\ ~job[t].listing
  /\ \/ /\ ret[t].status = "ok"
        /\ Continue(t, Advance([job[t] EXCEPT !.out = @ \cup ret[t].groups]))
     \/ ret[t].status = "not found" /\ Continue(t, [job[t] EXCEPT !.step = "reply"])
  /\ UNCHANGED events

\* List::run and Read::run: byId returned.
AfterById(t) ==
  /\ Cmd(t).subject \in {"LIST", "READ"}
  /\ ~job[t].listing
  /\ \/ /\ ret[t].status = "ok"
        /\ Continue(t, Advance([job[t] EXCEPT !.out = @ \cup ret[t].groups]))
     \/ ret[t].status = "not found" /\ Continue(t, Fails(job[t]))
  /\ UNCHANGED events

(* Resolve::run: byId returned.  The query is about assets, not about the  *)
(* groups: it succeeds or ends with a job::Error.                          *)
AfterResolve(t) ==
  /\ Cmd(t).subject = "RESOLVE"
  /\ ret[t].status \in {"ok", "not found"}
  /\ \/ ret[t].status = "ok" /\ Continue(t, Advance(job[t]))
     \/ Continue(t, Fails(job[t]))
  /\ UNCHANGED events

(* An exception other than job::Error leaves Task::operator(): create_directories *)
(* throws in Storage, or tntdb::connect in Resolve::run.  There is no reply.      *)
Escape(t) ==
  /\ \/ ret[t].status = "exception"
     \/ "connect" \in Outages /\ Cmd(t).subject = "RESOLVE" /\ ret[t].status = "ok"
  /\ Continue(t, NoJob)
  /\ UNCHANGED events

Resume(t) ==
  /\ job[t].step = "resume"
  /\ mutex # t
  /\ AfterSave(t) \/ AfterRemove(t) \/ AfterIds(t) \/ AfterById(t)
       \/ AfterResolve(t) \/ Escape(t)
  /\ UNCHANGED storageVars

Reply(t) ==
  /\ job[t].step = "reply"
  /\ job' = [job EXCEPT ![t] = NoJob]
  /\ \/ replies' = [replies EXCEPT ![job[t].req] = Append(@, ReplyOf(job[t]))]
     \/ "reply" \in Outages /\ UNCHANGED replies
  /\ UNCHANGED <<storageVars, asked, queue, events>>

\* The process dies: what the pool had is gone, what was sent is not.
Die ==
  /\ Crash
  /\ queue' = {}
  /\ job' = [t \in Threads |-> NoJob]
  /\ UNCHANGED <<asked, events, replies>>

-----------------------------------------------------------------------------
(* History: for a LIST whose ids() has been called, the ids it was given,   *)
(* those of them stored all the time since, and every group stored since.  *)

Listing(j) == j.req # NoRequest /\ asked[j.req].subject = "LIST"

Observe ==
  view' = [t \in Threads |->
    IF ~Listing(job'[t]) THEN NoView
    ELSE IF job'[t].listing /\ job[t].step # "resume"
    THEN [given |-> Ids(memory'), kept |-> Ids(memory'), seen |-> memory'.groups]
    ELSE [given |-> view[t].given,
          kept |-> view[t].kept \cap Ids(memory'),
          seen |-> view[t].seen \cup memory'.groups]]

Work(t) ==
  \/ (\E r \in Requests : Start(t, r)) /\ Observe
  \/ Call(t) /\ Observe
  \/ Write(t) /\ Observe
  \/ Resume(t) /\ Observe
  \/ Reply(t) /\ Observe

AgentNext ==
  \/ \E r \in Requests, c \in Commands : Process(r, c) /\ Observe
  \/ \E t \in Threads : Work(t)
  \/ Die /\ Observe

AgentSpec == AgentInit /\ [][AgentNext]_vars

(* The threads of the pool are scheduled: one that can go on does.         *)
Fairness == \A t \in Threads : WF_vars(Work(t))

FairAgentSpec == AgentSpec /\ Fairness

-----------------------------------------------------------------------------
AgentTypeOK ==
  /\ TypeOK
  /\ asked \in [Requests -> Commands \cup {NoCommand}]
  /\ queue \in SUBSET Requests
  /\ job \in [Threads -> Job]
  /\ events \in Seq(Event)
  /\ replies \in [Requests -> Seq(Answer)]
  /\ view \in [Threads -> [given : SUBSET (0 .. MaxId), kept : SUBSET (0 .. MaxId),
                       seen : SUBSET Group]]

Workers(r) == {t \in Threads : job[t].req = r}

(* A request is waiting, or a worker has it, or it was replied to, and     *)
(* never two of them: no request is run by two workers or replied to       *)
(* twice, whatever fails.                                                  *)
HandledOnce ==
  \A r \in Requests :
    /\ \A t, u \in Workers(r) : t = u
    /\ r \in queue => Workers(r) = {}
    /\ r \in queue \/ Workers(r) # {} => replies[r] = <<>> /\ asked[r] # NoCommand
    /\ replies[r] # <<>> => Len(replies[r]) = 1 /\ asked[r] # NoCommand

Announced(subject, i) ==
  \E k \in DOMAIN events : events[k] = [subject |-> subject, id |-> i]

Answers(r) == {replies[r][k] : k \in DOMAIN replies[r]}

(* When a client reads that its change was made, the change was announced: *)
(* the event is published before the reply is sent.                        *)
AnnouncedFirst ==
  \A r \in Requests : \A a \in Answers(r) :
    /\ asked[r].subject = "CREATE" => \A g \in a.out : Announced("CREATED", g.id)
    /\ asked[r].subject = "UPDATE" => \A g \in a.out : Announced("UPDATED", g.id)
    /\ \A i \in a.removed : Announced("DELETED", i)

(* When the agent has nothing to do, the events tell which groups there    *)
(* are: every id handed out and no longer stored was announced as deleted, *)
(* once, and no other id was.                                              *)
EventsAgreeWhenQuiet ==
  (\A t \in Threads : job[t] = NoJob) =>
    /\ inited => \A i \in 1 .. memory.lastId :
                   i \notin Ids(memory) <=> Announced("DELETED", i)
    /\ \A i \in acked : Announced("CREATED", i)
    /\ \A k, l \in DOMAIN events :
         events[k] = events[l] /\ events[k].subject = "DELETED" => k = l

(* An id that a client was told is deleted, by an event or by a reply,     *)
(* never comes back: not by a later create, not by an update that was      *)
(* under way, not by a restart.                                            *)
Gone ==
  {i \in 1 .. MaxId : Announced("DELETED", i)}
  \cup UNION {a.removed : a \in UNION {Answers(r) : r \in Requests}}

GoneForever == Gone \cap (Ids(memory) \cup Ids(file)) = {}

(* A group whose creation was confirmed is stored, and stays stored        *)
(* through every restart, unless somebody asked to delete it.              *)
ConfirmedSurvives ==
  \A r \in Requests : \A a \in Answers(r) :
    asked[r].subject = "CREATE" /\ NoId \in {g.id : g \in asked[r].groups} =>
      \A i \in {g.id : g \in a.out} :
        \/ i \in Ids(file)
        \/ \E q \in Requests :
             asked[q].subject = "DELETE" /\ \E k \in DOMAIN asked[q].ids : asked[q].ids[k] = i

(* LIST asks Storage for the ids and then for one group at a time.  Its    *)
(* answer holds every group that was stored all the time, nothing that was *)
(* not stored at some time, and it fails only if a group it was given was  *)
(* removed.                                                                *)
ListHonest ==
  \A t \in Threads : Listing(job[t]) /\ job[t].step = "reply" =>
    IF job[t].status = "ok"
    THEN view[t].kept \subseteq {g.id : g \in job[t].out} /\ job[t].out \subseteq view[t].seen
    ELSE view[t].kept # view[t].given

(* Every request with a subject the agent knows is replied to, also when   *)
(* its payload is broken or the file cannot be written.                    *)
EveryRequestAnswered ==
  \A r \in Requests : asked[r].subject \in Subjects ~> replies[r] # <<>>
=============================================================================
