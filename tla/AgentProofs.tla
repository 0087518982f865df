----------------------------- MODULE AgentProofs -----------------------------
(* Theorems about the agent, for every number of workers, requests, names  *)
(* and ids.                                                                *)
EXTENDS Agent, StorageProofs, FiniteSetTheorems, SequenceTheorems

(* A worker that calls Storage, or goes on after a call, has a request the *)
(* agent knows, and there is an id left unless the call needs none.        *)
NeedsId(j) ==
  /\ asked[j.req].subject \notin {"CREATE", "UPDATE"}
  /\ ~(asked[j.req].subject = "LIST" /\ j.listing)

JobOK(j) ==
  /\ j.step # "idle" => j.req \in Requests
  /\ j.step \in {"call", "resume"} =>
       asked[j.req] \in Commands /\ (NeedsId(j) => j.left # <<>>)

JobsOK ==
  /\ asked \in [Requests -> Commands \cup {NoCommand}]
  /\ queue \in SUBSET {r \in Requests : asked[r] \in Commands /\ asked[r].subject \in Subjects}
  /\ job \in [Threads -> Job]
  /\ \A t \in Threads : JobOK(job[t])

(* What a worker does to Storage is something Storage allows.              *)
LEMMA StorageStep == JobsOK /\ [AgentNext]_vars => [Next]_storageVars
  <1> SUFFICES ASSUME JobsOK, [AgentNext]_vars PROVE [Next]_storageVars
    OBVIOUS
  <1>1. ASSUME NEW t \in Threads, Call(t) PROVE Next
    <2> DEFINE i == Head(job[t].left)
    <2>1. Cmd(t) \in Command /\ job[t].left \in Seq(0 .. MaxId)
      BY <1>1, AgentAssumption DEF Call, JobsOK, JobOK, Job, Cmd
    <2>2. job[t].left # <<>> => i \in 0 .. MaxId
      BY <2>1, HeadTailProperties
    <2>3. NeedsId(job[t]) => job[t].left # <<>>
      BY <1>1 DEF Call, JobsOK, JobOK
    <2>4. CASE \E g \in Cmd(t).groups : Save(t, g)
      BY <2>1, <2>4 DEF Command, Next
    <2>5. CASE Cmd(t).subject = "DELETE" /\ Remove(t, i)
      BY <2>2, <2>3, <2>5 DEF NeedsId, Cmd, Next
    <2>6. CASE Keys(t) \/ InitThrows(t)
      BY <2>6 DEF Next
    <2>7. CASE NeedsId(job[t]) /\ ById(t, i)
      BY <2>2, <2>3, <2>7 DEF Next
    <2> QED
      BY <1>1, <2>4, <2>5, <2>6, <2>7 DEF Call, NeedsId, Cmd
  <1>2. ASSUME NEW t \in Threads, Write(t) PROVE Next
    BY <1>2 DEF Write, Next
  <1>3. CASE Die
    BY <1>3 DEF Die, Next
  <1>4. ASSUME NEW t \in Threads, NEW r \in Requests, Start(t, r)
        PROVE  UNCHANGED storageVars
    BY <1>4 DEF Start
  <1>5. ASSUME NEW t \in Threads, Resume(t) \/ Reply(t) PROVE UNCHANGED storageVars
    BY <1>5 DEF Resume, Reply
  <1>6. ASSUME NEW r \in Requests, NEW c \in Commands, Process(r, c)
        PROVE  UNCHANGED storageVars
    BY <1>6 DEF Process
  <1>7. CASE UNCHANGED vars
    BY <1>7 DEF vars
  <1> QED
    BY <1>1, <1>2, <1>3, <1>4, <1>5, <1>6, <1>7 DEF AgentNext, Work

-----------------------------------------------------------------------------
(* JobsOK is inductive, given the types of Storage.                        *)

LEMMA AdvanceJob ==
  ASSUME NEW j \in Job, j.left # <<>>
  PROVE  /\ Advance(j) \in Job
         /\ Advance(j).req = j.req
         /\ Advance(j).step \in {"call", "reply"}
         /\ Advance(j).step = "call" => Advance(j).left # <<>>
  <1>1. j.left \in Seq(0 .. MaxId)
    BY DEF Job
  <1>2. Tail(j.left) \in Seq(0 .. MaxId) /\ Len(Tail(j.left)) = Len(j.left) - 1
    BY <1>1, HeadTailProperties
  <1>3. Len(j.left) > 1 => Tail(j.left) # <<>>
    <2>1. Len(j.left) \in Nat
      BY <1>1, LenProperties
    <2>2. Len(<<>>) = 0
      BY EmptySeq
    <2>3. Tail(j.left) = <<>> => Len(Tail(j.left)) = 0
      BY <2>2, Zenon
    <2>4. \A n \in Nat : n > 1 => n - 1 # 0
      OBVIOUS
    <2> QED
      BY <1>2, <2>1, <2>3, <2>4, Zenon
  <1> QED
    BY <1>2, <1>3 DEF Job, Advance

LEMMA FailsJob ==
  ASSUME NEW j \in Job
  PROVE  Fails(j) \in Job /\ Fails(j).req = j.req /\ Fails(j).step = "reply"
  BY DEF Job, Fails

LEMMA RepliesJob ==
  ASSUME NEW j \in Job
  PROVE  LET k == [j EXCEPT !.step = "reply"]
         IN k \in Job /\ k.req = j.req /\ k.step = "reply"
  BY DEF Job

LEMMA NoJobJob == NoJob \in Job /\ NoJob.step = "idle" /\ NoJob.req = NoRequest
  BY EmptySeq DEF Job, NoJob

\* The order of a list of ids.
LEMMA AscendingType ==
  ASSUME NEW S \in SUBSET (0 .. MaxId), NEW s \in Ascending(S)
  PROVE  s \in Seq(0 .. MaxId)
  <1>1. IsFiniteSet(0 .. MaxId)
    BY FS_Interval, GroupDbAssumption
  <1>2. Cardinality(S) \in Nat
    BY <1>1, FS_Subset, FS_CardinalityType
  <1>3. s \in [1 .. Cardinality(S) -> 0 .. MaxId]
    BY DEF Ascending
  <1>4. s \in UNION {[1 .. n -> 0 .. MaxId] : n \in Nat}
    BY <1>2, <1>3
  <1> QED
    BY <1>4, SeqDef, Zenon

(* The ids of a group list are sorted, and none is left out: an ascending  *)
(* sequence of as many members as the set has holds all of them.           *)
LEMMA AscendingRange ==
  ASSUME NEW S \in SUBSET (0 .. MaxId), NEW s \in Ascending(S)
  PROVE  Range(s) = S
  <1> DEFINE n == Cardinality(S)
  <1>0. IsFiniteSet(0 .. MaxId)
    BY FS_Interval, GroupDbAssumption
  <1>1. IsFiniteSet(S)
    BY <1>0, FS_Subset
  <1>2. n \in Nat
    BY <1>1, FS_CardinalityType
  <1>3. IsFiniteSet(1 .. n) /\ Cardinality(1 .. n) = n
    BY <1>2, FS_Interval
  <1>4. s \in [1 .. n -> S] /\ \A i, j \in 1 .. n : i < j => s[i] < s[j]
    BY DEF Ascending
  <1>5. \A i \in 1 .. n : s[i] \in 0 .. MaxId
    BY <1>4
  <1>6. \A i, j \in 1 .. n : s[i] = s[j] => i = j
    <2> SUFFICES ASSUME NEW i \in 1 .. n, NEW j \in 1 .. n, s[i] = s[j], i # j
                 PROVE  FALSE
      OBVIOUS
    <2>1. i < j \/ j < i
      BY <1>2
    <2>2. s[i] < s[j] \/ s[j] < s[i]
      BY <1>4, <2>1
    <2> QED
      BY <1>5, <2>2, GroupDbAssumption
  <1>7. s \in Injection(1 .. n, S)
    BY <1>4, <1>6 DEF Injection, IsInjective
  <1>8. s \in Surjection(1 .. n, S)
    BY <1>1, <1>3, <1>7, FS_Injection
  <1> QED
    BY <1>4, <1>8 DEF Surjection, Range

\* The members of a sequence are its head and those of its tail.
LEMMA HeadTailRange ==
  ASSUME NEW s \in Seq(0 .. MaxId), s # <<>>
  PROVE  Range(s) = {Head(s)} \cup Range(Tail(s))
  <1>1. /\ Tail(s) \in Seq(0 .. MaxId) /\ Len(Tail(s)) = Len(s) - 1 /\ Len(s) \in Nat
        /\ Len(s) # 0
        /\ \A i \in 1 .. Len(s) - 1 : Tail(s)[i] = s[i + 1]
    BY HeadTailProperties, LenProperties, EmptySeq
  <1>a. Head(s) = s[1]
    OBVIOUS
  <1>2. DOMAIN s = 1 .. Len(s) /\ DOMAIN Tail(s) = 1 .. Len(s) - 1
    BY <1>1, LenProperties
  <1>3. ASSUME NEW i \in DOMAIN s PROVE i = 1 \/ (i - 1 \in DOMAIN Tail(s) /\ Tail(s)[i - 1] = s[i])
    BY <1>1, <1>2
  <1>4. ASSUME NEW i \in DOMAIN Tail(s) PROVE i + 1 \in DOMAIN s /\ Tail(s)[i] = s[i + 1]
    BY <1>1, <1>2
  <1>5. 1 \in DOMAIN s
    BY <1>1, <1>2
  <1>6. ASSUME NEW x PROVE x \in Range(s) <=> x = Head(s) \/ x \in Range(Tail(s))
    <2>1. ASSUME NEW i \in DOMAIN s, x = s[i] PROVE x = Head(s) \/ x \in Range(Tail(s))
      BY <1>a, <1>3, <2>1 DEF Range
    <2>2. ASSUME NEW i \in DOMAIN Tail(s), x = Tail(s)[i] PROVE x \in Range(s)
      BY <1>4, <2>2 DEF Range
    <2>3. Head(s) \in Range(s)
      BY <1>a, <1>5 DEF Range
    <2> QED
      BY <2>1, <2>2, <2>3 DEF Range
  <1> QED
    BY <1>6

LEMMA EmptyRange == Range(<<>>) = {}
  BY DEF Range

\* After the last id none is left.
LEMMA LastTail ==
  ASSUME NEW s \in Seq(0 .. MaxId), s # <<>>, ~(Len(s) > 1)
  PROVE  Tail(s) = <<>>
  <1>1. Tail(s) \in Seq(0 .. MaxId) /\ Len(Tail(s)) = Len(s) - 1
    BY HeadTailProperties
  <1>2. Len(s) \in Nat /\ Len(s) # 0
    BY LenProperties, EmptySeq
  <1>3. Len(s) - 1 = 0
    BY <1>2
  <1> QED
    BY <1>1, <1>3, EmptySeq

\* Only the job of worker t changes, to j, and asked and queue do not.
LEMMA JobStep ==
  ASSUME JobsOK, NEW t \in Threads, NEW j \in Job, JobOK(j),
         job' = [job EXCEPT ![t] = j], UNCHANGED <<asked, queue>>
  PROVE  JobsOK'
  BY DEF JobsOK, JobOK, NeedsId

LEMMA JobsOKInit == AgentInit => JobsOK
  BY NoJobJob DEF AgentInit, JobsOK, JobOK

LEMMA ResumeJobs ==
  ASSUME JobsOK, TypeOK, NEW t \in Threads, Resume(t)
  PROVE  JobsOK'
  <1> DEFINE j == job[t]
             i == Head(j.left)
  <1>0. /\ j \in Job /\ JobOK(j) /\ j.step = "resume" /\ j.req \in Requests
        /\ Cmd(t) \in Commands /\ (NeedsId(j) => j.left # <<>>)
        /\ ret[t] \in Results
    BY DEF Resume, JobsOK, JobOK, Cmd, TypeOK
  <1>1. UNCHANGED <<asked, queue>>
    BY DEF Resume, AfterSave, AfterRemove, AfterIds, AfterById, AfterResolve, Escape, Continue
  <1>2. ASSUME NEW k \in Job, k.req = j.req, k.step \in {"call", "reply"},
               k.step = "call" => k.left # <<>>, Continue(t, k)
        PROVE  JobsOK'
    BY <1>0, <1>1, <1>2, JobStep DEF Continue, JobOK, Cmd
  <1>3. CASE AfterSave(t)
    <2>1. CASE Continue(t, [j EXCEPT !.step = "reply", !.out = ret[t].groups])
      <3>1. [j EXCEPT !.step = "reply", !.out = ret[t].groups] \in Job
        BY <1>0 DEF Job, Results
      <3> QED
        BY <1>0, <1>2, <2>1, <3>1 DEF Job
    <2>2. CASE Continue(t, Fails(j))
      BY <1>0, <1>2, <2>2, FailsJob
    <2> QED
      BY <1>3, <2>1, <2>2 DEF AfterSave
  <1>4. CASE AfterRemove(t)
    <2>1. j.left # <<>>
      BY <1>0, <1>4 DEF AfterRemove, NeedsId, Cmd
    <2>2. i \in 0 .. MaxId
      BY <1>0, <2>1, HeadTailProperties DEF Job
    <2> DEFINE k == [j EXCEPT !.removed = @ \cup {i}]
    <2>3. k \in Job /\ k.left = j.left /\ k.req = j.req
      BY <1>0, <2>2 DEF Job
    <2>4. CASE Continue(t, Advance(k))
      BY <1>2, <2>1, <2>3, <2>4, AdvanceJob
    <2>5. CASE Continue(t, Advance(j))
      BY <1>0, <1>2, <2>1, <2>5, AdvanceJob
    <2> QED
      BY <1>4, <2>4, <2>5 DEF AfterRemove
  <1>5. CASE AfterIds(t)
    <2>1. Ids(ret[t]) \in SUBSET (0 .. MaxId)
      BY <1>0 DEF Results, Group, Ids
    <2>2. PICK ids \in Ascending(Ids(ret[t])) :
            Continue(t, [j EXCEPT !.listing = FALSE, !.left = ids,
                                  !.step = IF ids = <<>> THEN "reply" ELSE "call"])
      BY <1>5 DEF AfterIds
    <2>3. ids \in Seq(0 .. MaxId)
      BY <2>1, AscendingType
    <2> DEFINE k == [j EXCEPT !.listing = FALSE, !.left = ids,
                              !.step = IF ids = <<>> THEN "reply" ELSE "call"]
    <2>4. /\ k \in Job /\ k.req = j.req /\ k.step \in {"call", "reply"}
          /\ k.step = "call" => k.left # <<>>
      BY <1>0, <2>3 DEF Job
    <2> QED
      BY <1>2, <2>2, <2>4
  <1>6. CASE AfterById(t)
    <2>1. j.left # <<>>
      BY <1>0, <1>6 DEF AfterById, NeedsId, Cmd
    <2> DEFINE k == [j EXCEPT !.out = @ \cup ret[t].groups]
    <2>2. k \in Job /\ k.left = j.left /\ k.req = j.req
      BY <1>0 DEF Job, Results
    <2>3. CASE Continue(t, Advance(k))
      BY <1>2, <2>1, <2>2, <2>3, AdvanceJob
    <2>4. CASE Continue(t, Fails(j))
      BY <1>0, <1>2, <2>4, FailsJob
    <2> QED
      BY <1>6, <2>3, <2>4 DEF AfterById
  <1>7. CASE AfterResolve(t)
    <2>1. j.left # <<>>
      BY <1>0, <1>7 DEF AfterResolve, NeedsId, Cmd
    <2> QED
      BY <1>0, <1>2, <1>7, <2>1, AdvanceJob, FailsJob DEF AfterResolve
  <1>8. CASE Escape(t)
    BY <1>1, <1>8, NoJobJob, JobStep DEF Escape, Continue, JobOK
  <1> QED
    BY <1>3, <1>4, <1>5, <1>6, <1>7, <1>8 DEF Resume

LEMMA NoCommandIsNone == NoCommand \notin Commands
  BY AgentAssumption DEF NoCommand, Command, Subjects

LEMMA StartJobs ==
  ASSUME JobsOK, NEW t \in Threads, NEW r \in Requests, Start(t, r)
  PROVE  JobsOK'
  <1> DEFINE c == asked[r]
             j == [NoJob EXCEPT !.step = "call", !.req = r, !.left = c.ids,
                                !.listing = c.subject = "LIST"]
             k == IF c.subject # "LIST" /\ ~c.valid THEN Fails(j)
                  ELSE IF c.subject = "DELETE" /\ c.ids = <<>>
                  THEN [j EXCEPT !.step = "reply"] ELSE j
  <1>1. c \in Commands /\ c \in Command /\ c.subject \in Subjects
    BY AgentAssumption DEF Start, JobsOK
  <1>2. /\ j \in Job /\ j.req = r /\ j.left = c.ids
        /\ j.listing = (c.subject = "LIST")
    BY <1>1, NoJobJob DEF NoJob, Job, Command
  <1>3. ASSUME c.subject # "LIST", ~c.valid PROVE k \in Job /\ JobOK(k)
    <2>1. k = Fails(j)
      BY <1>3
    <2> QED
      BY <1>2, <2>1, FailsJob DEF JobOK
  <1>4. ASSUME c.subject = "DELETE", c.valid, c.ids = <<>> PROVE k \in Job /\ JobOK(k)
    <2>1. k = [j EXCEPT !.step = "reply"]
      BY <1>4
    <2>2. k \in Job /\ k.req = r /\ k.step = "reply"
      <3> HIDE DEF j, k
      <3> QED
        BY <1>2, <2>1, RepliesJob
    <2> QED
      BY <2>2 DEF JobOK
  <1>5. ASSUME c.subject = "LIST" \/ c.valid, ~(c.subject = "DELETE" /\ c.ids = <<>>)
        PROVE  k \in Job /\ JobOK(k)
    <2>1. k = j
      BY <1>5
    <2>2. NeedsId(j) => j.left # <<>>
      <3>1. CASE c.subject \in {"READ", "RESOLVE"}
        <4>1. Len(c.ids) = 1
          BY <1>1, <1>5, <3>1, AgentAssumption
        <4>2. Len(<<>>) = 0
          BY EmptySeq
        <4>3. c.ids = <<>> => 0 = 1
          BY <4>1, <4>2, Zenon
        <4> QED
          BY <1>2, <4>3
      <3>2. CASE c.subject = "DELETE"
        BY <1>2, <1>5, <3>2
      <3>3. NeedsId(j) => c.subject \notin {"CREATE", "UPDATE", "LIST"}
        <4> HIDE DEF j
        <4> QED
          BY <1>2 DEF NeedsId
      <3> QED
        BY <1>1, <3>1, <3>2, <3>3 DEF Subjects
    <2> QED
      BY <1>1, <1>2, <2>1, <2>2 DEF JobOK
  <1>6. k \in Job /\ JobOK(k)
    BY <1>3, <1>4, <1>5
  <1>7. job' = [job EXCEPT ![t] = k] /\ asked' = asked /\ queue' \subseteq queue
    BY DEF Start
  <1> QED
    BY <1>6, <1>7 DEF JobsOK, JobOK, NeedsId

LEMMA JobsOKStep == JobsOK /\ TypeOK /\ [AgentNext]_vars => JobsOK'
  <1> SUFFICES ASSUME JobsOK, TypeOK, [AgentNext]_vars PROVE JobsOK'
    OBVIOUS
  <1>1. ASSUME NEW t \in Threads, NEW r \in Requests, Start(t, r) PROVE JobsOK'
    BY <1>1, StartJobs
  <1>2. ASSUME NEW t \in Threads, Call(t) PROVE JobsOK'
    <2> DEFINE j == [job[t] EXCEPT !.step = "resume"]
    <2>1. j \in Job /\ JobOK(j)
      BY <1>2 DEF Call, JobsOK, JobOK, NeedsId, Job
    <2> QED
      BY <1>2, <2>1, JobStep DEF Call
  <1>3. ASSUME NEW t \in Threads, Write(t) PROVE JobsOK'
    BY <1>3 DEF Write, agentVars, JobsOK, JobOK, NeedsId
  <1>4. ASSUME NEW t \in Threads, Resume(t) PROVE JobsOK'
    BY <1>4, ResumeJobs
  <1>5. ASSUME NEW t \in Threads, Reply(t) PROVE JobsOK'
    BY <1>5, NoJobJob, JobStep DEF Reply, JobOK
  <1>6. ASSUME NEW r \in Requests, NEW c \in Commands, Process(r, c) PROVE JobsOK'
    BY <1>6, NoCommandIsNone DEF Process, JobsOK, JobOK, NeedsId
  <1>7. CASE Die
    BY <1>7, NoJobJob DEF Die, JobsOK, JobOK
  <1>8. CASE UNCHANGED vars
    BY <1>8 DEF vars, agentVars, JobsOK, JobOK, NeedsId
  <1> QED
    BY <1>1, <1>2, <1>3, <1>4, <1>5, <1>6, <1>7, <1>8 DEF AgentNext, Work

(* The agent uses Storage as Storage is specified, so whatever holds of    *)
(* Storage holds of the Storage inside the agent.                          *)
THEOREM AgentUsesStorage == AgentSpec => Spec /\ []JobsOK
  <1>1. AgentInit => Init
    BY DEF AgentInit
  <1> QED
    BY <1>1, JobsOKInit, JobsOKStep, StorageStep, InitInv, NextInv, PTL
       DEF AgentSpec, Spec, Inv

(* Every Storage call a worker makes takes effect on the stored catalog,   *)
(* and is answered from it, in one step.                                   *)
THEOREM AgentImplementsCatalog ==
  ASSUME Faults \subseteq {"kill", "tear"}
  PROVE  AgentSpec => ImplementsCatalog
  BY AgentUsesStorage, StorageImplementsCatalog, PTL

-----------------------------------------------------------------------------
(* No request is run by two workers or replied to twice.                   *)

RepliesOK == replies \in [Requests -> Seq(Answer)]

LEMMA ResumeReq ==
  ASSUME JobsOK, NEW t \in Threads, Resume(t)
  PROVE  \E k : Continue(t, k) /\ k.req \in {job[t].req, NoRequest}
  <1>1. job[t] \in Job
    BY DEF JobsOK
  <1>2. ASSUME NEW j \in Job PROVE Advance(j).req = j.req /\ Fails(j).req = j.req
    BY DEF Advance, Fails, Job
  <1>3. CASE AfterSave(t)
    <2>1. [job[t] EXCEPT !.step = "reply", !.out = ret[t].groups].req = job[t].req
      BY <1>1 DEF Job
    <2> QED
      BY <1>1, <1>2, <1>3, <2>1 DEF AfterSave
  <1>4. CASE AfterRemove(t)
    <2> DEFINE k == [job[t] EXCEPT !.removed = @ \cup {Head(job[t].left)}]
    <2>1. Advance(k).req = job[t].req
      BY <1>1 DEF Advance, Job
    <2> QED
      BY <1>1, <1>2, <1>4, <2>1 DEF AfterRemove
  <1>5. CASE AfterIds(t)
    <2>1. ASSUME NEW ids PROVE
            [job[t] EXCEPT !.listing = FALSE, !.left = ids,
                           !.step = IF ids = <<>> THEN "reply" ELSE "call"].req = job[t].req
      BY <1>1 DEF Job
    <2> QED
      BY <1>5, <2>1 DEF AfterIds
  <1>6. CASE AfterById(t)
    <2> DEFINE k == [job[t] EXCEPT !.out = @ \cup ret[t].groups]
    <2>1. Advance(k).req = job[t].req
      BY <1>1 DEF Advance, Job
    <2> QED
      BY <1>1, <1>2, <1>6, <2>1 DEF AfterById
  <1>7. CASE AfterResolve(t)
    BY <1>1, <1>2, <1>7 DEF AfterResolve
  <1>8. CASE Escape(t)
    BY <1>8, NoJobJob DEF Escape
  <1> QED
    BY <1>3, <1>4, <1>5, <1>6, <1>7, <1>8 DEF Resume

\* Workers only let go of requests, and nothing is replied.
LEMMA LetGo ==
  ASSUME HandledOnce, RepliesOK, UNCHANGED <<asked, replies>>, queue' \subseteq queue,
         \A t \in Threads : job'[t].req \in {job[t].req, NoRequest}
  PROVE  HandledOnce' /\ RepliesOK'
  BY AgentAssumption DEF HandledOnce, RepliesOK, Workers

LEMMA HandledOnceStep ==
  JobsOK /\ HandledOnce /\ RepliesOK /\ [AgentNext]_vars => HandledOnce' /\ RepliesOK'
  <1> SUFFICES ASSUME JobsOK, HandledOnce, RepliesOK, [AgentNext]_vars
               PROVE  HandledOnce' /\ RepliesOK'
    OBVIOUS
  <1>1. ASSUME NEW t \in Threads, NEW r \in Requests, Start(t, r)
        PROVE  HandledOnce' /\ RepliesOK'
    <2>1. job'[t].req = r /\ \A u \in Threads \ {t} : job'[u] = job[u]
      <3> DEFINE j == [NoJob EXCEPT !.step = "call", !.req = r, !.left = asked[r].ids,
                                    !.listing = asked[r].subject = "LIST"]
      <3>1. /\ j.req = r
            /\ Fails(j).req = r
            /\ [j EXCEPT !.step = "reply"].req = r
        BY DEF NoJob, Fails
      <3> QED
        BY <1>1, <3>1 DEF Start, JobsOK
    <2>2. Workers(r) = {} /\ replies[r] = <<>> /\ asked[r] # NoCommand /\ job[t].req = NoRequest
      BY <1>1, NoJobJob DEF Start, HandledOnce
    <2>3. queue' = queue \ {r} /\ UNCHANGED <<asked, replies>>
      BY <1>1 DEF Start
    <2> QED
      BY <2>1, <2>2, <2>3, AgentAssumption DEF HandledOnce, RepliesOK, Workers
  <1>2. ASSUME NEW t \in Threads, Call(t) PROVE HandledOnce' /\ RepliesOK'
    <2>1. \A u \in Threads : job'[u].req = job[u].req
      BY <1>2 DEF Call, JobsOK, Job
    <2> QED
      BY <1>2, <2>1, LetGo DEF Call
  <1>3. ASSUME NEW t \in Threads, Write(t) PROVE HandledOnce' /\ RepliesOK'
    BY <1>3, LetGo DEF Write, agentVars
  <1>4. ASSUME NEW t \in Threads, Resume(t) PROVE HandledOnce' /\ RepliesOK'
    <2>1. PICK k : Continue(t, k) /\ k.req \in {job[t].req, NoRequest}
      BY <1>4, ResumeReq
    <2> QED
      BY <2>1, LetGo DEF Continue, JobsOK
  <1>5. ASSUME NEW t \in Threads, Reply(t) PROVE HandledOnce' /\ RepliesOK'
    <2> DEFINE r == job[t].req
               a == ReplyOf(job[t])
    <2>1. r \in Requests /\ a \in Answer /\ t \in Workers(r)
      BY <1>5 DEF Reply, JobsOK, JobOK, Job, ReplyOf, Answer, Workers
    <2>2. replies[r] = <<>> /\ asked[r] # NoCommand /\ r \notin queue
      BY <2>1 DEF HandledOnce
    <2>3. \A u \in Threads : job'[u].req = IF u = t THEN NoRequest ELSE job[u].req
      BY <1>5, NoJobJob DEF Reply, JobsOK
    <2>4. CASE UNCHANGED replies
      BY <1>5, <2>3, <2>4, LetGo DEF Reply
    <2>5. CASE replies' = [replies EXCEPT ![r] = Append(@, a)]
      <3>1. Append(<<>>, a) \in Seq(Answer) /\ Len(Append(<<>>, a)) = 1
        BY <2>1, EmptySeq, AppendProperties
      <3>2. RepliesOK' /\ Len(replies'[r]) = 1 /\ \A q \in Requests \ {r} : replies'[q] = replies[q]
        BY <2>1, <2>2, <2>5, <3>1 DEF RepliesOK
      <3>3. UNCHANGED <<asked, queue>>
        BY <1>5 DEF Reply
      <3>4. \A u \in Workers(r) : u = t
        BY <2>1 DEF HandledOnce
      <3> QED
        BY <2>1, <2>2, <2>3, <3>2, <3>3, <3>4, AgentAssumption DEF HandledOnce, Workers
    <2> QED
      BY <1>5, <2>4, <2>5 DEF Reply
  <1>6. ASSUME NEW r \in Requests, NEW c \in Commands, Process(r, c)
        PROVE  HandledOnce' /\ RepliesOK'
    <2>1. asked'[r] = c /\ c # NoCommand /\ \A q \in Requests \ {r} : asked'[q] = asked[q]
      BY <1>6, NoCommandIsNone DEF Process, JobsOK
    <2>2. r \notin queue /\ Workers(r) = {} /\ replies[r] = <<>>
      BY <1>6 DEF Process, HandledOnce
    <2>3. queue' \subseteq queue \cup {r} /\ UNCHANGED <<job, replies>>
      BY <1>6 DEF Process
    <2> QED
      BY <2>1, <2>2, <2>3 DEF HandledOnce, RepliesOK, Workers
  <1>7. CASE Die
    BY <1>7, NoJobJob, LetGo DEF Die
  <1>8. CASE UNCHANGED vars
    BY <1>8, LetGo DEF vars, agentVars
  <1> QED
    BY <1>1, <1>2, <1>3, <1>4, <1>5, <1>6, <1>7, <1>8 DEF AgentNext, Work

(* Whatever fails, no request is run by two workers, and none is replied   *)
(* to twice.                                                               *)
THEOREM HandledOnceAlways == AgentSpec => []HandledOnce
  <1>1. AgentInit => HandledOnce /\ RepliesOK
    BY AgentAssumption, NoJobJob, EmptySeq
       DEF AgentInit, HandledOnce, RepliesOK, Workers
  <1> QED
    BY <1>1, HandledOnceStep, AgentUsesStorage, PTL DEF AgentSpec

-----------------------------------------------------------------------------
(* What a step of the agent is for one of its workers.                     *)

\* A call finds the mutex free, and changes what only its own thread sees.
LEMMA CallAlone ==
  ASSUME Inv, NEW t \in Threads, Call(t)
  PROVE  mutex = NoThread /\ mutex' \in {NoThread, t} /\ \A u \in Threads \ {t} : ret'[u] = ret[u]
  <1>1. ASSUME NEW db, NEW x, Return(t, db, x) \/ Begin(t, db, x)
        PROVE  /\ mutex = NoThread /\ mutex' \in {NoThread, t}
               /\ \A u \in Threads \ {t} : ret'[u] = ret[u]
    BY <1>1 DEF Return, Begin, Inv, TypeOK
  <1> QED
    BY <1>1 DEF Call, Save, Remove, Keys, ById, InitThrows

(* A step is one of worker t's own, or the process dies, or it is a step of *)
(* another and leaves t what it had.                                        *)
LEMMA EachWorker ==
  ASSUME Inv, JobsOK, [AgentNext]_vars, NEW t \in Threads
  PROVE  \/ \E r \in Requests : Start(t, r)
         \/ Call(t) \/ Write(t) \/ Resume(t) \/ Reply(t) \/ Die
         \/ job'[t] = job[t] /\ ret'[t] = ret[t] /\ (mutex' = t <=> mutex = t)
  <1> DEFINE Left == job'[t] = job[t] /\ ret'[t] = ret[t] /\ (mutex' = t <=> mutex = t)
  <1>1. ASSUME NEW u \in Threads \ {t}, Work(u) PROVE Left
    <2>1. ASSUME NEW r \in Requests, Start(u, r) PROVE Left
      BY <1>1, <2>1 DEF Start, JobsOK, storageVars
    <2>4. CASE Reply(u)
      BY <1>1, <2>4 DEF Reply, JobsOK, storageVars
    <2>5. CASE Resume(u)
      BY <1>1, <2>5, ResumeReq DEF Resume, Continue, JobsOK, storageVars
    <2>2. CASE Call(u)
      <3>1. /\ mutex = NoThread /\ mutex' \in {NoThread, u}
            /\ \A v \in Threads \ {u} : ret'[v] = ret[v]
        BY <2>2, CallAlone
      <3>2. job'[t] = job[t]
        BY <2>2 DEF Call, JobsOK
      <3> QED
        BY <3>1, <3>2, StorageAssumption
    <2>3. CASE Write(u)
      BY <2>3, StorageAssumption DEF Write, WriteDone, WriteFailed, agentVars, Inv, TypeOK
    <2> QED
      BY <1>1, <2>1, <2>2, <2>3, <2>4, <2>5 DEF Work
  <1>2. CASE Work(t)
    BY <1>2 DEF Work
  <1>3. CASE Die
    BY <1>3
  <1>4. CASE (\E r \in Requests, c \in Commands : Process(r, c)) \/ UNCHANGED vars
    BY <1>4 DEF Process, vars, agentVars, storageVars
  <1> QED
    BY <1>1, <1>2, <1>3, <1>4 DEF AgentNext

\* What was asked under an id stays.
LEMMA AskedStays ==
  ASSUME JobsOK, [AgentNext]_vars, NEW r \in Requests, asked[r] # NoCommand
  PROVE  asked'[r] = asked[r]
  <1>1. ASSUME NEW q \in Requests, NEW c \in Commands, Process(q, c) PROVE asked'[r] = asked[r]
    BY <1>1 DEF Process, JobsOK
  <1>2. ASSUME NEW t \in Threads, Work(t) PROVE asked' = asked
    BY <1>2 DEF Work, Start, Call, Write, agentVars, Resume, AfterSave, AfterRemove, AfterIds,
                AfterById, AfterResolve, Escape, Continue, Reply
  <1> QED
    BY <1>1, <1>2 DEF AgentNext, Die, vars, agentVars

\* A worker's command stays.
LEMMA CmdStays ==
  ASSUME JobsOK, HandledOnce, [AgentNext]_vars, NEW t \in Threads, job'[t].req \in Requests
  PROVE  asked'[job'[t].req] = asked[job'[t].req]
  <1>1. ASSUME NEW q \in Requests, NEW c \in Commands, Process(q, c)
        PROVE  asked'[job'[t].req] = asked[job'[t].req]
    <2>1. job' = job /\ t \in Workers(job[t].req)
      BY <1>1 DEF Process, Workers
    <2>2. asked[job[t].req] # NoCommand
      BY <2>1 DEF HandledOnce
    <2> QED
      BY <2>1, <2>2, AskedStays
  <1>2. ASSUME NEW u \in Threads, Work(u) PROVE asked' = asked
    BY <1>2 DEF Work, Start, Call, Write, agentVars, Resume, AfterSave, AfterRemove, AfterIds,
                AfterById, AfterResolve, Escape, Continue, Reply
  <1> QED
    BY <1>1, <1>2 DEF AgentNext, Die, vars, agentVars

\* The worker that holds the mutex waits for a call that changes the document.
HolderOK ==
  \A t \in Threads : mutex = t =>
    job[t].step = "resume" /\ Cmd(t).subject \in {"CREATE", "UPDATE", "DELETE"}

LEMMA HolderOKInit == AgentInit => HolderOK
  BY StorageAssumption DEF AgentInit, Init, HolderOK

LEMMA HolderOKStep == Inv /\ JobsOK /\ HolderOK /\ [AgentNext]_vars => HolderOK'
  <1> SUFFICES ASSUME Inv, JobsOK, HolderOK, [AgentNext]_vars, NEW t \in Threads, mutex' = t
               PROVE  job'[t].step = "resume" /\ Cmd(t)'.subject \in {"CREATE", "UPDATE", "DELETE"}
    BY DEF HolderOK
  <1>1. ASSUME job'[t].req = job[t].req, job[t].step \in {"call", "resume"} PROVE Cmd(t)' = Cmd(t)
    <2>1. asked[job[t].req] # NoCommand /\ job[t].req \in Requests
      BY <1>1, NoCommandIsNone DEF JobsOK, JobOK
    <2> QED
      BY <1>1, <2>1, AskedStays DEF Cmd
  <1>2. CASE Call(t)
    <2>1. /\ job'[t].step = "resume" /\ job'[t].req = job[t].req /\ job[t].step = "call"
          /\ mutex = NoThread
      BY <1>2, CallAlone DEF Call, JobsOK, Job
    <2>2. ~Keys(t) /\ ~InitThrows(t) /\ \A i : ~ById(t, i)
      BY <2>1, StorageAssumption DEF Keys, InitThrows, ById, Return
    <2>3. Cmd(t).subject \in {"CREATE", "UPDATE", "DELETE"}
      BY <1>2, <2>2 DEF Call
    <2> QED
      BY <1>1, <2>1, <2>3
  <1>3. CASE job'[t] = job[t] /\ mutex = t
    BY <1>1, <1>3 DEF HolderOK
  <1>4. ASSUME NEW r \in Requests, Start(t, r) PROVE FALSE
    BY <1>4, NoJobJob DEF Start, storageVars, HolderOK
  <1>5. CASE Write(t) \/ Die
    BY <1>5, StorageAssumption DEF Write, WriteDone, WriteFailed, Die, Crash
  <1>6. CASE Resume(t) \/ Reply(t)
    BY <1>6 DEF Resume, Reply, storageVars, HolderOK
  <1> QED
    BY <1>2, <1>3, <1>4, <1>5, <1>6, EachWorker

\* What is broken never gets to Storage: a group is saved as it was parsed.
ValidOK ==
  \A t \in Threads : job[t].step \in {"call", "resume"} => Cmd(t).subject = "LIST" \/ Cmd(t).valid

LEMMA ValidOKStep == Inv /\ JobsOK /\ HandledOnce /\ ValidOK /\ [AgentNext]_vars => ValidOK'
  <1> SUFFICES ASSUME Inv, JobsOK, HandledOnce, ValidOK, [AgentNext]_vars,
                      NEW t \in Threads, job'[t].step \in {"call", "resume"}
               PROVE  Cmd(t)'.subject = "LIST" \/ Cmd(t)'.valid
    BY DEF ValidOK
  <1>1. asked'[job'[t].req] = asked[job'[t].req]
    <2>1. job'[t].req \in Requests
      BY JobsOKStep DEF Inv, JobsOK, JobOK
    <2> QED
      BY <2>1, CmdStays
  <1>2. ASSUME job'[t].req = job[t].req, job[t].step \in {"call", "resume"}
        PROVE  Cmd(t)'.subject = "LIST" \/ Cmd(t)'.valid
    BY <1>1, <1>2 DEF ValidOK, Cmd
  <1>3. ASSUME NEW r \in Requests, Start(t, r)
        PROVE  Cmd(t)'.subject = "LIST" \/ Cmd(t)'.valid
    <2> DEFINE j == [NoJob EXCEPT !.step = "call", !.req = r, !.left = asked[r].ids,
                                  !.listing = asked[r].subject = "LIST"]
    <2>1. Fails(j).step = "reply" /\ [j EXCEPT !.step = "reply"].step = "reply" /\ j.req = r
      BY DEF NoJob, Fails
    <2>2. job'[t] = j /\ (asked[r].subject = "LIST" \/ asked[r].valid)
      <3> HIDE DEF j
      <3>1. job'[t] = IF asked[r].subject # "LIST" /\ ~asked[r].valid THEN Fails(j)
                      ELSE IF asked[r].subject = "DELETE" /\ asked[r].ids = <<>>
                      THEN [j EXCEPT !.step = "reply"] ELSE j
        BY <1>3 DEF Start, JobsOK, j
      <3> QED
        BY <2>1, <3>1
    <2> QED
      BY <1>1, <2>1, <2>2 DEF Cmd
  <1>4. CASE Call(t)
    BY <1>2, <1>4 DEF Call, JobsOK, Job
  <1>5. CASE Resume(t)
    <2>1. job'[t].req \in {job[t].req, NoRequest}
      BY <1>5, ResumeReq DEF Continue, JobsOK
    <2>2. job'[t].req \in Requests
      BY JobsOKStep DEF Inv, JobsOK, JobOK
    <2> QED
      BY <1>2, <1>5, <2>1, <2>2, AgentAssumption DEF Resume
  <1>6. CASE Write(t)
    BY <1>2, <1>6 DEF Write, agentVars
  <1>7. CASE Reply(t) \/ Die
    BY <1>7, NoJobJob DEF Reply, Die, JobsOK
  <1> QED
    BY <1>2, <1>3, <1>4, <1>5, <1>6, <1>7, EachWorker

\* An answer was there before, or a worker gives it now.
LEMMA NewAnswers ==
  ASSUME JobsOK, HandledOnce, RepliesOK, [AgentNext]_vars, NEW r \in Requests, NEW a \in Answers(r)'
  PROVE  a \in Answers(r) \/ \E t \in Threads : Reply(t) /\ job[t].req = r /\ a = ReplyOf(job[t])
  <1>1. CASE replies' = replies
    BY <1>1 DEF Answers
  <1>2. ASSUME NEW t \in Threads, Reply(t), replies' # replies
        PROVE  a \in Answers(r) \/ (job[t].req = r /\ a = ReplyOf(job[t]))
    <2>0. PICK b : b = ReplyOf(job[t])
      OBVIOUS
    <2>1. PICK q \in Requests : q = job[t].req
      BY <1>2 DEF Reply, JobsOK, JobOK
    <2>2. replies[q] = <<>> /\ b \in Answer
      BY <1>2, <2>0, <2>1 DEF HandledOnce, Workers, JobsOK, Job, ReplyOf, Answer
    <2>3. replies' = [replies EXCEPT ![q] = Append(@, b)]
      BY <1>2, <2>0, <2>1 DEF Reply
    <2>4. replies'[q] = Append(<<>>, b) /\ \A s \in Requests \ {q} : replies'[s] = replies[s]
      BY <2>2, <2>3 DEF RepliesOK
    <2>5. Len(Append(<<>>, b)) = 1 /\ Append(<<>>, b)[1] = b /\ Append(<<>>, b) \in Seq(Answer)
      BY <2>2, EmptySeq, AppendProperties
    <2>6. DOMAIN Append(<<>>, b) = 1 .. 1
      BY <2>5, LenProperties
    <2>7. \A c \in Answers(q)' : c = b
      BY <2>4, <2>5, <2>6 DEF Answers
    <2>8. r # q => a \in Answers(r)
      BY <2>4 DEF Answers
    <2> QED
      BY <2>0, <2>1, <2>7, <2>8
  <1>3. ASSUME NEW t \in Threads, Work(t), ~Reply(t) PROVE replies' = replies
    BY <1>3 DEF Work, Start, Call, Write, agentVars, Resume, AfterSave, AfterRemove, AfterIds,
                AfterById, AfterResolve, Escape, Continue
  <1> QED
    BY <1>1, <1>2, <1>3 DEF AgentNext, Process, Die, vars, agentVars

-----------------------------------------------------------------------------
(* The types of what the agent keeps besides.                              *)

\* An event is among the events es.
Told(es, subject, i) ==
  \E k \in DOMAIN es : es[k] = [subject |-> subject, id |-> i]

LEMMA PublishSays ==
  ASSUME events \in Seq(Event), NEW s \in {"CREATED", "UPDATED", "DELETED"},
         NEW i \in 0 .. MaxId, Publish(s, i)
  PROVE  /\ events' \in Seq(Event)
         /\ \A q, k : Told(events, q, k) => Told(events', q, k)
         /\ "publish" \notin Outages => Told(events', s, i)
  <1> DEFINE e == [subject |-> s, id |-> i]
  <1>1. e \in Event
    BY DEF Event
  <1>2. CASE UNCHANGED events
    BY <1>2 DEF Told, Publish
  <1>3. CASE events' = Append(events, e)
    <2>1. /\ events' \in Seq(Event)
          /\ Len(events') = Len(events) + 1
          /\ \A k \in 1 .. Len(events) : events'[k] = events[k]
          /\ events'[Len(events) + 1] = e
      BY <1>1, <1>3, AppendProperties
    <2>2. /\ Len(events) \in Nat
          /\ DOMAIN events = 1 .. Len(events)
          /\ DOMAIN events' = 1 .. Len(events')
      BY <2>1, LenProperties
    <2>3. DOMAIN events' = 1 .. Len(events) + 1 /\ Len(events) + 1 \in DOMAIN events'
      BY <2>1, <2>2
    <2>4. \A k \in DOMAIN events : k \in DOMAIN events' /\ events'[k] = events[k]
      BY <2>1, <2>2, <2>3
    <2> QED
      BY <2>1, <2>3, <2>4, Zenon DEF Told
  <1> QED
    BY <1>2, <1>3 DEF Publish

\* What is published is an event, and what was published stays so.
LEMMA EventsGrow ==
  ASSUME JobsOK, TypeOK, events \in Seq(Event), [AgentNext]_vars
  PROVE  events' \in Seq(Event) /\ \A q, k : Told(events, q, k) => Told(events', q, k)
  <1> DEFINE Goal == events' \in Seq(Event) /\ \A q, k : Told(events, q, k) => Told(events', q, k)
  <1>1. ASSUME UNCHANGED events PROVE Goal
    BY <1>1
  <1>2. ASSUME NEW t \in Threads, Resume(t) PROVE Goal
    <2>0. /\ ret[t] \in Results /\ job[t] \in Job /\ JobOK(job[t])
          /\ job[t].step = "resume"
      BY <1>2 DEF Resume, JobsOK, TypeOK
    <2>1. CASE AfterSave(t)
      <3>1. CASE UNCHANGED events
        BY <1>1, <3>1
      <3>2. CASE \E g \in ret[t].groups :
                   Publish(IF Cmd(t).subject = "CREATE" THEN "CREATED" ELSE "UPDATED", g.id)
        <4>1. PICK g \in ret[t].groups :
                Publish(IF Cmd(t).subject = "CREATE" THEN "CREATED" ELSE "UPDATED", g.id)
          BY <3>2
        <4>2. g.id \in 0 .. MaxId
          BY <2>0 DEF Results, Group
        <4> QED
          BY <4>1, <4>2, PublishSays
      <3> QED
        BY <2>1, <3>1, <3>2 DEF AfterSave
    <2>2. CASE AfterRemove(t)
      <3>1. job[t].left # <<>>
        BY <2>0, <2>2 DEF AfterRemove, JobOK, NeedsId, Cmd
      <3>2. Head(job[t].left) \in 0 .. MaxId
        BY <2>0, <3>1, HeadTailProperties DEF Job
      <3> QED
        BY <1>1, <2>2, <3>2, PublishSays DEF AfterRemove
    <2>3. CASE AfterIds(t) \/ AfterById(t) \/ AfterResolve(t) \/ Escape(t)
      BY <1>1, <2>3 DEF AfterIds, AfterById, AfterResolve, Escape
    <2> QED
      BY <1>2, <2>1, <2>2, <2>3 DEF Resume
  <1>3. ASSUME NEW t \in Threads,
               (\E r \in Requests : Start(t, r)) \/ Call(t) \/ Write(t) \/ Reply(t)
        PROVE  Goal
    BY <1>1, <1>3 DEF Start, Call, Write, Reply, agentVars
  <1>4. ASSUME NEW r \in Requests, NEW c \in Commands, Process(r, c) PROVE Goal
    BY <1>1, <1>4 DEF Process
  <1>5. ASSUME Die PROVE Goal
    BY <1>1, <1>5 DEF Die
  <1>6. ASSUME UNCHANGED vars PROVE Goal
    BY <1>1, <1>6 DEF vars, agentVars
  <1> HIDE DEF Goal
  <1>7. Goal
    BY <1>2, <1>3, <1>4, <1>5, <1>6 DEF AgentNext, Work
  <1> QED
    BY <1>7 DEF Goal

EventsOK == events \in Seq(Event)

\* What holds of the agent whatever fails.
AgentInv == Inv /\ JobsOK /\ HolderOK /\ ValidOK /\ HandledOnce /\ RepliesOK /\ EventsOK

LEMMA AgentAlways == AgentSpec => []AgentInv
  <1>1. AgentInit => RepliesOK /\ EventsOK /\ HandledOnce
    BY AgentAssumption, NoJobJob, EmptySeq
       DEF AgentInit, RepliesOK, EventsOK, HandledOnce, Workers
  <1>2. AgentInit => Inv /\ ValidOK
    BY InitInv, NoJobJob DEF AgentInit, ValidOK
  <1>3. AgentInv /\ [AgentNext]_vars => AgentInv'
    <2> SUFFICES ASSUME AgentInv, [AgentNext]_vars PROVE AgentInv'
      OBVIOUS
    <2>1. Inv'
      BY StorageStep, NextInv DEF AgentInv
    <2>2. JobsOK'
      BY JobsOKStep DEF AgentInv, Inv
    <2>3. HolderOK' /\ ValidOK' /\ HandledOnce' /\ RepliesOK'
      BY HolderOKStep, ValidOKStep, HandledOnceStep DEF AgentInv
    <2>4. EventsOK'
      BY EventsGrow DEF AgentInv, Inv, EventsOK
    <2> QED
      BY <2>1, <2>2, <2>3, <2>4 DEF AgentInv
  <1> QED
    BY <1>1, <1>2, <1>3, JobsOKInit, HolderOKInit, PTL DEF AgentSpec, AgentInv

\* A worker does not disturb the others.
LEMMA WorkAlone ==
  ASSUME AgentInv, NEW t \in Threads, Work(t), NEW u \in Threads, u # t
  PROVE  job'[u] = job[u] /\ ret'[u] = ret[u] /\ (mutex' = u <=> mutex = u)
  <1>0. Inv /\ JobsOK /\ job \in [Threads -> Job] /\ ret \in [Threads -> Results]
    BY DEF AgentInv, JobsOK, Inv, TypeOK
  <1>1. CASE \E r \in Requests : Start(t, r)
    BY <1>0, <1>1 DEF Start, storageVars
  <1>2. CASE Call(t)
    <2>1. job'[u] = job[u]
      BY <1>0, <1>2 DEF Call
    <2>2. /\ mutex = NoThread /\ mutex' \in {NoThread, t}
          /\ \A v \in Threads \ {t} : ret'[v] = ret[v]
      BY <1>0, <1>2, CallAlone
    <2> QED
      BY <2>1, <2>2, StorageAssumption
  <1>3. CASE Write(t)
    BY <1>0, <1>3, StorageAssumption DEF Write, WriteDone, WriteFailed, agentVars
  <1>4. CASE Resume(t)
    BY <1>0, <1>4, ResumeReq DEF Resume, storageVars, Continue
  <1>5. CASE Reply(t)
    BY <1>0, <1>5 DEF Reply, storageVars
  <1> QED
    BY <1>1, <1>2, <1>3, <1>4, <1>5 DEF Work

ViewOK == view \in [Threads -> [given : SUBSET (0 .. MaxId), kept : SUBSET (0 .. MaxId),
                                 seen : SUBSET Group]]

LEMMA ViewStep == TypeOK' /\ ViewOK /\ [AgentNext]_vars => ViewOK'
  <1> SUFFICES ASSUME TypeOK', ViewOK, [AgentNext]_vars PROVE ViewOK'
    OBVIOUS
  <1>1. CASE Observe
    <2>1. memory'.groups \in SUBSET Group /\ Ids(memory)' \in SUBSET (0 .. MaxId)
      BY DEF TypeOK, DbObj, Group, Ids
    <2> QED
      BY <1>1, <2>1 DEF Observe, ViewOK, NoView
  <1>2. CASE UNCHANGED view
    BY <1>2 DEF ViewOK
  <1> QED
    BY <1>1, <1>2 DEF AgentNext, Work, vars

(* Everything the agent keeps and sends has its type, whatever fails.      *)
THEOREM AgentTypeCorrect == AgentSpec => []AgentTypeOK
  <1>1. AgentInit => RepliesOK /\ EventsOK /\ ViewOK /\ HandledOnce
    BY AgentAssumption, NoJobJob, EmptySeq
       DEF AgentInit, RepliesOK, EventsOK, ViewOK, NoView, HandledOnce, Workers
  <1>2. JobsOK /\ TypeOK /\ EventsOK /\ [AgentNext]_vars => EventsOK'
    BY EventsGrow DEF EventsOK
  <1>3. JobsOK /\ TypeOK /\ RepliesOK /\ EventsOK /\ ViewOK => AgentTypeOK
    BY DEF JobsOK, RepliesOK, EventsOK, ViewOK, AgentTypeOK
  <1> QED
    BY <1>1, <1>2, <1>3, ViewStep, HandledOnceStep, AgentUsesStorage, TypeCorrect, PTL
       DEF AgentSpec

-----------------------------------------------------------------------------
(* What a client reads was announced before.                               *)

\* save returns one group.
OneSaved ==
  /\ \A t \in Threads : ret[t].status \in {"created", "saved"} => \E g \in Group : ret[t].groups = {g}
  /\ pending.status \in {"created", "saved"} => \E g \in Group : pending.groups = {g}

LEMMA OneSavedStep == Inv /\ OneSaved /\ [Next]_storageVars => OneSaved'
  <1> SUFFICES ASSUME Inv, OneSaved, [Next]_storageVars PROVE OneSaved'
    OBVIOUS
  <1> DEFINE Other(x) == x.status \notin {"created", "saved"}
  <1>0. ret \in [Threads -> Results]
    BY DEF Inv, TypeOK
  <1>1. ASSUME NEW t \in Threads, NEW db, NEW x, Return(t, db, x), Other(x) PROVE OneSaved'
    BY <1>0, <1>1 DEF Return, OneSaved
  <1>2. ASSUME NEW t \in Threads, NEW db, NEW x, Begin(t, db, x), Other(x) PROVE OneSaved'
    BY <1>2 DEF Begin, OneSaved
  <1>3. \A S : Other(Found(S)) /\ Other(Result("ok", S)) /\ Other(Result("exception", S))
               /\ Other(Result("write error", S)) /\ Other(NoResult)
    BY DEF Found, Result, NoResult, Abstract!Found, Abstract!Result, Abstract!NoResult
  <1> HIDE DEF Other
  <1>4. ASSUME NEW t \in Threads, NEW n \in Names, ByName(t, n) \/ RemoveByName(t, n)
        PROVE  OneSaved'
    BY <1>1, <1>2, <1>3, <1>4 DEF ByName, RemoveByName
  <1>5. ASSUME NEW t \in Threads, NEW i \in 0 .. MaxId, ById(t, i) \/ Remove(t, i)
        PROVE  OneSaved'
    BY <1>1, <1>2, <1>3, <1>5 DEF ById, Remove
  <1>6. ASSUME NEW t \in Threads, NEW g \in Group, Save(t, g) PROVE OneSaved'
    <2>1. PICK db \in Opened : CanSave(db, g) /\ Begin(t, SaveTo(db, g), Abstract!SaveResult(db, g))
      BY <1>6 DEF Save
    <2>2. Abstract!SaveResult(db, g).groups = {Abstract!Saved(db, g)}
      BY DEF Abstract!SaveResult, Abstract!Result
    <2>3. db \in DbObj
      BY OpenedSound
    <2>4. Abstract!Saved(db, g) \in Group
      BY <2>1, <2>3, GroupDbAssumption DEF CanSave, NoId, Abstract!Saved, Abstract!NoId, Group, DbObj
    <2> QED
      BY <2>1, <2>2, <2>4 DEF Begin, OneSaved
  <1>7. ASSUME NEW t \in Threads, Keys(t) \/ InitThrows(t) PROVE OneSaved'
    BY <1>1, <1>3, <1>7 DEF Keys, InitThrows
  <1>8. ASSUME NEW t \in Threads, WriteDone(t) PROVE OneSaved'
    BY <1>0, <1>3, <1>8 DEF WriteDone, OneSaved, Other
  <1>9. ASSUME NEW t \in Threads, WriteFailed(t) PROVE OneSaved'
    BY <1>0, <1>3, <1>9 DEF WriteFailed, OneSaved, Other
  <1>10. CASE Crash
    BY <1>3, <1>10 DEF Crash, OneSaved, Other
  <1>11. CASE UNCHANGED storageVars
    BY <1>11 DEF storageVars, OneSaved
  <1> QED
    BY <1>4, <1>5, <1>6, <1>7, <1>8, <1>9, <1>10, <1>11 DEF Next

\* Everything in an answer to command c is among the events es.
Said(es, c, out, removed) ==
  /\ c.subject = "CREATE" => \A g \in out : Told(es, "CREATED", g.id)
  /\ c.subject = "UPDATE" => \A g \in out : Told(es, "UPDATED", g.id)
  /\ \A i \in removed : Told(es, "DELETED", i)

SaidOK ==
  /\ \A t \in Threads : job[t].req \in Requests =>
       Said(events, asked[job[t].req], job[t].out, job[t].removed)
  /\ \A r \in Requests : \A a \in Answers(r) : Said(events, asked[r], a.out, a.removed)

LEMMA SaidStays ==
  ASSUME NEW es, NEW fs, \A q, k : Told(es, q, k) => Told(fs, q, k),
         NEW c, NEW out, NEW removed, Said(es, c, out, removed)
  PROVE  Said(fs, c, out, removed)
  BY DEF Said

LEMMA ResumeSays ==
  ASSUME JobsOK, TypeOK, OneSaved, SaidOK, events \in Seq(Event), "publish" \notin Outages,
         NEW t \in Threads, Resume(t), [AgentNext]_vars
  PROVE  \E k : /\ Continue(t, k)
                /\ k.req # NoRequest =>
                     k.req = job[t].req /\ Said(events', Cmd(t), k.out, k.removed)
  <1> DEFINE j == job[t]
             r == j.req
             Fine(k) == Continue(t, k) /\ k.req = r /\ Said(events', Cmd(t), k.out, k.removed)
  <1>0. /\ j \in Job /\ JobOK(j) /\ r \in Requests /\ ret[t] \in Results
        /\ asked' = asked /\ Cmd(t) = asked[r] /\ j.step = "resume"
    BY DEF Resume, AfterSave, AfterRemove, AfterIds, AfterById, AfterResolve, Escape, Continue,
           JobsOK, JobOK, TypeOK, Cmd
  <1>1. \A q, k : Told(events, q, k) => Told(events', q, k)
    BY EventsGrow
  <1>2. Said(events', Cmd(t), j.out, j.removed)
    <2>1. Said(events, Cmd(t), j.out, j.removed)
      BY <1>0 DEF SaidOK
    <2> QED
      BY <1>0, <1>1, <2>1, SaidStays
  <1>3. ASSUME NEW k \in Job PROVE /\ Advance(k).out = k.out /\ Advance(k).removed = k.removed
                                   /\ Advance(k).req = k.req
                                   /\ Fails(k).out = {} /\ Fails(k).removed = k.removed
                                   /\ Fails(k).req = k.req
    BY DEF Advance, Fails, Job
  <1>4. Said(events', Cmd(t), {}, j.removed)
    BY <1>2 DEF Said
  <1>5. ASSUME Continue(t, Fails(j)) PROVE Fine(Fails(j))
    BY <1>0, <1>3, <1>4, <1>5
  <1>6. ASSUME Continue(t, Advance(j)) PROVE Fine(Advance(j))
    BY <1>0, <1>2, <1>3, <1>6
  <1>7. CASE AfterSave(t)
    <2> DEFINE k == [j EXCEPT !.step = "reply", !.out = ret[t].groups]
    <2>1. CASE /\ ret[t].status \in {"created", "saved"} /\ Continue(t, k)
               /\ \E g \in ret[t].groups :
                    Publish(IF Cmd(t).subject = "CREATE" THEN "CREATED" ELSE "UPDATED", g.id)
      <3>1. PICK g \in Group : ret[t].groups = {g}
        BY <2>1 DEF OneSaved
      <3>2. Publish(IF Cmd(t).subject = "CREATE" THEN "CREATED" ELSE "UPDATED", g.id)
        BY <2>1, <3>1
      <3>3. Told(events', IF Cmd(t).subject = "CREATE" THEN "CREATED" ELSE "UPDATED", g.id)
        BY <3>2, PublishSays DEF Group
      <3>4. k.out = {g} /\ k.removed = j.removed /\ k.req = r
        BY <1>0, <3>1 DEF Job
      <3>5. Said(events', Cmd(t), {g}, j.removed)
        BY <1>0, <1>2, <3>3, <1>7 DEF Said, AfterSave
      <3> QED
        BY <2>1, <3>4, <3>5
    <2> QED
      BY <1>5, <1>7, <2>1 DEF AfterSave
  <1>8. CASE AfterRemove(t)
    <2> DEFINE i == Head(j.left)
               k == [j EXCEPT !.removed = @ \cup {i}]
    <2>1. i \in 0 .. MaxId
      <3>1. j.left # <<>>
        BY <1>0, <1>8 DEF AfterRemove, JobOK, NeedsId, Cmd
      <3> QED
        BY <1>0, <3>1, HeadTailProperties DEF Job
    <2>2. CASE Continue(t, Advance(k)) /\ Publish("DELETED", i)
      <3>1. Told(events', "DELETED", i)
        BY <2>1, <2>2, PublishSays
      <3>2. k \in Job /\ k.out = j.out /\ k.removed = j.removed \cup {i} /\ k.req = r
        BY <1>0, <2>1 DEF Job
      <3>3. Said(events', Cmd(t), j.out, j.removed \cup {i})
        BY <1>2, <3>1 DEF Said
      <3>4. /\ Advance(k).out = j.out /\ Advance(k).removed = j.removed \cup {i}
            /\ Advance(k).req = r
        <4> HIDE DEF k
        <4> QED
          BY <1>3, <3>2
      <3>5. Fine(Advance(k))
        <4> HIDE DEF k, i
        <4> QED
          BY <2>2, <3>3, <3>4
      <3> QED
        BY <3>5
    <2> QED
      BY <1>6, <1>8, <2>2 DEF AfterRemove
  <1>9. CASE AfterIds(t)
    <2>1. PICK k \in {[j EXCEPT !.listing = FALSE, !.left = ids,
                                !.step = IF ids = <<>> THEN "reply" ELSE "call"] :
                        ids \in Ascending(Ids(ret[t]))} : Continue(t, k)
      BY <1>9 DEF AfterIds
    <2>2. k.out = j.out /\ k.removed = j.removed /\ k.req = r
      BY <1>0, <2>1 DEF Job
    <2>3. Fine(k)
      BY <1>2, <2>1, <2>2
    <2> QED
      BY <2>3
  <1>10. CASE AfterById(t)
    <2> DEFINE k == [j EXCEPT !.out = @ \cup ret[t].groups]
    <2>1. CASE Continue(t, Advance(k))
      <3>1. k \in Job /\ k.removed = j.removed /\ k.req = r
        BY <1>0 DEF Job, Results
      <3>2. Said(events', Cmd(t), k.out, j.removed)
        BY <1>0, <1>2, <1>10 DEF Said, AfterById
      <3>3. Fine(Advance(k))
        BY <1>3, <2>1, <3>1, <3>2
      <3> QED
        BY <3>3
    <2> QED
      BY <1>5, <1>10, <2>1 DEF AfterById
  <1>11. CASE AfterResolve(t)
    BY <1>5, <1>6, <1>11 DEF AfterResolve
  <1>12. CASE Escape(t)
    BY <1>12, NoJobJob DEF Escape
  <1> QED
    BY <1>7, <1>8, <1>9, <1>10, <1>11, <1>12 DEF Resume

\* Nothing is replied, and a worker has what it had, or nothing.
LEMMA SaidKept ==
  ASSUME SaidOK, JobsOK, UNCHANGED <<asked, replies>>,
         \A q, k : Told(events, q, k) => Told(events', q, k),
         \A t \in Threads : \/ job'[t].req \notin Requests
                            \/ /\ job'[t].req \in Requests
                               /\ Said(events', asked[job'[t].req], job'[t].out, job'[t].removed)
                            \/ /\ job'[t].req = job[t].req
                               /\ job'[t].out = job[t].out /\ job'[t].removed = job[t].removed
  PROVE  SaidOK'
  <1>1. ASSUME NEW t \in Threads, job'[t].req \in Requests
        PROVE  Said(events', asked'[job'[t].req], job'[t].out, job'[t].removed)
    BY <1>1, SaidStays DEF SaidOK
  <1>2. ASSUME NEW r \in Requests, NEW a \in Answers(r)
        PROVE  Said(events', asked'[r], a.out, a.removed)
    BY <1>2, SaidStays DEF SaidOK
  <1>3. \A r \in Requests : Answers(r)' = Answers(r)
    BY DEF Answers
  <1> QED
    BY <1>1, <1>2, <1>3 DEF SaidOK

LEMMA SaidStep ==
  ASSUME JobsOK, TypeOK, OneSaved, SaidOK, HandledOnce, RepliesOK, EventsOK,
         "publish" \notin Outages, [AgentNext]_vars
  PROVE  SaidOK'
  <1>0. \A q, k : Told(events, q, k) => Told(events', q, k)
    BY EventsGrow DEF EventsOK
  <1>1. ASSUME NEW t \in Threads, NEW r \in Requests, Start(t, r) PROVE SaidOK'
    <2> DEFINE j == [NoJob EXCEPT !.step = "call", !.req = r, !.left = asked[r].ids,
                                  !.listing = asked[r].subject = "LIST"]
    <2>1. /\ j.out = {} /\ j.removed = {} /\ j.req = r
          /\ Fails(j).out = {} /\ Fails(j).removed = {} /\ Fails(j).req = r
          /\ [j EXCEPT !.step = "reply"].out = {}
          /\ [j EXCEPT !.step = "reply"].removed = {}
          /\ [j EXCEPT !.step = "reply"].req = r
      BY DEF NoJob, Fails
    <2>2. job'[t].req = r /\ job'[t].out = {} /\ job'[t].removed = {}
      BY <1>1, <2>1 DEF Start, JobsOK
    <2>3. \A u \in Threads \ {t} : job'[u] = job[u]
      BY <1>1 DEF Start, JobsOK
    <2>4. Said(events', asked[r], {}, {})
      BY DEF Said
    <2>5. UNCHANGED <<asked, replies>>
      BY <1>1 DEF Start
    <2> QED
      BY <1>0, <2>2, <2>3, <2>4, <2>5, SaidKept
  <1>2. ASSUME NEW t \in Threads, Call(t) PROVE SaidOK'
    <2>1. \A u \in Threads : /\ job'[u].req = job[u].req /\ job'[u].out = job[u].out
                            /\ job'[u].removed = job[u].removed
      BY <1>2 DEF Call, JobsOK, Job
    <2> QED
      BY <1>0, <1>2, <2>1, SaidKept DEF Call
  <1>3. ASSUME NEW t \in Threads, Write(t) PROVE SaidOK'
    BY <1>0, <1>3, SaidKept DEF Write, agentVars
  <1>4. ASSUME NEW t \in Threads, Resume(t) PROVE SaidOK'
    <2>1. PICK k : /\ Continue(t, k)
                   /\ k.req # NoRequest =>
                        k.req = job[t].req /\ Said(events', Cmd(t), k.out, k.removed)
      BY <1>4, ResumeSays DEF EventsOK
    <2>2. job'[t] = k /\ \A u \in Threads \ {t} : job'[u] = job[u]
      BY <2>1 DEF Continue, JobsOK
    <2>3. UNCHANGED <<asked, replies>>
      BY <2>1 DEF Continue
    <2>4. \/ job'[t].req \notin Requests
          \/ /\ job'[t].req \in Requests
             /\ Said(events', asked[job'[t].req], job'[t].out, job'[t].removed)
      BY <2>1, <2>2, AgentAssumption DEF Cmd
    <2> QED
      BY <1>0, <2>2, <2>3, <2>4, SaidKept
  <1>5. ASSUME NEW t \in Threads, Reply(t) PROVE SaidOK'
    <2>0. PICK r \in Requests : r = job[t].req
      BY <1>5 DEF Reply, JobsOK, JobOK
    <2>a. PICK a : a = ReplyOf(job[t])
      OBVIOUS
    <2>1. t \in Workers(r) /\ asked' = asked /\ events' = events
      BY <1>5, <2>0 DEF Reply, JobsOK, JobOK, Workers
    <2>2. replies[r] = <<>>
      BY <2>1 DEF HandledOnce
    <2>3. \A u \in Threads : job'[u] = IF u = t THEN NoJob ELSE job[u]
      BY <1>5 DEF Reply, JobsOK
    <2>4. NoJob.req \notin Requests
      BY NoJobJob, AgentAssumption
    <2>5. CASE UNCHANGED replies
      BY <1>0, <2>0, <2>1, <2>3, <2>4, <2>5, SaidKept
    <2>6. CASE replies' = [replies EXCEPT ![r] = Append(@, a)]
      <3>1. replies'[r] = Append(<<>>, a) /\ \A q \in Requests \ {r} : replies'[q] = replies[q]
        BY <2>1, <2>2, <2>6 DEF RepliesOK
      <3>2. a \in Answer /\ a.out = job[t].out /\ a.removed = job[t].removed
        BY <1>5, <2>a DEF JobsOK, Job, ReplyOf, Answer
      <3>3. Len(Append(<<>>, a)) = 1 /\ Append(<<>>, a)[1] = a /\ Append(<<>>, a) \in Seq(Answer)
        BY <3>2, EmptySeq, AppendProperties
      <3>4. DOMAIN Append(<<>>, a) = 1 .. 1
        BY <3>3, LenProperties
      <3>5. \A b \in Answers(r)' : b = a
        BY <3>1, <3>3, <3>4 DEF Answers
      <3>6. \A q \in Requests \ {r} : Answers(q)' = Answers(q)
        BY <3>1 DEF Answers
      <3>7. Said(events', asked'[r], a.out, a.removed)
        BY <2>0, <2>1, <3>2 DEF SaidOK
      <3> QED
        BY <2>0, <2>1, <2>3, <2>4, <3>5, <3>6, <3>7 DEF SaidOK
    <2> QED
      BY <1>5, <2>0, <2>a, <2>5, <2>6 DEF Reply
  <1>6. ASSUME NEW r \in Requests, NEW c \in Commands, Process(r, c) PROVE SaidOK'
    <2>1. replies[r] = <<>> /\ \A t \in Threads : job[t].req # r
      BY <1>6 DEF Process, HandledOnce, Workers
    <2>2. UNCHANGED <<job, replies, events>> /\ \A q \in Requests \ {r} : asked'[q] = asked[q]
      BY <1>6 DEF Process, JobsOK
    <2>3. Answers(r)' = {} /\ \A q \in Requests : Answers(q)' = Answers(q)
      <3>1. DOMAIN <<>> = {}
        OBVIOUS
      <3> QED
        BY <2>1, <2>2, <3>1 DEF Answers
    <2> QED
      BY <2>1, <2>2, <2>3 DEF SaidOK
  <1>7. ASSUME Die PROVE SaidOK'
    <2>1. \A t \in Threads : job'[t].req \notin Requests
      BY <1>7, NoJobJob, AgentAssumption DEF Die
    <2> QED
      BY <1>0, <1>7, <2>1, SaidKept DEF Die
  <1>8. ASSUME UNCHANGED vars PROVE SaidOK'
    BY <1>0, <1>8, SaidKept DEF vars, agentVars
  <1> QED
    BY <1>1, <1>2, <1>3, <1>4, <1>5, <1>6, <1>7, <1>8 DEF AgentNext, Work

(* As long as publishing works, a client that reads that its change was    *)
(* made can rely on the event: the change was announced before, whatever   *)
(* else fails and however the workers interleave.                          *)
THEOREM AnnouncedFirstAlways ==
  ASSUME "publish" \notin Outages
  PROVE  AgentSpec => []AnnouncedFirst
  <1>1. AgentInit => SaidOK /\ OneSaved /\ EventsOK /\ RepliesOK /\ HandledOnce
    <2>1. NoJob.req \notin Requests
      BY NoJobJob, AgentAssumption
    <2>2. DOMAIN <<>> = {}
      OBVIOUS
    <2>3. NoResult.status = "none"
      BY DEF NoResult, Abstract!NoResult, Abstract!Result
    <2>4. AgentInit => SaidOK
      BY <2>1, <2>2 DEF AgentInit, SaidOK, Answers
    <2>5. AgentInit => OneSaved
      BY <2>3 DEF AgentInit, Init, OneSaved
    <2>6. AgentInit => EventsOK /\ RepliesOK /\ HandledOnce
      BY AgentAssumption, NoJobJob, EmptySeq
         DEF AgentInit, RepliesOK, EventsOK, HandledOnce, Workers
    <2> QED
      BY <2>4, <2>5, <2>6
  <1>2. JobsOK /\ TypeOK /\ EventsOK /\ [AgentNext]_vars => EventsOK'
    BY EventsGrow DEF EventsOK
  <1>3. JobsOK /\ TypeOK /\ OneSaved /\ SaidOK /\ HandledOnce /\ RepliesOK /\ EventsOK
          /\ [AgentNext]_vars => SaidOK'
    BY SaidStep
  <1>4. TypeOK /\ IdsSound /\ JobsOK /\ OneSaved /\ [AgentNext]_vars => OneSaved'
    BY StorageStep, OneSavedStep DEF Inv
  <1>5. SaidOK => AnnouncedFirst
    BY DEF SaidOK, Said, Told, AnnouncedFirst, Announced
  <1> QED
    BY <1>1, <1>2, <1>3, <1>4, <1>5, HandledOnceStep, AgentUsesStorage, TypeCorrect,
       IdsAlwaysSound, PTL DEF AgentSpec
=============================================================================
