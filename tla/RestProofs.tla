------------------------------ MODULE RestProofs ------------------------------
(* Theorems about the REST handlers in front of the agent, for every number *)
(* of handlers, calls, requests and ids.                                    *)
EXTENDS Rest, AgentToldProofs

(* A handler that is on its way has a call that was not refused, and one   *)
(* that reads the groups of a list has an id left for its next message.    *)
AskOK(p) ==
  /\ p.step \in {"send", "wait"} => p.call \in Calls /\ ~Refused(p.call)
  /\ p.listed => p.call.verb = "list"
  /\ p.listed /\ p.step \in {"send", "wait"} => p.left # <<>>

HttpOK ==
  /\ http \in [Handlers -> Http]
  /\ \A h \in Handlers : AskOK(http[h])

WireOK == wire \in SUBSET [corr : Requests, command : Commands]

RestInv == HttpOK /\ WireOK /\ RepliesOK

-----------------------------------------------------------------------------
(* What is delivered to the agent is what a client of the agent can send.  *)

\* The next message of a handler is one the agent knows.
LEMMA MessageType ==
  ASSUME NEW p \in Http, AskOK(p), p.step = "send"
  PROVE  Message(p) \subseteq Commands
  <1>1. CASE p.listed
    <2>1. p.left # <<>> /\ p.left \in Seq(0 .. MaxId)
      BY <1>1 DEF AskOK, Http
    <2>2. Head(p.left) \in 0 .. MaxId
      BY <2>1, HeadTailProperties
    <2>3. p.call \in Calls /\ p.call.verb = "list"
      BY <1>1 DEF AskOK
    <2> QED
      BY <1>1, <2>2, <2>3, RestAssumption DEF Message
  <1>2. CASE ~p.listed
    BY <1>2, RestAssumption DEF Message, AskOK
  <1> QED
    BY <1>1, <1>2

\* Only the handler h changes, to p.
LEMMA HttpStep ==
  ASSUME HttpOK, NEW h \in Handlers, NEW p \in Http, AskOK(p),
         http' = [http EXCEPT ![h] = p]
  PROVE  HttpOK'
  BY DEF HttpOK, AskOK

LEMMA EndedOK ==
  ASSUME NEW p \in Http, p.listed => p.call.verb = "list",
         NEW s \in {"ok", "error", "refused", "timeout"}
  PROVE  Ended(p, s) \in Http /\ AskOK(Ended(p, s))
  BY DEF Ended, Http, AskOK

\* What a handler makes of a reply.
LEMMA OutcomesOK ==
  ASSUME NEW p \in Http, AskOK(p), p.step = "wait", NEW a \in Answer, NEW q \in Outcomes(p, a)
  PROVE  q \in Http /\ AskOK(q)
  <1>0. p.call \in Calls /\ ~Refused(p.call) /\ (p.listed => p.call.verb = "list" /\ p.left # <<>>)
    BY DEF AskOK
  <1>1. CASE q = Ended(p, "error")
    BY <1>0, <1>1, EndedOK
  <1>2. CASE p.call.verb # "list" /\ q = [Ended(p, "ok") EXCEPT !.out = a.out, !.removed = a.removed]
    BY <1>0, <1>2 DEF Ended, Http, AskOK, Answer
  <1>3. CASE p.listed /\ q = Gathered(p, a.out)
    <2>1. p.left \in Seq(0 .. MaxId) /\ p.left # <<>>
      BY <1>0, <1>3 DEF Http
    <2>2. Tail(p.left) \in Seq(0 .. MaxId) /\ Len(Tail(p.left)) = Len(p.left) - 1
      BY <2>1, HeadTailProperties
    <2>3. Tail(p.left) = <<>> => Len(p.left) = 1
      <3>1. Len(p.left) \in Nat
        BY <2>1, LenProperties
      <3>2. Tail(p.left) = <<>> => Len(p.left) - 1 = 0
        BY <2>2, EmptySeq, Zenon
      <3>3. \A n \in Nat : n - 1 = 0 => n = 1
        OBVIOUS
      <3> QED
        BY <3>1, <3>2, <3>3, Zenon
    <2>4. q \in Http
      BY <1>3, <2>2 DEF Gathered, Http, Answer
    <2>5. /\ q.call = p.call /\ q.listed = p.listed /\ q.left = Tail(p.left)
          /\ q.step = IF Len(p.left) = 1 THEN "done" ELSE "send"
      BY <1>3 DEF Gathered, Http
    <2> QED
      BY <1>0, <1>3, <2>3, <2>4, <2>5 DEF AskOK
  <1>4. CASE ~p.listed /\ p.call.verb = "list" /\ \E ids \in Ascending(IdsOf(a.out)) : q = Listed(p, ids)
    <2>1. PICK ids \in Ascending(IdsOf(a.out)) : q = Listed(p, ids)
      BY <1>4
    <2>2. IdsOf(a.out) \in SUBSET (0 .. MaxId)
      BY DEF IdsOf, Answer, Group
    <2>3. ids \in Seq(0 .. MaxId)
      BY <2>2, AscendingType
    <2>4. CASE ids = <<>>
      BY <1>4, <2>1, <2>4, EndedOK DEF Listed
    <2>5. CASE ids # <<>>
      BY <1>0, <1>4, <2>1, <2>3, <2>5 DEF Listed, Http, AskOK
    <2> QED
      BY <2>4, <2>5
  <1> QED
    BY <1>1, <1>2, <1>3, <1>4 DEF Outcomes

LEMMA NoHttpOK == NoHttp \in Http /\ AskOK(NoHttp)
  BY EmptySeq DEF NoHttp, Http, AskOK

LEMMA OpenOK ==
  ASSUME HttpOK, NEW h \in Handlers, NEW c \in Calls, Open(h, c)
  PROVE  HttpOK'
  <1> DEFINE p == [NoHttp EXCEPT !.call = c]
  <1>1. p \in Http /\ p.call = c /\ ~p.listed
    BY NoHttpOK DEF NoHttp, Http
  <1>2. ASSUME NEW s \in {"refused", "error"}, http' = [http EXCEPT ![h] = Ended(p, s)]
        PROVE  HttpOK'
    <2> HIDE DEF p
    <2> QED
      BY <1>1, <1>2, EndedOK, HttpStep
  <1>3. CASE ~Refused(c) /\ http' = [http EXCEPT ![h] = [p EXCEPT !.step = "send"]]
    <2> HIDE DEF p
    <2>1. [p EXCEPT !.step = "send"] \in Http /\ AskOK([p EXCEPT !.step = "send"])
      BY <1>1, <1>3 DEF Http, AskOK
    <2> QED
      BY <1>3, <2>1, HttpStep
  <1> QED
    BY <1>2, <1>3 DEF Open

LEMMA FreshType ==
  ASSUME \E r \in Requests : ~Used(r)
  PROVE  Fresh \in Requests /\ ~Used(Fresh)
  BY DEF Fresh

LEMMA SendOK ==
  ASSUME HttpOK, WireOK, NEW h \in Handlers, Send(h)
  PROVE  HttpOK' /\ WireOK'
  <1> DEFINE p == http[h]
  <1>1. p \in Http /\ AskOK(p) /\ p.step = "send"
    BY DEF Send, HttpOK
  <1>2. Fresh \in Requests
    BY FreshType DEF Send
  <1>3. WireOK'
    BY <1>1, <1>2, MessageType DEF Send, WireOK
  <1>4. HttpOK'
    <2> DEFINE q == [p EXCEPT !.step = "wait", !.corr = Fresh]
    <2>1. q \in Http /\ AskOK(q)
      BY <1>1, <1>2 DEF Http, AskOK
    <2>2. http' = [http EXCEPT ![h] = q]
      BY DEF Send
    <2> QED
      BY <2>1, <2>2, HttpStep
  <1> QED
    BY <1>3, <1>4

LEMMA HandleOK ==
  ASSUME RestInv, NEW h \in Handlers, Handle(h)
  PROVE  HttpOK' /\ WireOK' /\ UNCHANGED vars
  <1>0. HttpOK /\ WireOK /\ http[h] \in Http /\ AskOK(http[h])
    BY DEF RestInv, HttpOK
  <1>1. CASE Send(h)
    BY <1>0, <1>1, SendOK DEF Send
  <1>2. ASSUME NEW s \in {"error", "timeout"}, http' = [http EXCEPT ![h] = Ended(@, s)],
               UNCHANGED <<vars, wire>>
        PROVE  HttpOK' /\ WireOK' /\ UNCHANGED vars
    <2>1. Ended(http[h], s) \in Http /\ AskOK(Ended(http[h], s))
      BY <1>0, EndedOK DEF AskOK
    <2> QED
      BY <1>0, <1>2, <2>1, HttpStep DEF WireOK
  <1>3. ASSUME NEW r \in Requests, Receive(h, r)
        PROVE  HttpOK' /\ WireOK' /\ UNCHANGED vars
    <2>1. CASE UNCHANGED http
      BY <1>0, <1>3, <2>1 DEF Receive, HttpOK, WireOK
    <2>2. CASE Waits(h, r)
      <3>1. Head(replies[r]) \in Answer
        BY <1>3, HeadTailProperties DEF RestInv, RepliesOK, Receive
      <3>2. PICK q \in Outcomes(http[h], Head(replies[r])) : http' = [http EXCEPT ![h] = q]
        BY <1>3, <2>2 DEF Receive
      <3>3. q \in Http /\ AskOK(q)
        BY <1>0, <1>3, <3>1, OutcomesOK DEF Receive
      <3> QED
        BY <1>0, <1>3, <3>2, <3>3, HttpStep DEF Receive, WireOK
    <2> QED
      BY <1>3, <2>1, <2>2 DEF Receive
  <1> QED
    BY <1>1, <1>2, <1>3 DEF Handle, NarrowingThrows, Timeout

\* A delivered message is a request as the agent expects it.
LEMMA DeliverAsks ==
  ASSUME WireOK, NEW m \in wire, Deliver(m)
  PROVE  AgentNext /\ WireOK'
  <1>1. m.corr \in Requests /\ m.command \in Commands
    BY DEF WireOK
  <1> QED
    BY <1>1 DEF Deliver, AgentNext, WireOK

LEMMA RestStep ==
  ASSUME RestInv, [RestNext]_restVars
  PROVE  HttpOK' /\ WireOK' /\ [AgentNext]_vars
  <1>0. HttpOK /\ WireOK
    BY DEF RestInv
  <1>1. ASSUME NEW h \in Handlers, NEW c \in Calls, Open(h, c)
        PROVE  HttpOK' /\ WireOK' /\ UNCHANGED vars
    BY <1>0, <1>1, OpenOK DEF Open, WireOK
  <1>2. ASSUME NEW h \in Handlers, Handle(h)
        PROVE  HttpOK' /\ WireOK' /\ UNCHANGED vars
    BY <1>2, HandleOK
  <1>3. ASSUME NEW m \in wire, Deliver(m) PROVE HttpOK' /\ WireOK' /\ AgentNext
    BY <1>0, <1>3, DeliverAsks DEF Deliver, HttpOK
  <1>4. ASSUME NEW t \in Threads, Serve(t) PROVE HttpOK' /\ WireOK' /\ AgentNext
    BY <1>0, <1>4 DEF Serve, AgentNext, HttpOK, WireOK
  <1>5. ASSUME Die, Observe, UNCHANGED <<http, wire>> PROVE HttpOK' /\ WireOK' /\ AgentNext
    BY <1>0, <1>5 DEF AgentNext, HttpOK, WireOK
  <1>6. CASE UNCHANGED restVars
    BY <1>0, <1>6 DEF restVars, HttpOK, WireOK
  <1> QED
    BY <1>1, <1>2, <1>3, <1>4, <1>5, <1>6 DEF RestNext

LEMMA RestInitOK == RestInit => HttpOK /\ WireOK
  BY NoHttpOK DEF RestInit, HttpOK, WireOK

(* The handlers use the agent as the agent is specified: every message     *)
(* they send is one of its commands, so what holds of the agent holds of   *)
(* the agent behind the web server.                                        *)
THEOREM RestUsesAgent == RestSpec => AgentSpec /\ []RestInv
  <1>1. RestInit => AgentInit /\ HttpOK /\ WireOK
    BY RestInitOK DEF RestInit
  <1>2. AgentInit => Init /\ JobsOK /\ HandledOnce /\ RepliesOK
    BY JobsOKInit, AgentAssumption, NoJobJob, EmptySeq
       DEF AgentInit, HandledOnce, RepliesOK, Workers
  <1>3. RestInv /\ [RestNext]_restVars => HttpOK' /\ WireOK' /\ [AgentNext]_vars
    BY RestStep
  <1>4. Init => Inv
    BY InitInv
  <1>5. Inv /\ JobsOK /\ HandledOnce /\ RepliesOK /\ [AgentNext]_vars
          => Inv' /\ JobsOK' /\ HandledOnce' /\ RepliesOK'
    BY StorageStep, NextInv, JobsOKStep, HandledOnceStep DEF Inv
  <1> QED
    BY <1>1, <1>2, <1>3, <1>4, <1>5, PTL DEF RestSpec, AgentSpec, RestInv

-----------------------------------------------------------------------------
(* What follows about the agent behind the web server.                     *)

(* Behind the web server too, with calls that were given up and handlers   *)
(* that share a name, no request is run by two workers or replied to twice. *)
THEOREM RestHandledOnce == RestSpec => []HandledOnce
  BY RestUsesAgent, HandledOnceAlways, PTL

(* Behind the web server too, the groups the agent stores are a catalog    *)
(* that changes in one step per call, unless a write or a load fails.      *)
THEOREM RestImplementsCatalog ==
  ASSUME Faults \subseteq {"kill", "tear"}
  PROVE  RestSpec => ImplementsCatalog
  BY RestUsesAgent, AgentImplementsCatalog, PTL

-----------------------------------------------------------------------------
SpanOK == span \in [Handlers -> [kept : SUBSET (0 .. MaxId), seen : SUBSET Group,
                                 lost : SUBSET (0 .. MaxId)]]

LEMMA ShownType == TypeOK => Ids(Shown) \in SUBSET (0 .. MaxId) /\ Shown.groups \in SUBSET Group
  BY DEF TypeOK, Shown, DbObj, Ids, Group

LEMMA ShownTypeNext ==
  TypeOK' => Ids(Shown') \in SUBSET (0 .. MaxId) /\ Shown'.groups \in SUBSET Group
  BY DEF TypeOK, Shown, DbObj, Ids, Group

LEMMA WatchOK == TypeOK /\ TypeOK' /\ SpanOK /\ Watch => SpanOK'
  <1> SUFFICES ASSUME TypeOK, TypeOK', SpanOK, Watch PROVE SpanOK'
    OBVIOUS
  <1> DEFINE Spans == [kept : SUBSET (0 .. MaxId), seen : SUBSET Group, lost : SUBSET (0 .. MaxId)]
             B == [kept |-> Ids(Shown), seen |-> Shown.groups, lost |-> {}]
             C(h) == [kept |-> span[h].kept \cap Ids(Shown'),
                      seen |-> span[h].seen \cup Shown'.groups,
                      lost |-> span[h].lost \cup (Ids(Shown) \ Ids(Shown'))]
  <1>1. B \in Spans
    BY ShownType
  <1>2. ASSUME NEW h \in Handlers PROVE span[h] \in Spans /\ C(h) \in Spans
    <2>1. span[h] \in Spans
      BY DEF SpanOK
    <2> QED
      BY <2>1, ShownType, ShownTypeNext
  <1>3. span' = [h \in Handlers |->
                   IF http[h].step = "idle" /\ http'[h].step # "idle" THEN B
                   ELSE IF http[h].step \in {"send", "wait"} THEN C(h) ELSE span[h]]
    BY DEF Watch
  <1> HIDE DEF B, C, Spans
  <1>4. span' \in [Handlers -> Spans]
    BY <1>1, <1>2, <1>3
  <1> QED
    BY <1>4 DEF SpanOK, Spans

LEMMA TakenOK == taken \in SUBSET Requests /\ [RestNext]_restVars => taken' \in SUBSET Requests
  BY DEF RestNext, Open, Handle, Send, NarrowingThrows, Receive, Timeout, Deliver, Serve, restVars

LEMMA RestWatches == [RestNext]_restVars => Watch \/ UNCHANGED restVars
  BY DEF RestNext, Handle, Serve

(* The variables of the web server's side keep their types.                *)
THEOREM RestTypeCorrect == RestSpec => []RestTypeOK
  <1> DEFINE Taken == taken \in SUBSET Requests
  <1>1. RestInit => SpanOK /\ Taken
    BY DEF RestInit, SpanOK, NoSpan
  <1>2. Taken /\ [RestNext]_restVars => Taken'
    BY TakenOK
  <1>3. TypeOK /\ TypeOK' /\ SpanOK /\ [RestNext]_restVars => SpanOK'
    BY RestWatches, WatchOK DEF restVars, SpanOK
  <1>4. RestInv /\ Taken /\ SpanOK => RestTypeOK
    BY DEF RestInv, HttpOK, WireOK, SpanOK, RestTypeOK
  <1> QED
    BY <1>1, <1>2, <1>3, <1>4, RestUsesAgent, AgentUsesStorage, TypeCorrect, PTL DEF RestSpec

-----------------------------------------------------------------------------
(* What a handler waits for is the reply to its own question.              *)

\* A message on its way was not delivered before, and has its id for itself.
WireOwn ==
  \A m \in wire :
    /\ asked[m.corr] = NoCommand
    /\ \A n \in wire : m.corr = n.corr => m = n

\* No two handlers have the same id, and the id of each was sent.
HandlersOwn ==
  \A h \in Handlers : http[h].corr # NoRequest =>
    /\ Used(http[h].corr)
    /\ \A k \in Handlers : http[h].corr = http[k].corr => h = k

\* The message under the id of a handler that waits is its own question.
QuestionOwn ==
  \A h \in Handlers : http[h].step = "wait" =>
    /\ http[h].corr # NoRequest
    /\ \A m \in wire : m.corr = http[h].corr => m.command \in Message(http[h])
    /\ asked[http[h].corr] # NoCommand => asked[http[h].corr] \in Message(http[h])

Own == WireOwn /\ HandlersOwn /\ QuestionOwn

LEMMA ServeAsksNothing == ASSUME NEW t \in Threads, Work(t) PROVE asked' = asked
  BY DEF Work, Start, Call, Write, agentVars, Resume, AfterSave, AfterRemove, AfterIds, AfterById,
         AfterResolve, Escape, Continue, Reply

\* A handler keeps its id and its question, or does not wait.
LEMMA OwnKept ==
  ASSUME RestInv, Own, UNCHANGED <<asked, wire>>,
         \A h \in Handlers : /\ http'[h].corr \in {http[h].corr, NoRequest}
                             /\ http'[h].step = "wait" => http'[h] = http[h]
  PROVE  Own'
  <1>1. WireOwn'
    BY DEF Own, WireOwn
  <1>2. HandlersOwn'
    BY DEF Own, HandlersOwn, Used
  <1>3. QuestionOwn'
    BY DEF Own, QuestionOwn
  <1> QED
    BY <1>1, <1>2, <1>3 DEF Own

LEMMA SendOwn ==
  ASSUME RestInv, Own, NEW h \in Handlers, Send(h)
  PROVE  Own'
  <1>1. PICK r : r = Fresh
    OBVIOUS
  <1>2. r \in Requests /\ ~Used(r) /\ r # NoRequest
    BY <1>1, FreshType, AgentAssumption DEF Send
  <1>3. PICK c \in Message(http[h]) : wire' = wire \cup {[corr |-> r, command |-> c]}
    BY <1>1 DEF Send
  <1>4. asked' = asked
    BY DEF Send, vars, agentVars
  <1>5. /\ http'[h] = [http[h] EXCEPT !.step = "wait", !.corr = r]
        /\ \A k \in Handlers \ {h} : http'[k] = http[k]
    BY <1>1 DEF Send, RestInv, HttpOK
  <1>6. http'[h].corr = r /\ Message(http'[h]) = Message(http[h])
    BY <1>5 DEF RestInv, HttpOK, Http, Message
  <1>7. asked[r] = NoCommand /\ \A m \in wire : m.corr # r
    BY <1>2 DEF Used
  <1>8. WireOwn'
    BY <1>3, <1>4, <1>7 DEF Own, WireOwn
  <1>9. HandlersOwn'
    <2>1. \A k \in Handlers : http[k].corr # r
      BY <1>2 DEF Own, HandlersOwn
    <2>2. [corr |-> r, command |-> c] \in wire'
      BY <1>3
    <2>3. \E m \in wire' : m.corr = r
      BY <2>2
    <2>4. ASSUME NEW k \in Handlers, http'[k].corr # NoRequest
          PROVE  asked'[http'[k].corr] # NoCommand \/ \E m \in wire' : m.corr = http'[k].corr
      <3>1. CASE k = h
        BY <1>6, <2>3, <3>1
      <3>2. CASE k # h
        <4>1. http'[k] = http[k] /\ Used(http[k].corr) /\ wire \subseteq wire'
          BY <1>3, <1>5, <2>4, <3>2 DEF Own, HandlersOwn
        <4> QED
          BY <1>4, <4>1 DEF Used
      <3> QED
        BY <3>1, <3>2
    <2>5. ASSUME NEW k \in Handlers, NEW l \in Handlers, http'[k].corr # NoRequest,
                 http'[k].corr = http'[l].corr
          PROVE  k = l
      <3>1. CASE k = h /\ l # h
        BY <1>5, <1>6, <2>1, <2>5, <3>1
      <3>2. CASE k # h /\ l = h
        BY <1>5, <1>6, <2>1, <2>5, <3>2
      <3>3. CASE k # h /\ l # h
        <4>1. http'[k] = http[k] /\ http'[l] = http[l]
          BY <1>5, <3>3
        <4>2. http[k].corr # NoRequest /\ http[k].corr = http[l].corr
          BY <2>5, <4>1
        <4> QED
          BY <4>2 DEF Own, HandlersOwn
      <3> QED
        BY <3>1, <3>2, <3>3
    <2> QED
      BY <2>4, <2>5 DEF HandlersOwn, Used
  <1>10. QuestionOwn'
    <2>1. ASSUME NEW k \in Handlers \ {h}, http'[k].step = "wait"
          PROVE  /\ http'[k].corr # NoRequest
                 /\ \A m \in wire' : m.corr = http'[k].corr => m.command \in Message(http'[k])
                 /\ asked'[http'[k].corr] # NoCommand => asked'[http'[k].corr] \in Message(http'[k])
      <3>1. http[k].corr # r
        BY <1>2, <1>5, <2>1 DEF Own, HandlersOwn, QuestionOwn
      <3> QED
        BY <1>3, <1>4, <1>5, <2>1, <3>1 DEF Own, QuestionOwn
    <2>2. /\ http'[h].corr # NoRequest
          /\ \A m \in wire' : m.corr = http'[h].corr => m.command \in Message(http'[h])
          /\ asked'[http'[h].corr] = NoCommand
      BY <1>2, <1>3, <1>4, <1>6, <1>7
    <2>3. \A k \in Handlers : Message(http[k])' = Message(http'[k])
      BY DEF Message
    <2> QED
      BY <2>1, <2>2, <2>3 DEF QuestionOwn
  <1> QED
    BY <1>8, <1>9, <1>10 DEF Own

LEMMA DeliverOwn ==
  ASSUME RestInv, JobsOK, Own, NEW m \in wire, Deliver(m)
  PROVE  Own'
  <1>1. m.corr \in Requests /\ m.command \in Commands /\ m.command # NoCommand
    BY NoCommandIsNone DEF RestInv, WireOK
  <1>2. /\ asked'[m.corr] = m.command /\ wire' = wire \ {m} /\ http' = http
        /\ asked' = [asked EXCEPT ![m.corr] = m.command]
    BY <1>1 DEF Deliver, Process, JobsOK
  <1>3. WireOwn'
    BY <1>2 DEF Own, WireOwn, RestInv, WireOK, JobsOK
  <1>4. HandlersOwn'
    <2>1. ASSUME NEW h \in Handlers, http[h].corr # NoRequest
          PROVE  asked'[http[h].corr] # NoCommand \/ \E n \in wire' : n.corr = http[h].corr
      <3>1. http[h].corr \in Requests
        BY <2>1 DEF RestInv, HttpOK, Http
      <3> QED
        BY <1>1, <1>2, <2>1, <3>1 DEF Own, HandlersOwn, Used, JobsOK
    <2> QED
      BY <1>2, <2>1 DEF Own, HandlersOwn, Used
  <1>5. QuestionOwn'
    <2>1. ASSUME NEW h \in Handlers, http[h].step = "wait"
          PROVE  /\ http[h].corr # NoRequest
                 /\ \A n \in wire' : n.corr = http[h].corr => n.command \in Message(http[h])
                 /\ asked'[http[h].corr] # NoCommand => asked'[http[h].corr] \in Message(http[h])
      <3>1. http[h].corr \in Requests
        BY <2>1 DEF RestInv, HttpOK, Http, Own, QuestionOwn
      <3> QED
        BY <1>1, <1>2, <2>1, <3>1 DEF Own, QuestionOwn, JobsOK
    <2>2. \A h \in Handlers : Message(http'[h]) = Message(http[h])
      BY <1>2
    <2> QED
      BY <1>2, <2>1, <2>2 DEF QuestionOwn
  <1> QED
    BY <1>3, <1>4, <1>5 DEF Own

LEMMA OwnStep == RestInv /\ JobsOK /\ Own /\ [RestNext]_restVars => Own'
  <1> SUFFICES ASSUME RestInv, JobsOK, Own, [RestNext]_restVars PROVE Own'
    OBVIOUS
  <1>0. http \in [Handlers -> Http]
    BY DEF RestInv, HttpOK
  <1>1. ASSUME NEW h \in Handlers, NEW p, p.step # "wait", p.corr \in {http[h].corr, NoRequest},
               http' = [http EXCEPT ![h] = p], UNCHANGED <<vars, wire>>
        PROVE  Own'
    BY <1>0, <1>1, OwnKept DEF vars, agentVars
  <1>2. ASSUME NEW h \in Handlers, NEW c \in Calls, Open(h, c) PROVE Own'
    <2> DEFINE p == [NoHttp EXCEPT !.call = c]
    <2>1. ASSUME NEW q, q.step # "wait", q.corr = NoRequest, http' = [http EXCEPT ![h] = q]
          PROVE  Own'
      BY <1>1, <1>2, <2>1 DEF Open
    <2>2. ASSUME NEW s \in {"refused", "error"}, http' = [http EXCEPT ![h] = Ended(p, s)]
          PROVE  Own'
      BY <2>1, <2>2 DEF NoHttp, Ended
    <2>3. CASE http' = [http EXCEPT ![h] = [p EXCEPT !.step = "send"]]
      BY <2>1, <2>3 DEF NoHttp
    <2> HIDE DEF p
    <2>4. \/ \E s \in {"refused", "error"} : http' = [http EXCEPT ![h] = Ended(p, s)]
          \/ http' = [http EXCEPT ![h] = [p EXCEPT !.step = "send"]]
      BY <1>2 DEF Open, p
    <2> QED
      BY <2>2, <2>3, <2>4
  <1>3. ASSUME NEW h \in Handlers, NEW s \in {"ok", "error", "timeout"}
        PROVE  Ended(http[h], s).step # "wait" /\ Ended(http[h], s).corr = http[h].corr
    BY <1>0 DEF Ended, Http
  <1>4. ASSUME NEW h \in Handlers, NEW r \in Requests, Receive(h, r) PROVE Own'
    <2>1. CASE UNCHANGED http
      BY <1>4, <2>1, OwnKept DEF Receive, vars, agentVars
    <2>2. CASE Waits(h, r)
      <3>1. PICK q \in Outcomes(http[h], Head(replies[r])) : http' = [http EXCEPT ![h] = q]
        BY <1>4, <2>2 DEF Receive
      <3>2. q.step # "wait" /\ q.corr = http[h].corr
        BY <1>0 DEF Outcomes, Listed, Gathered, Ended, Http
      <3> QED
        BY <1>1, <1>4, <3>1, <3>2 DEF Receive
    <2> QED
      BY <1>4, <2>1, <2>2 DEF Receive
  <1>5. ASSUME NEW h \in Handlers, Handle(h) PROVE Own'
    BY <1>1, <1>3, <1>4, <1>5, SendOwn DEF Handle, NarrowingThrows, Timeout
  <1>6. ASSUME NEW m \in wire, Deliver(m) PROVE Own'
    BY <1>6, DeliverOwn
  <1>7. ASSUME NEW t \in Threads, Serve(t) PROVE Own'
    BY <1>7, ServeAsksNothing, OwnKept DEF Serve
  <1>8. ASSUME Die, UNCHANGED <<http, wire, taken>> PROVE Own'
    BY <1>8, OwnKept DEF Die
  <1>9. CASE UNCHANGED restVars
    BY <1>9, OwnKept DEF restVars, vars, agentVars
  <1> QED
    BY <1>2, <1>5, <1>6, <1>7, <1>8, <1>9 DEF RestNext

(* Although all handlers share one name, and whatever was given up before, *)
(* a handler that waits has an id no other handler has, and what was asked *)
(* under it is the handler's own question.                                 *)
THEOREM HandlersAskTheirOwn == RestSpec => []Own
  <1>1. RestInit => Own
    BY DEF RestInit, AgentInit, NoHttp, Own, WireOwn, HandlersOwn, QuestionOwn
  <1>2. RestInv /\ JobsOK /\ Own /\ [RestNext]_restVars => Own'
    BY OwnStep
  <1> QED
    BY <1>1, <1>2, RestUsesAgent, AgentUsesStorage, PTL DEF RestSpec

-----------------------------------------------------------------------------
(* What the answers tell a handler about the time of its call.             *)

\* A span of a call holds more of what happened than an earlier one.
Wider(s, w) == w.kept \subseteq s.kept /\ s.seen \subseteq w.seen /\ s.lost \subseteq w.lost

\* A group that was stored meanwhile was read, or there is none to be read.
Granted(s, i, groups) == groups \subseteq s.seen /\ IdsOf(groups) = {i}

Denied(p, s, i) == i \notin s.kept /\ (p.listed => s.lost # {})

\* What an answer to command c tells the handler p.
Tells(p, s, c, a) ==
  /\ c.subject = "LIST" =>
       IF a.status = "ok" THEN s.kept \subseteq IdsOf(a.out) /\ a.out \subseteq s.seen
       ELSE s.lost # {}
  /\ c.subject = "READ" =>
       IF a.status = "ok" THEN Granted(s, c.ids[1], a.out) ELSE Denied(p, s, c.ids[1])

(* What a worker that lists or reads for handler p has seen, it has seen   *)
(* during the call of p.                                                   *)
Serves(p, s, j, v, x) ==
  /\ Begun(j) => /\ s.kept \subseteq v.kept /\ v.seen \subseteq s.seen
                 /\ v.given \ v.kept \subseteq s.lost
  /\ Reading(j) /\ j.step = "resume" =>
       /\ x.status = "ok" => Granted(s, asked[j.req].ids[1], x.groups)
       /\ x.status = "not found" => Denied(p, s, asked[j.req].ids[1])
  /\ Reading(j) /\ j.step = "reply" => Tells(p, s, asked[j.req], ReplyOf(j))

(* What a handler has got together: a list has yet to read every group it  *)
(* needs and has not got.                                                  *)
Collects(p, s) ==
  /\ p.step # "done" => p.status = "none"
  /\ p.step = "send" /\ ~p.listed => p.corr = NoRequest
  /\ p.step \in {"send", "wait"} =>
       /\ ~p.listed => p.out = {}
       /\ p.listed => /\ s.kept \subseteq IdsOf(p.out) \cup Range(p.left)
                      /\ Range(p.left) \subseteq IdsOf(s.seen) /\ p.out \subseteq s.seen

\* What RestListHonest says of one handler, and what ReadsStored rests on: the
\* handler was answered about the id it asked for in place of its own.
ListsTrue(p, s) == p.call.verb = "list" =>
  /\ p.status = "ok" => s.kept \subseteq IdsOf(p.out) /\ p.out \subseteq s.seen
  /\ p.status = "error" /\ p.corr # NoRequest => s.lost # {}

ReadsTrue(p, s) == p.call.verb = "read" =>
  /\ p.status = "ok" => \E i \in Narrowed(p.call.ids[1]) : Granted(s, i, p.out)
  /\ p.status = "error" /\ p.corr # NoRequest => \E i \in Narrowed(p.call.ids[1]) : i \notin s.kept

\* A group the handler saw is stored, or it saw it removed.
SeenOK ==
  \A h \in Handlers : http[h].step \in {"send", "wait"} =>
    IdsOf(span[h].seen) \subseteq Ids(Shown) \cup span[h].lost

ServesOK ==
  \A h \in Handlers :
    /\ \A t \in Threads : Waits(h, job[t].req) =>
         Serves(http[h], span[h], job[t], view[t], ret[t])
    /\ \A r \in Requests : Waits(h, r) => \A a \in Answers(r) :
         Tells(http[h], span[h], asked[r], a)

CollectsOK ==
  \A h \in Handlers : Collects(http[h], span[h]) /\ ListsTrue(http[h], span[h])

LEMMA TellsMore ==
  ASSUME NEW p, NEW s, NEW w, Wider(s, w), NEW c, NEW a, Tells(p, s, c, a)
  PROVE  Tells(p, w, c, a)
  BY DEF Wider, Tells, Granted, Denied

LEMMA CollectsMore ==
  ASSUME NEW p, NEW s, NEW w, Wider(s, w), Collects(p, s)
  PROVE  Collects(p, w)
  <1>1. IdsOf(s.seen) \subseteq IdsOf(w.seen)
    BY DEF Wider, IdsOf
  <1> QED
    BY <1>1 DEF Wider, Collects

\* The span of a call that goes on widens, and includes what is stored now.
LEMMA SpanWidens ==
  ASSUME NEW h \in Handlers, http[h].step \in {"send", "wait"}, Watch
  PROVE  /\ Wider(span[h], span'[h])
         /\ span'[h].kept \subseteq Ids(Shown') /\ span'[h].seen = span[h].seen \cup Shown'.groups
         /\ span'[h].lost = span[h].lost \cup (Ids(Shown) \ Ids(Shown'))
  <1> DEFINE w == [kept |-> span[h].kept \cap Ids(Shown'),
                   seen |-> span[h].seen \cup Shown'.groups,
                   lost |-> span[h].lost \cup (Ids(Shown) \ Ids(Shown'))]
  <1>1. span'[h] = w
    BY DEF Watch
  <1>2. /\ w.kept = span[h].kept \cap Ids(Shown')
        /\ w.seen = span[h].seen \cup Shown'.groups
        /\ w.lost = span[h].lost \cup (Ids(Shown) \ Ids(Shown'))
    OBVIOUS
  <1> HIDE DEF w
  <1> QED
    BY <1>1, <1>2 DEF Wider

\* The span of a call that has ended stays.
LEMMA SpanStays ==
  ASSUME [RestNext]_restVars, NEW h \in Handlers, http'[h] = http[h],
         http[h].step \notin {"send", "wait"}
  PROVE  span'[h] = span[h]
  BY RestWatches DEF Watch, restVars

\* A step of a handler leaves the agent alone, and another's the handler.
LEMMA EachHandler ==
  ASSUME RestInv, [RestNext]_restVars, NEW h \in Handlers
  PROVE  \/ http'[h] = http[h]
         \/ /\ UNCHANGED vars /\ Watch
            /\ \/ \E c \in Calls : Open(h, c)
               \/ Send(h) \/ NarrowingThrows(h) \/ Timeout(h)
               \/ \E r \in Requests : Receive(h, r) /\ Waits(h, r)
  <1>0. http \in [Handlers -> Http]
    BY DEF RestInv, HttpOK
  <1>1. ASSUME NEW k \in Handlers, NEW c \in Calls, Open(k, c), Watch, k # h PROVE http'[h] = http[h]
    BY <1>0, <1>1 DEF Open
  <1>2. ASSUME NEW k \in Handlers, Handle(k), k # h PROVE http'[h] = http[h]
    BY <1>0, <1>2 DEF Handle, Send, NarrowingThrows, Receive, Timeout
  <1>3. ASSUME NEW r \in Requests, Receive(h, r), ~Waits(h, r) PROVE http'[h] = http[h]
    BY <1>3 DEF Receive
  <1>4. ASSUME NEW r \in Requests, Receive(h, r) PROVE UNCHANGED vars
    BY <1>4 DEF Receive
  <1>5. ASSUME NEW c \in Calls, Open(h, c) PROVE UNCHANGED vars
    BY <1>5 DEF Open
  <1>6. CASE UNCHANGED http
    BY <1>6
  <1>7. CASE Handle(h)
    BY <1>3, <1>4, <1>7 DEF Handle, Send, NarrowingThrows, Timeout
  <1>8. CASE \E k \in Handlers, c \in Calls : Open(k, c) /\ Watch
    BY <1>1, <1>5, <1>8
  <1> QED
    BY <1>2, <1>6, <1>7, <1>8 DEF RestNext, Deliver, Serve, restVars

\* One that waits has waited before, or asks now what nobody has asked.
LEMMA Waiting ==
  ASSUME RestInv, [RestNext]_restVars, NEW h \in Handlers, NEW r \in Requests, Waits(h, r)'
  PROVE  \/ http'[h] = http[h] /\ Waits(h, r)
         \/ asked[r] = NoCommand /\ UNCHANGED vars
  <1>0. http \in [Handlers -> Http]
    BY DEF RestInv, HttpOK
  <1>1. CASE http'[h] = http[h]
    BY <1>1 DEF Waits
  <1>2. CASE Send(h)
    <2>1. PICK q : q = Fresh
      OBVIOUS
    <2>2. http'[h].corr = q /\ ~Used(q)
      BY <1>0, <1>2, <2>1, FreshType DEF Send, Http
    <2> QED
      BY <1>2, <2>2 DEF Waits, Used, Send
  <1>3. ASSUME NEW p, p.step # "wait", http' = [http EXCEPT ![h] = p] PROVE FALSE
    BY <1>0, <1>3 DEF Waits
  <1>4. ASSUME NEW s PROVE Ended(http[h], s).step = "done"
    BY <1>0 DEF Ended, Http
  <1>5. ASSUME NEW c \in Calls, Open(h, c) PROVE FALSE
    <2>1. /\ [[NoHttp EXCEPT !.call = c] EXCEPT !.step = "send"].step = "send"
          /\ \A s : Ended([NoHttp EXCEPT !.call = c], s).step = "done"
      BY DEF NoHttp, Ended
    <2> QED
      BY <1>3, <1>5, <2>1 DEF Open
  <1>6. ASSUME NEW q \in Requests, Receive(h, q), Waits(h, q) PROVE FALSE
    <2>1. PICK p \in Outcomes(http[h], Head(replies[q])) : http' = [http EXCEPT ![h] = p]
      BY <1>6 DEF Receive
    <2>2. p.step # "wait"
      BY <1>0 DEF Outcomes, Listed, Gathered, Ended, Http
    <2> QED
      BY <1>3, <2>1, <2>2
  <1>7. ~NarrowingThrows(h) /\ ~Timeout(h)
    BY <1>3, <1>4 DEF NarrowingThrows, Timeout
  <1> QED
    BY <1>1, <1>2, <1>5, <1>6, <1>7, EachHandler

LEMMA SeenOKStep == RestInv /\ SeenOK /\ [RestNext]_restVars => SeenOK'
  <1> SUFFICES ASSUME RestInv, SeenOK, [RestNext]_restVars,
                      NEW h \in Handlers, http'[h].step \in {"send", "wait"}
               PROVE  IdsOf(span'[h].seen) \subseteq Ids(Shown') \cup span'[h].lost
    BY DEF SeenOK, Ids, Shown
  <1>1. CASE UNCHANGED restVars
    BY <1>1 DEF restVars, vars, storageVars, SeenOK, Shown
  <1>2. CASE http[h].step \in {"send", "wait"} /\ Watch
    <2>1. IdsOf(span'[h].seen) = IdsOf(span[h].seen) \cup Ids(Shown')
      BY <1>2, SpanWidens DEF IdsOf, Ids
    <2>2. IdsOf(span[h].seen) \subseteq Ids(Shown) \cup span[h].lost
      BY <1>2 DEF SeenOK
    <2> QED
      BY <1>2, <2>1, <2>2, SpanWidens
  <1>3. CASE http[h].step \notin {"send", "wait"} /\ Watch
    <2>1. UNCHANGED vars /\ http[h].step = "idle"
      <3>1. http'[h] # http[h]
        BY <1>3
      <3>2. ~Send(h) /\ ~NarrowingThrows(h) /\ ~Timeout(h) /\ \A r \in Requests : ~Receive(h, r)
        BY <1>3 DEF Send, NarrowingThrows, Timeout, Receive
      <3>3. PICK c \in Calls : Open(h, c) /\ UNCHANGED vars
        BY <3>1, <3>2, EachHandler
      <3> QED
        BY <3>3 DEF Open, NoHttp
    <2> DEFINE w == [kept |-> Ids(Shown), seen |-> Shown.groups, lost |-> {}]
    <2>2. span'[h] = w
      BY <1>3, <2>1 DEF Watch
    <2>3. w.seen = Shown.groups
      OBVIOUS
    <2> HIDE DEF w
    <2>4. Shown' = Shown
      BY <2>1 DEF vars, storageVars, Shown
    <2> QED
      BY <2>2, <2>3, <2>4 DEF IdsOf, Ids
  <1> QED
    BY <1>1, <1>2, <1>3, RestWatches

-----------------------------------------------------------------------------
(* The workers and their answers.                                          *)

\* The questions of a handler are about the ids it was given.
LEMMA ReadMessage ==
  ASSUME NEW p \in Http, AskOK(p), p.step = "wait", NEW c \in Message(p), c.subject = "READ"
  PROVE  /\ c.valid
         /\ p.listed => c.ids[1] \in Range(p.left)
         /\ ~p.listed => p.call.verb = "read" /\ c.ids[1] \in Narrowed(p.call.ids[1])
  <1>1. CASE p.listed
    <2>1. c = Say("READ", {}, <<Head(p.left)>>)
      BY <1>1 DEF Message
    <2>2. c.valid /\ c.ids[1] = Head(p.left)
      BY <2>1 DEF Say
    <2>3. Head(p.left) \in Range(p.left)
      BY <1>1, HeadTailRange DEF AskOK, Http
    <2> QED
      BY <1>1, <2>2, <2>3
  <1>2. CASE ~p.listed
    <2>1. p.call.verb \in Verbs /\ c \in Commanded(p.call)
      BY <1>2, RestAssumption DEF AskOK, Message, HttpCall
    <2>2. p.call.verb = "read"
      BY <2>1 DEF Commanded, Say, Verbs
    <2>3. PICK i \in Narrowed(p.call.ids[1]) : c = Say("READ", {}, <<i>>)
      BY <2>1, <2>2 DEF Commanded
    <2>4. c.valid /\ c.ids[1] = i
      BY <2>3 DEF Say
    <2> QED
      BY <1>2, <2>2, <2>4
  <1> QED
    BY <1>1, <1>2

LEMMA ListMessage ==
  ASSUME NEW p \in Http, AskOK(p), p.step = "wait", NEW c \in Message(p)
  PROVE  p.call.verb = "list" /\ ~p.listed => c.subject = "LIST"
  BY DEF Message, Commanded, Say

\* An id that fits is asked for as it is, one that does not as a smaller one.
LEMMA NarrowedFits ==
  ASSUME NEW n \in 0 .. MaxId, NEW i \in Narrowed(n)
  PROVE  IF n < ReadLimit THEN i = n ELSE i < n
  <1>1. n \in Nat /\ ReadLimit \in Nat \ {0}
    BY RestAssumption, GroupDbAssumption
  <1>2. CASE n < ReadLimit
    BY <1>2 DEF Narrowed
  <1>3. CASE ~(n < ReadLimit)
    <2>1. i = n % ReadLimit \/ i = ReadLimit - 1
      BY <1>3 DEF Narrowed
    <2>2. n % ReadLimit < ReadLimit /\ n % ReadLimit \in Nat
      BY <1>1
    <2> QED
      BY <1>1, <1>3, <2>1, <2>2
  <1> QED
    BY <1>2, <1>3

\* A reply of a worker tells what it has seen.
LEMMA RepliesTell ==
  ASSUME AgentInv, ListOK, NEW t \in Threads, job[t].step = "reply", job[t].req # NoRequest,
         NEW p, NEW s, Serves(p, s, job[t], view[t], ret[t])
  PROVE  Tells(p, s, asked[job[t].req], ReplyOf(job[t]))
  <1> DEFINE j == job[t]
             v == view[t]
  <1>1. CASE asked[j.req].subject = "LIST"
    <2>1. Listing(j) /\ ~j.listing /\ Has(j, v) /\ v.kept \subseteq v.given
      BY <1>1 DEF Listing, ListOK, OneList, Asks
    <2>2. s.kept \subseteq v.kept /\ v.seen \subseteq s.seen /\ v.given \ v.kept \subseteq s.lost
      BY <2>1 DEF Serves, Begun
    <2>3. j.status \in {"ok", "ko"}
      BY DEF AgentInv, JobsOK, Job
    <2>4. ReplyOf(j).status = j.status /\ ReplyOf(j).out = j.out
      BY DEF ReplyOf
    <2>5. j.status = "ok" => s.kept \subseteq IdsOf(j.out) /\ j.out \subseteq s.seen
      BY <2>1, <2>2, EmptyRange DEF Has, IdsOf
    <2>6. j.status = "ko" => s.lost # {}
      BY <2>1, <2>2 DEF Has
    <2> QED
      BY <1>1, <2>3, <2>4, <2>5, <2>6 DEF Tells
  <1>2. CASE asked[j.req].subject = "READ"
    BY <1>2 DEF Serves, Reading
  <1> QED
    BY <1>1, <1>2 DEF Tells

\* A worker that lists sees nothing that its client does not.
LEMMA ListServes ==
  ASSUME ServedOK, ServedOK', SeenOK, [RestNext]_restVars, Watch, Observe, [AgentNext]_vars,
         NEW h \in Handlers, http[h].step = "wait", NEW t \in Threads, Begun(job[t])',
         Begun(job[t]) => Serves(http[h], span[h], job[t], view[t], ret[t])
  PROVE  /\ span'[h].kept \subseteq view'[t].kept /\ view'[t].seen \subseteq span'[h].seen
         /\ view'[t].given \ view'[t].kept \subseteq span'[h].lost
  <1>1. Listing(job'[t]) /\ inited'
    BY Begins DEF ServedOK, HeldOK
  <1>2. Shown' = memory'
    BY <1>1 DEF Shown
  <1>3. /\ Wider(span[h], span'[h])
        /\ span'[h].kept \subseteq Ids(memory') /\ span'[h].seen = span[h].seen \cup memory'.groups
        /\ span'[h].lost = span[h].lost \cup (Ids(Shown) \ Ids(memory'))
    BY <1>2, SpanWidens
  <1>4. CASE job'[t].listing /\ job[t].step # "resume"
    <2>1. view'[t] = [given |-> Ids(memory'), kept |-> Ids(memory'), seen |-> memory'.groups]
      BY <1>1, <1>4, Sees
    <2>2. /\ view'[t].given = Ids(memory') /\ view'[t].kept = Ids(memory')
          /\ view'[t].seen = memory'.groups
      BY <2>1
    <2> QED
      BY <1>3, <2>2
  <1>5. CASE ~(job'[t].listing /\ job[t].step # "resume")
    <2>1. view'[t] = [given |-> view[t].given, kept |-> view[t].kept \cap Ids(memory'),
                      seen |-> view[t].seen \cup memory'.groups]
      BY <1>1, <1>5, Sees
    <2>2. /\ view'[t].given = view[t].given /\ view'[t].kept = view[t].kept \cap Ids(memory')
          /\ view'[t].seen = view[t].seen \cup memory'.groups
      BY <2>1
    <2>3. Begun(job[t])
      BY <1>5, Begins DEF ServedOK
    <2>4. /\ span[h].kept \subseteq view[t].kept /\ view[t].seen \subseteq span[h].seen
          /\ view[t].given \ view[t].kept \subseteq span[h].lost
      BY <2>3 DEF Serves
    <2>5. Shown = memory /\ view[t].kept \subseteq Ids(memory)
      BY <2>3 DEF ServedOK, HeldOK, Shown
    <2> QED
      BY <1>3, <2>2, <2>4, <2>5 DEF Wider
  <1> QED
    BY <1>4, <1>5

\* A worker that reads returns what was stored then.
LEMMA ReadServes ==
  ASSUME RestInv, Own, ServedOK, ServedOK', SeenOK, CollectsOK, [RestNext]_restVars, Watch, Observe,
         [AgentNext]_vars, NEW h \in Handlers, http'[h] = http[h],
         NEW t \in Threads, Waits(h, job'[t].req),
         Reading(job[t])',
         job'[t].req = job[t].req => Serves(http[h], span[h], job[t], view[t], ret[t])
  PROVE  /\ job'[t].step = "resume" =>
              LET i == asked'[job'[t].req].ids[1] IN
              /\ ret'[t].status = "ok" => Granted(span'[h], i, ret'[t].groups)
              /\ ret'[t].status = "not found" => Denied(http[h], span'[h], i)
         /\ job'[t].step = "reply" =>
              Tells(http[h], span'[h], asked'[job'[t].req], ReplyOf(job'[t]))
  <1> DEFINE r == job'[t].req
             i == asked[r].ids[1]
  <1>0. AgentInv /\ ReadOK /\ Inv /\ JobsOK /\ HandledOnce /\ HolderOK /\ http \in [Handlers -> Http]
    BY DEF ServedOK, AgentInv, RestInv, HttpOK
  <1>1. r \in Requests /\ asked'[r] = asked[r] /\ asked[r].subject = "READ" /\ asked[r] # NoCommand
    <2>1. job'[t] \in Job /\ r # NoRequest
      BY DEF ServedOK, AgentInv, JobsOK, Reading
    <2>2. r \in Requests
      BY <2>1 DEF Job
    <2> QED
      BY <1>0, <2>2, CmdStays DEF Reading, NoCommand
  <1>2. /\ asked[r].valid
        /\ http[h].listed => i \in Range(http[h].left)
    <2>1. http[h] \in Http /\ AskOK(http[h]) /\ http[h].step = "wait"
      BY DEF RestInv, HttpOK, Waits
    <2>2. asked[r] \in Message(http[h])
      BY <1>1 DEF Own, QuestionOwn, Waits
    <2> QED
      BY <1>1, <2>1, <2>2, ReadMessage
  <1>3. Wider(span[h], span'[h]) /\ span'[h].kept \subseteq Ids(Shown')
        /\ span'[h].seen = span[h].seen \cup Shown'.groups
        /\ span'[h].lost = span[h].lost \cup (Ids(Shown) \ Ids(Shown'))
    BY SpanWidens DEF Waits
  <1>4. ASSUME job'[t].req = job[t].req PROVE Reading(job[t]) /\ Cmd(t) = asked[r]
    BY <1>1, <1>4 DEF Reading, Cmd
  <1>5. ASSUME job'[t].req = job[t].req, job[t].step = "resume"
        PROVE  /\ ret[t].status = "ok" => Granted(span'[h], i, ret[t].groups)
               /\ ret[t].status = "not found" => Denied(http[h], span'[h], i)
    BY <1>3, <1>4, <1>5 DEF Serves, Wider, Granted, Denied
  <1>6. CASE job'[t] = job[t] /\ ret'[t] = ret[t]
    <2>1. job[t].step = "reply" => Tells(http[h], span[h], asked[r], ReplyOf(job[t]))
      BY <1>4, <1>6 DEF Serves
    <2>2. job[t].step = "reply" => Tells(http[h], span'[h], asked[r], ReplyOf(job[t]))
      BY <1>3, <2>1, TellsMore
    <2> QED
      BY <1>1, <1>5, <1>6, <2>2
  <1>7. ASSUME NEW q \in Requests, Start(t, q) PROVE job'[t].step = "call"
    <2> DEFINE j == [NoJob EXCEPT !.step = "call", !.req = q, !.left = asked[q].ids,
                                  !.listing = asked[q].subject = "LIST"]
    <2>1. /\ Fails(j).req = q /\ [j EXCEPT !.step = "reply"].req = q /\ j.req = q /\ j.step = "call"
      BY DEF NoJob, Fails
    <2> HIDE DEF j
    <2>2. job'[t] = IF asked[q].subject # "LIST" /\ ~asked[q].valid THEN Fails(j)
                    ELSE IF asked[q].subject = "DELETE" /\ asked[q].ids = <<>>
                    THEN [j EXCEPT !.step = "reply"] ELSE j
      BY <1>0, <1>7 DEF Start, JobsOK, j
    <2>3. r = q
      BY <2>1, <2>2
    <2> QED
      BY <1>1, <1>2, <2>1, <2>2, <2>3
  <1>8. CASE Call(t)
    <2>1. job'[t].step = "resume" /\ job'[t].req = job[t].req
      BY <1>0, <1>8 DEF Call, JobsOK, Job
    <2>2. /\ inited'
          /\ ret'[t].status = "ok" => Ids(ret'[t]) = {i} /\ ret'[t].groups \subseteq memory'.groups
          /\ ret'[t].status = "not found" => i \notin Ids(memory')
      BY <1>0, <1>4, <1>8, <2>1, ReadCalls
    <2>3. Shown' = memory'
      BY <2>2 DEF Shown
    <2>4. ret'[t].status = "ok" => Granted(span'[h], i, ret'[t].groups)
      BY <1>3, <2>2, <2>3 DEF Granted, IdsOf, Ids
    <2>5. ret'[t].status = "not found" => Denied(http[h], span'[h], i)
      <3>1. http[h].listed => i \in Ids(Shown) \cup span[h].lost
        BY <1>2 DEF SeenOK, CollectsOK, Collects, Waits
      <3> QED
        BY <1>3, <2>2, <2>3, <3>1 DEF Denied
    <2> QED
      BY <1>1, <2>1, <2>4, <2>5
  <1>9. CASE Write(t)
    <2>1. job' = job /\ mutex = t
      BY <1>9 DEF Write, WriteDone, WriteFailed, agentVars
    <2> QED
      BY <1>0, <1>1, <1>4, <2>1 DEF HolderOK
  <1>10. CASE Resume(t)
    <2>1. job'[t].req = job[t].req /\ job'[t].req # NoRequest
      BY <1>0, <1>1, <1>10, ResumeReq, AgentAssumption DEF Continue, JobsOK
    <2>2. /\ job'[t].step = "reply"
          /\ \/ ret[t].status = "ok" /\ job'[t].status = "ok" /\ job'[t].out = ret[t].groups
             \/ ret[t].status = "not found" /\ job'[t].status = "ko"
      BY <1>0, <1>4, <1>10, <2>1, ReadEnds
    <2>3. ReplyOf(job'[t]).status = job'[t].status /\ ReplyOf(job'[t]).out = job'[t].out
      BY DEF ReplyOf
    <2>4. job[t].step = "resume"
      BY <1>10 DEF Resume
    <2> QED
      BY <1>1, <1>5, <2>1, <2>2, <2>3, <2>4 DEF Tells
  <1>11. CASE Reply(t) \/ Die
    BY <1>0, <1>1, <1>11, NoJobJob, AgentAssumption DEF Reply, Die, JobsOK
  <1> QED
    BY <1>0, <1>6, <1>7, <1>8, <1>9, <1>10, <1>11, EachWorker

CallsOK == RestInv /\ Own /\ ServedOK /\ SeenOK /\ ServesOK /\ CollectsOK

LEMMA ServesOKStep == CallsOK /\ Own' /\ ServedOK' /\ [RestNext]_restVars => ServesOK'
  <1> SUFFICES ASSUME CallsOK, Own', ServedOK', [RestNext]_restVars, NEW h \in Handlers
               PROVE  /\ \A t \in Threads : Waits(h, job[t].req)' =>
                           Serves(http[h], span[h], job[t], view[t], ret[t])'
                      /\ \A r \in Requests : Waits(h, r)' => \A a \in Answers(r)' :
                           Tells(http'[h], span'[h], asked'[r], a)
    BY DEF ServesOK, Tells, Granted, Denied, IdsOf
  <1>0. /\ RestInv /\ Own /\ ServedOK /\ SeenOK /\ ServesOK /\ CollectsOK
        /\ AgentInv /\ ListOK /\ JobsOK /\ HandledOnce /\ RepliesOK
    BY DEF CallsOK, ServedOK, AgentInv
  <1>1. [AgentNext]_vars /\ HttpOK'
    BY <1>0, RestStep
  <1>2. UNCHANGED vars \/ Observe
    BY <1>1 DEF AgentNext, Work
  <1>3. ASSUME NEW r, Waits(h, r)' PROVE r \in Requests
    BY <1>1, <1>3 DEF Waits, HttpOK, Http, Own, QuestionOwn
  <1>4. ASSUME NEW r, Waits(h, r)', asked[r] # NoCommand
        PROVE  /\ http'[h] = http[h] /\ Waits(h, r) /\ asked'[r] = asked[r]
               /\ UNCHANGED restVars \/ (Watch /\ Wider(span[h], span'[h]))
    <2>1. r \in Requests
      BY <1>3, <1>4
    <2>2. http'[h] = http[h] /\ Waits(h, r) /\ asked'[r] = asked[r]
      BY <1>0, <1>1, <1>4, <2>1, Waiting, AskedStays
    <2> QED
      BY <2>2, RestWatches, SpanWidens DEF Waits
  <1>5. ASSUME NEW t \in Threads, NEW r, r = job'[t].req, Waits(h, r)'
        PROVE  Serves(http[h], span[h], job[t], view[t], ret[t])'
    <2>1. r \in Requests /\ asked'[r] # NoCommand
      BY <1>3, <1>5 DEF ServedOK, AgentInv, HandledOnce, Workers
    <2>2. asked[r] # NoCommand
      BY <1>0, <1>1, <1>5, <2>1, CmdStays
    <2>3. /\ http'[h] = http[h] /\ Waits(h, r) /\ asked'[r] = asked[r]
          /\ UNCHANGED restVars \/ (Watch /\ Wider(span[h], span'[h]))
      BY <1>4, <1>5, <2>2
    <2>4. job'[t].req = job[t].req => Serves(http[h], span[h], job[t], view[t], ret[t])
      BY <1>0, <1>5, <2>3 DEF ServesOK
    <2>5. CASE UNCHANGED restVars
      BY <2>4, <2>5 DEF restVars, vars, agentVars, storageVars, Serves, Tells, Granted, Denied,
                        IdsOf, Begun, Listing, Reading, ReplyOf
    <2>6. CASE Watch /\ UNCHANGED vars
      <3>1. Serves(http[h], span[h], job[t], view[t], ret[t])
        BY <2>4, <2>6 DEF vars, agentVars
      <3>2. job[t].step = "reply" /\ Reading(job[t]) =>
              Tells(http[h], span'[h], asked[job[t].req], ReplyOf(job[t]))
        BY <2>3, <2>6, <3>1, TellsMore DEF Serves, restVars, Wider
      <3>3. Wider(span[h], span'[h])
        BY <2>3, <2>6 DEF restVars, Wider
      <3> QED
        BY <1>5, <2>3, <2>6, <3>1, <3>2, <3>3
           DEF vars, agentVars, storageVars, Serves, Tells, Granted, Denied, Wider,
               IdsOf, Begun, Listing, Reading, ReplyOf
    <2>7. CASE Watch /\ Observe
      <3>1. Begun(job[t])' => /\ span'[h].kept \subseteq view'[t].kept
                              /\ view'[t].seen \subseteq span'[h].seen
                              /\ view'[t].given \ view'[t].kept \subseteq span'[h].lost
        <4> SUFFICES ASSUME Begun(job[t])'
                     PROVE  /\ span'[h].kept \subseteq view'[t].kept
                            /\ view'[t].seen \subseteq span'[h].seen
                            /\ view'[t].given \ view'[t].kept \subseteq span'[h].lost
          OBVIOUS
        <4>1. job'[t].req = job[t].req
          BY <1>0, <1>1, Begins
        <4> QED
          BY <1>0, <1>1, <2>3, <2>4, <2>7, <4>1, ListServes DEF Waits
      <3>2. Reading(job[t])' =>
              /\ job'[t].step = "resume" =>
                   LET i == asked'[job'[t].req].ids[1] IN
                   /\ ret'[t].status = "ok" => Granted(span'[h], i, ret'[t].groups)
                   /\ ret'[t].status = "not found" => Denied(http[h], span'[h], i)
              /\ job'[t].step = "reply" =>
                   Tells(http[h], span'[h], asked'[job'[t].req], ReplyOf(job'[t]))
        BY <1>0, <1>1, <1>5, <2>3, <2>4, <2>7, ReadServes
      <3> QED
        BY <2>3, <3>1, <3>2 DEF Serves, Tells, Granted, Denied, IdsOf, ReplyOf
    <2> QED
      BY <1>2, <2>3, <2>5, <2>6, <2>7
  <1>6. ASSUME NEW r \in Requests, Waits(h, r)', NEW a \in Answers(r)'
        PROVE  Tells(http'[h], span'[h], asked'[r], a)
    <2>1. asked[r] # NoCommand
      <3>1. CASE a \in Answers(r)
        <4>1. replies[r] # <<>>
          BY <3>1 DEF Answers
        <4> QED
          BY <1>0, <4>1 DEF HandledOnce
      <3>2. CASE \E t \in Threads : Reply(t) /\ job[t].req = r
        BY <1>0, <3>2 DEF HandledOnce, Workers
      <3> QED
        BY <1>0, <1>1, <1>6, <3>1, <3>2, NewAnswers
    <2>2. /\ http'[h] = http[h] /\ Waits(h, r) /\ asked'[r] = asked[r]
          /\ UNCHANGED restVars \/ (Watch /\ Wider(span[h], span'[h]))
      BY <1>4, <1>6, <2>1
    <2>3. Tells(http[h], span[h], asked[r], a)
      <3>1. CASE a \in Answers(r)
        BY <1>0, <2>2, <3>1 DEF ServesOK
      <3>2. ASSUME NEW t \in Threads, Reply(t), job[t].req = r, a = ReplyOf(job[t])
            PROVE  Tells(http[h], span[h], asked[r], a)
        <4>1. Serves(http[h], span[h], job[t], view[t], ret[t])
          BY <1>0, <2>2, <3>2 DEF ServesOK
        <4>2. job[t].step = "reply" /\ job[t].req # NoRequest
          BY <3>2, AgentAssumption DEF Reply
        <4> QED
          BY <1>0, <3>2, <4>1, <4>2, RepliesTell
      <3> QED
        BY <1>0, <1>1, <1>6, <3>1, <3>2, NewAnswers
    <2>4. Wider(span[h], span'[h])
      BY <2>2 DEF restVars, Wider
    <2> QED
      BY <2>2, <2>3, <2>4, TellsMore
  <1> QED
    BY <1>5, <1>6 DEF Waits

-----------------------------------------------------------------------------
(* What a handler makes of the answers.                                    *)

LEMMA EndedIs ==
  ASSUME NEW p \in Http, NEW s
  PROVE  /\ Ended(p, s).step = "done" /\ Ended(p, s).status = s /\ Ended(p, s).call = p.call
         /\ Ended(p, s).out = p.out /\ Ended(p, s).corr = p.corr /\ Ended(p, s).listed = p.listed
  BY DEF Ended, Http

\* A handler that an answer told the truth goes on, or ends, with the truth.
LEMMA Received ==
  ASSUME NEW p \in Http, AskOK(p), p.step = "wait", NEW s, Collects(p, s),
         NEW a \in Answer, NEW c \in Message(p), Tells(p, s, c, a), NEW q \in Outcomes(p, a)
  PROVE  /\ Collects(q, s) /\ ListsTrue(q, s)
         /\ ReadsTrue(q, s)
  <1>0. /\ p.call \in Calls /\ ~Refused(p.call) /\ (p.listed => p.call.verb = "list" /\ p.left # <<>>)
        /\ p.status = "none" /\ (~p.listed => p.out = {})
    BY DEF AskOK, Collects
  <1>1. CASE q = Ended(p, "error") /\ a.status = "ko"
    <2>1. q.step = "done" /\ q.status = "error" /\ q.call = p.call /\ q.listed = p.listed
      BY <1>1, EndedIs
    <2>2. ListsTrue(q, s)
      <3>1. p.call.verb = "list" => s.lost # {}
        <4>1. CASE p.listed
          <5>1. c.subject = "READ"
            BY <4>1 DEF Message, Say
          <5> QED
            BY <1>1, <4>1, <5>1 DEF Tells, Denied
        <4>2. CASE ~p.listed
          BY <1>1, <4>2, ListMessage DEF Tells
        <4> QED
          BY <4>1, <4>2
      <3> QED
        BY <2>1, <3>1 DEF ListsTrue
    <2>3. ReadsTrue(q, s)
      <3> SUFFICES ASSUME p.call.verb = "read"
                   PROVE  \E i \in Narrowed(p.call.ids[1]) : i \notin s.kept
        BY <2>1 DEF ReadsTrue
      <3>1. ~p.listed /\ c.subject = "READ"
        BY <1>0 DEF Message, Commanded, Say
      <3>2. c.ids[1] \in Narrowed(p.call.ids[1])
        BY <1>0, <3>1, ReadMessage
      <3> QED
        BY <1>1, <3>1, <3>2 DEF Tells, Denied
    <2> QED
      BY <2>1, <2>2, <2>3 DEF Collects
  <1>2. CASE q = Ended(p, "error") /\ p.call.verb = "resolve"
    BY <1>2, EndedIs DEF Collects, ListsTrue, ReadsTrue
  <1>3. CASE a.status # "ko" /\ p.call.verb # "list"
               /\ q = [Ended(p, "ok") EXCEPT !.out = a.out, !.removed = a.removed]
    <2>1. q.step = "done" /\ q.status = "ok" /\ q.call = p.call /\ q.out = a.out
      BY <1>3, EndedIs DEF Ended, Http
    <2>2. a.status = "ok"
      BY <1>3 DEF Answer
    <2>3. ReadsTrue(q, s)
      <3> SUFFICES ASSUME p.call.verb = "read"
                   PROVE  \E i \in Narrowed(p.call.ids[1]) : Granted(s, i, a.out)
        BY <2>1 DEF ReadsTrue
      <3>1. ~p.listed /\ c.subject = "READ"
        BY <1>0 DEF Message, Commanded, Say
      <3>2. c.ids[1] \in Narrowed(p.call.ids[1])
        BY <1>0, <3>1, ReadMessage
      <3> QED
        BY <2>2, <3>1, <3>2 DEF Tells
    <2> QED
      BY <1>3, <2>1, <2>3 DEF Collects, ListsTrue
  <1>4. CASE a.status # "ko" /\ p.call.verb = "list" /\ p.listed /\ q = Gathered(p, a.out)
    <2>1. /\ a.status = "ok" /\ c = Say("READ", {}, <<Head(p.left)>>)
          /\ p.left \in Seq(0 .. MaxId) /\ p.left # <<>>
      BY <1>0, <1>4 DEF Answer, Message, Http
    <2>2. c.subject = "READ" /\ c.ids[1] = Head(p.left)
      BY <2>1 DEF Say
    <2>3. a.out \subseteq s.seen /\ IdsOf(a.out) = {Head(p.left)}
      BY <2>1, <2>2 DEF Tells, Granted
    <2>4. Range(p.left) = {Head(p.left)} \cup Range(Tail(p.left))
      BY <2>1, HeadTailRange
    <2> DEFINE out == p.out \cup a.out
               left == Tail(p.left)
    <2>5. s.kept \subseteq IdsOf(out) \cup Range(left)
          /\ Range(left) \subseteq IdsOf(s.seen) /\ out \subseteq s.seen
      <3>1. IdsOf(out) = IdsOf(p.out) \cup IdsOf(a.out)
        BY DEF IdsOf
      <3> QED
        BY <1>4, <2>3, <2>4, <3>1 DEF Collects
    <2>6. /\ q.call = p.call /\ q.listed = p.listed /\ q.out = out /\ q.left = left
          /\ q.step = IF Len(p.left) = 1 THEN "done" ELSE "send"
          /\ q.status = IF Len(p.left) = 1 THEN "ok" ELSE p.status
      BY <1>4 DEF Gathered, Http
    <2>7. Len(p.left) = 1 => left = <<>>
      <3>1. Len(p.left) = 1 => ~(Len(p.left) > 1)
        OBVIOUS
      <3> QED
        BY <2>1, <3>1, LastTail, Zenon
    <2> HIDE DEF out, left
    <2> QED
      BY <1>0, <1>4, <2>5, <2>6, <2>7, EmptyRange DEF Collects, ListsTrue, ReadsTrue
  <1>5. CASE a.status # "ko" /\ p.call.verb = "list" /\ ~p.listed
               /\ \E ids \in Ascending(IdsOf(a.out)) : q = Listed(p, ids)
    <2>1. PICK ids \in Ascending(IdsOf(a.out)) : q = Listed(p, ids)
      BY <1>5
    <2>2. IdsOf(a.out) \in SUBSET (0 .. MaxId)
      BY DEF IdsOf, Answer, Group
    <2>3. Range(ids) = IdsOf(a.out)
      BY <2>2, AscendingRange
    <2>4. s.kept \subseteq IdsOf(a.out) /\ a.out \subseteq s.seen
      BY <1>5, ListMessage DEF Tells, Answer
    <2>5. CASE ids = <<>>
      <3>1. q = Ended(p, "ok")
        BY <2>1, <2>5 DEF Listed
      <3>2. s.kept = {}
        BY <2>3, <2>4, <2>5, EmptyRange
      <3> QED
        BY <1>0, <1>5, <3>1, <3>2, EndedIs DEF Collects, ListsTrue, ReadsTrue
    <2>6. CASE ids # <<>>
      <3>1. q = [p EXCEPT !.step = "send", !.listed = TRUE, !.left = ids]
        BY <2>1, <2>6 DEF Listed
      <3>2. /\ q.step = "send" /\ q.listed = TRUE /\ q.left = ids /\ q.out = p.out
            /\ q.status = p.status /\ q.call = p.call
        BY <3>1 DEF Http
      <3>3. IdsOf(a.out) \subseteq IdsOf(s.seen)
        BY <2>4 DEF IdsOf
      <3> QED
        BY <1>0, <1>5, <2>3, <2>4, <3>2, <3>3 DEF Collects, ListsTrue, ReadsTrue
    <2> QED
      BY <2>5, <2>6
  <1> QED
    BY <1>1, <1>2, <1>3, <1>4, <1>5 DEF Outcomes

\* Every step of a handler itself.
LEMMA HandlerCollects ==
  ASSUME CallsOK, NEW h \in Handlers, [RestNext]_restVars, http'[h] # http[h]
  PROVE  /\ Collects(http'[h], span'[h]) /\ ListsTrue(http'[h], span'[h])
         /\ ReadsTrue(http'[h], span'[h])
  <1> DEFINE p == http[h]
             w == span'[h]
  <1>0. /\ http \in [Handlers -> Http] /\ p \in Http /\ AskOK(p) /\ Collects(p, span[h])
        /\ UNCHANGED vars /\ Watch /\ RestInv
    BY EachHandler DEF CallsOK, RestInv, HttpOK, CollectsOK
  <1>1. ASSUME p.step \in {"send", "wait"} PROVE Wider(span[h], w) /\ Collects(p, w)
    BY <1>0, <1>1, SpanWidens, CollectsMore
  <1>2. ASSUME NEW q, q.status = "none", q.step \in {"send", "wait"},
               q.step = "send" /\ ~q.listed => q.corr = NoRequest,
               q.out = p.out, q.left = p.left, q.listed = p.listed,
               p.step \in {"send", "wait"}
        PROVE  Collects(q, w) /\ ListsTrue(q, w) /\ ReadsTrue(q, w)
    BY <1>1, <1>2 DEF Collects, ListsTrue, ReadsTrue
  <1>3. ASSUME NEW q, q.step = "done",
               q.status \in {"timeout", "refused"} \/ (q.status = "error" /\ q.corr = NoRequest)
                 \/ (q.status = "error" /\ q.call.verb = "resolve")
        PROVE  Collects(q, w) /\ ListsTrue(q, w) /\ ReadsTrue(q, w)
    BY <1>3 DEF Collects, ListsTrue, ReadsTrue
  <1>4. ASSUME NEW c \in Calls, Open(h, c)
        PROVE  Collects(http'[h], w) /\ ListsTrue(http'[h], w) /\ ReadsTrue(http'[h], w)
    <2> DEFINE o == [NoHttp EXCEPT !.call = c]
    <2>1. o \in Http /\ o.status = "none" /\ o.corr = NoRequest /\ ~o.listed /\ o.out = {}
      BY NoHttpOK DEF NoHttp, Http
    <2> HIDE DEF o
    <2>2. \/ http'[h] = [o EXCEPT !.step = "send"]
          \/ \E s \in {"refused", "error"} : http'[h] = Ended(o, s)
      BY <1>0, <1>4 DEF Open, o
    <2>3. CASE http'[h] = [o EXCEPT !.step = "send"]
      <3>1. /\ http'[h].step = "send" /\ http'[h].status = "none" /\ ~http'[h].listed
            /\ http'[h].corr = NoRequest /\ http'[h].out = {}
        BY <2>1, <2>3 DEF Http
      <3> QED
        BY <3>1 DEF Collects, ListsTrue, ReadsTrue
    <2>4. ASSUME NEW s \in {"refused", "error"}, http'[h] = Ended(o, s)
          PROVE  Collects(http'[h], w) /\ ListsTrue(http'[h], w) /\ ReadsTrue(http'[h], w)
      BY <1>3, <2>1, <2>4, EndedIs
    <2> QED
      BY <2>2, <2>3, <2>4
  <1>5. CASE Send(h)
    <2>1. PICK r : http'[h] = [p EXCEPT !.step = "wait", !.corr = r] /\ p.step = "send"
      BY <1>0, <1>5 DEF Send
    <2>2. /\ http'[h].step = "wait" /\ http'[h].status = p.status /\ http'[h].out = p.out
          /\ http'[h].left = p.left /\ http'[h].listed = p.listed
      BY <1>0, <2>1 DEF Http
    <2> QED
      BY <1>0, <1>2, <2>1, <2>2 DEF Collects
  <1>6. CASE NarrowingThrows(h)
    <2>1. http'[h] = Ended(p, "error") /\ p.step = "send" /\ p.call.verb \in {"read", "resolve"}
      BY <1>0, <1>6 DEF NarrowingThrows
    <2>2. p.corr = NoRequest
      BY <1>0, <2>1 DEF Collects, AskOK
    <2> QED
      BY <1>0, <1>3, <2>1, <2>2, EndedIs
  <1>7. CASE Timeout(h)
    <2>1. http'[h] = Ended(p, "timeout")
      BY <1>0, <1>7 DEF Timeout
    <2> QED
      BY <1>0, <1>3, <2>1, EndedIs
  <1>8. ASSUME NEW r \in Requests, Receive(h, r), Waits(h, r)
        PROVE  Collects(http'[h], w) /\ ListsTrue(http'[h], w) /\ ReadsTrue(http'[h], w)
    <2> DEFINE a == Head(replies[r])
    <2>1. replies[r] \in Seq(Answer) /\ replies[r] # <<>>
      BY <1>0, <1>8 DEF Receive, RestInv, RepliesOK
    <2>2. a \in Answer /\ a \in Answers(r)
      <3>1. Len(replies[r]) \in Nat /\ Len(replies[r]) # 0 /\ DOMAIN replies[r] = 1 .. Len(replies[r])
        BY <2>1, LenProperties, EmptySeq
      <3>2. a = replies[r][1] /\ 1 \in DOMAIN replies[r]
        BY <2>1, <3>1
      <3> QED
        BY <2>1, <3>2, HeadTailProperties DEF Answers
    <2>3. asked[r] \in Message(p)
      BY <1>8, <2>1 DEF CallsOK, ServedOK, AgentInv, HandledOnce, Own, QuestionOwn, Waits
    <2>4. Tells(p, span[h], asked[r], a)
      BY <1>8, <2>2 DEF CallsOK, ServesOK
    <2>5. p.step = "wait"
      BY <1>8 DEF Waits
    <2>6. Tells(p, w, asked[r], a)
      BY <1>1, <2>4, <2>5, TellsMore
    <2>7. PICK q \in Outcomes(p, a) : http'[h] = q
      BY <1>0, <1>8 DEF Receive
    <2> HIDE DEF a
    <2> QED
      BY <1>0, <1>1, <2>2, <2>3, <2>5, <2>6, <2>7, Received
  <1> QED
    BY <1>0, <1>4, <1>5, <1>6, <1>7, <1>8, EachHandler

LEMMA CollectsOKStep == CallsOK /\ [RestNext]_restVars => CollectsOK'
  <1> SUFFICES ASSUME CallsOK, [RestNext]_restVars, NEW h \in Handlers
               PROVE  Collects(http'[h], span'[h]) /\ ListsTrue(http'[h], span'[h])
    BY DEF CollectsOK, Collects, ListsTrue, IdsOf
  <1>0. Collects(http[h], span[h]) /\ ListsTrue(http[h], span[h]) /\ http[h].step \in {"idle", "send", "wait", "done"}
    BY DEF CallsOK, CollectsOK, RestInv, HttpOK, Http
  <1>1. CASE http'[h] = http[h] /\ span'[h] = span[h]
    BY <1>0, <1>1
  <1>2. CASE http'[h] = http[h] /\ http[h].step \in {"send", "wait"} /\ Watch
    <2>1. Collects(http[h], span'[h])
      BY <1>0, <1>2, SpanWidens, CollectsMore
    <2> QED
      BY <1>2, <2>1 DEF Collects, ListsTrue
  <1> QED
    BY <1>1, <1>2, HandlerCollects, SpanStays, RestWatches DEF restVars

LEMMA CallsAlways == RestSpec => []CallsOK
  <1>1. RestInit => SeenOK /\ ServesOK /\ CollectsOK
    BY AgentAssumption DEF RestInit, NoHttp, SeenOK, ServesOK, Waits, CollectsOK, Collects, ListsTrue
  <1>2. CallsOK /\ [RestNext]_restVars => SeenOK' /\ CollectsOK'
    BY SeenOKStep, CollectsOKStep DEF CallsOK
  <1>3. CallsOK /\ Own' /\ ServedOK' /\ [RestNext]_restVars => ServesOK'
    BY ServesOKStep
  <1> QED
    BY <1>1, <1>2, <1>3, RestUsesAgent, HandlersAskTheirOwn, ServedAlways, PTL DEF RestSpec, CallsOK

(* GET of the list makes one picture of many messages: whatever fails,     *)
(* however the handlers and the workers take turns, and whoever gets the   *)
(* replies, the list has every group that was stored all the time and none *)
(* that never was, and an answer of the agent makes it fail only if a      *)
(* group was removed meanwhile.                                            *)
THEOREM RestListHonestAlways == RestSpec => []RestListHonest
  <1>1. CallsOK => RestListHonest
    BY DEF CallsOK, CollectsOK, ListsTrue, RestListHonest
  <1> QED
    BY <1>1, CallsAlways, PTL

\* Every read was answered about the id it asked for.
ReadsOK == \A h \in Handlers : ReadsTrue(http[h], span[h])

LEMMA ReadsAlways == RestSpec => []ReadsOK
  <1>1. RestInit => ReadsOK
    BY DEF RestInit, NoHttp, ReadsOK, ReadsTrue
  <1>2. CallsOK /\ ReadsOK /\ [RestNext]_restVars => ReadsOK'
    <2> SUFFICES ASSUME CallsOK, ReadsOK, [RestNext]_restVars, NEW h \in Handlers
                 PROVE  ReadsTrue(http'[h], span'[h])
      BY DEF ReadsOK, ReadsTrue, Granted, IdsOf
    <2>1. CASE http'[h] # http[h]
      BY <2>1, HandlerCollects
    <2>2. CASE http'[h] = http[h] /\ http[h].step \in {"send", "wait"}
      BY <2>2 DEF CallsOK, CollectsOK, Collects, ReadsTrue
    <2>3. CASE http'[h] = http[h] /\ http[h].step \notin {"send", "wait"}
      BY <2>3, SpanStays DEF ReadsOK
    <2> QED
      BY <2>1, <2>2, <2>3
  <1> QED
    BY <1>1, <1>2, CallsAlways, PTL DEF RestSpec

(* A call for a group that is stored from its beginning to its end is      *)
(* never answered with another group, nor told that there is none, exactly *)
(* if its id is below the limit of the conversion GET makes of its path:   *)
(* from the limit on it is never answered with that group.  For any limit, *)
(* with any faults, and however replies are late, lost or stray.           *)
THEOREM ReadsStoredAlways == RestSpec => []ReadsStored
  <1>1. RestTypeOK /\ ReadsOK => ReadsStored
    <2> SUFFICES ASSUME RestTypeOK, ReadsOK, NEW h \in Handlers, NEW n, n = http[h].call.ids[1],
                        http[h].call.verb = "read",
                        http[h].status \in {"ok", "error"}, http[h].corr # NoRequest,
                        n \in span[h].kept
                 PROVE  IF n < ReadLimit THEN http[h].status = "ok" /\ IdsOf(http[h].out) = {n}
                        ELSE http[h].status = "ok" => n \notin IdsOf(http[h].out)
      BY DEF ReadsStored
    <2>1. n \in 0 .. MaxId
      BY DEF RestTypeOK
    <2>2. CASE http[h].status = "ok"
      <3>1. PICK i \in Narrowed(n) : IdsOf(http[h].out) = {i}
        BY <2>2 DEF ReadsOK, ReadsTrue, Granted
      <3>2. IF n < ReadLimit THEN i = n ELSE i # n
        <4>1. i < n => i # n
          BY <2>1, GroupDbAssumption
        <4> QED
          BY <2>1, <4>1, NarrowedFits
      <3> QED
        BY <2>2, <3>1, <3>2
    <2>3. CASE http[h].status = "error"
      <3>1. PICK i \in Narrowed(n) : i \notin span[h].kept
        BY <2>3 DEF ReadsOK, ReadsTrue
      <3> QED
        BY <2>1, <2>3, <3>1, NarrowedFits
    <2> QED
      BY <2>2, <2>3
  <1> QED
    BY <1>1, RestTypeCorrect, ReadsAlways, PTL
=============================================================================
