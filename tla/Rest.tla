--------------------------------- MODULE Rest ---------------------------------
(***************************************************************************)
(* The REST handlers (rest/src) inside the web server, the bus wrapper     *)
(* they use (common/message-bus.cpp) and the broker, in front of the agent *)
(* of Agent.tla.  A handler serves one HTTP call: it checks the call,      *)
(* connects to the bus under a name all handlers share, sends a message    *)
(* and waits for the reply, until the timeout.                             *)
(*                                                                         *)
(* A request of Agent.tla is a message here, known by its correlation id,  *)
(* a new one each (generateUuid).  The broker delivers a message at most   *)
(* once, late, or never, in any order.                                     *)
(***************************************************************************)
EXTENDS Agent

CONSTANTS Handlers,   \* HTTP calls, each with a thread of the web server
          Calls,      \* what a call can say
          ReadLimit,  \* 2^16 in the code: ids convert<uint16_t> can hold
          NetFaults   \* what else can go wrong, see NetFaultKinds

Verbs == {"create", "edit", "list", "read", "remove", "resolve"}

(* allowed: the user has the permission; ids: the id in the path, if there *)
(* is one; body and groups: what is in the body, which is a group if it is *)
(* not empty and parses.                                                   *)
HttpCall == [verb : Verbs, allowed : BOOLEAN, ids : Seq(0 .. MaxId),
             body : {"none", "broken", "group"}, groups : SUBSET Group]

(* "init"      MessageBus::init fails                                      *)
(* "misroute"  a reply reaches another handler of the same name than the   *)
(*             one that waits for it                                       *)
NetFaultKinds == {"init", "misroute"}

Say(subject, groups, ids) ==
  [subject |-> subject, valid |-> TRUE, groups |-> groups, ids |-> ids]

NoCall == [verb |-> "none", allowed |-> FALSE, ids |-> <<>>, body |-> "none", groups |-> {}]

-----------------------------------------------------------------------------
(* What a handler asks of the agent.                                       *)

\* The handler ends before it connects to the bus.
Refused(c) ==
  \/ ~c.allowed
  \/ c.verb \in {"edit", "read", "remove", "resolve"} /\ c.ids = <<>>
  \/ c.verb \in {"create", "edit"} /\ c.body = "none"
  \/ c.verb = "edit" /\ c.body = "broken"

\* Mutant: the id is converted to half the bits.
Narrowed_Halved(i) == {i % (ReadLimit \div 2)}

(* convert<uint16_t> belongs to fty-utils: of an id that does not fit it   *)
(* keeps the low bits, or the largest value, or throws (NarrowingThrows).  *)
Narrowed(i) == IF i < ReadLimit THEN {i} ELSE {i % ReadLimit, ReadLimit - 1}

(* The first message of a call.  POST passes its body on as it is, PUT     *)
(* puts the id of the path into the group it parsed.  What convert makes   *)
(* of a path that is no number is left out.                                *)
Commanded(c) ==
  CASE c.verb = "create"  -> {[Say("CREATE", c.groups, <<>>) EXCEPT !.valid = c.body = "group"]}
    [] c.verb = "edit"    -> {Say("UPDATE", {[g EXCEPT !.id = c.ids[1]] : g \in c.groups}, <<>>)}
    [] c.verb = "list"    -> {Say("LIST", {}, <<>>)}
    [] c.verb = "read"    -> {Say("READ", {}, <<i>>) : i \in Narrowed(c.ids[1])}
    [] c.verb = "remove"  -> {Say("DELETE", {}, c.ids)}
    [] c.verb = "resolve" -> {Say("RESOLVE", {}, <<i>>) : i \in Narrowed(c.ids[1])}

ASSUME RestAssumption ==
  /\ NetFaults \subseteq NetFaultKinds
  /\ ReadLimit \in Nat \ {0}
  /\ Calls \subseteq HttpCall
  /\ \A c \in Calls : Len(c.ids) <= 1 /\ (c.body = "group" => \E g \in Group : c.groups = {g})
  /\ \A c \in Calls : ~Refused(c) => Commanded(c) \subseteq Commands
  /\ \A c \in Calls : c.verb = "list" =>
       \A i \in 0 .. MaxId : Say("READ", {}, <<i>>) \in Commands

VARIABLES http,   \* what each handler is doing
          wire,   \* messages on their way to the agent
          taken,  \* the requests whose reply somebody has received
          span    \* history: the catalog since each call began

restVars == <<vars, http, wire, taken, span>>

(* corr: the correlation id it waits for; listed, left: a list that has    *)
(* the ids, and those it has yet to read; out, removed, status: the answer *)
Http == [step : {"idle", "send", "wait", "done"}, call : Calls \cup {NoCall},
         corr : Requests \cup {NoRequest}, listed : BOOLEAN, left : Seq(0 .. MaxId),
         out : SUBSET Group, removed : SUBSET (0 .. MaxId),
         status : {"none", "ok", "error", "refused", "timeout"}]

NoHttp == [step |-> "idle", call |-> NoCall, corr |-> NoRequest, listed |-> FALSE,
           left |-> <<>>, out |-> {}, removed |-> {}, status |-> "none"]

NoSpan == [kept |-> {}, seen |-> {}, lost |-> {}]

Ended(p, status) == [p EXCEPT !.step = "done", !.status = status]

IdsOf(groups) == {g.id : g \in groups}

-----------------------------------------------------------------------------
RestInit ==
  /\ AgentInit
  /\ http = [h \in Handlers |-> NoHttp]
  /\ wire = {}
  /\ taken = {}
  /\ span = [h \in Handlers |-> NoSpan]

\* run() of each handler, up to the point where the bus is connected.
Open(h, c) ==
  /\ http[h] = NoHttp
  /\ LET p == [NoHttp EXCEPT !.call = c] IN
     \/ Refused(c) /\ http' = [http EXCEPT ![h] = Ended(p, "refused")]
     \/ ~Refused(c) /\ http' = [http EXCEPT ![h] = [p EXCEPT !.step = "send"]]
     \/ /\ ~Refused(c) /\ "init" \in NetFaults
        /\ http' = [http EXCEPT ![h] = Ended(p, "error")]
  /\ UNCHANGED <<vars, wire, taken>>

\* The next message of a handler: a list reads one group after the other.
Message(p) == IF p.listed THEN {Say("READ", {}, <<Head(p.left)>>)} ELSE Commanded(p.call)

Used(r) == asked[r] # NoCommand \/ \E m \in wire : m.corr = r

\* generateUuid: an id no message had before.
Fresh == CHOOSE r \in Requests : ~Used(r)

\* Mutant: the message gets no correlation id.
Send_Unmarked(h) ==
  /\ http[h].step = "send"
  /\ \E c \in Message(http[h]) : wire' = wire \cup {[corr |-> NoRequest, command |-> c]}
  /\ http' = [http EXCEPT ![h].step = "wait"]
  /\ UNCHANGED <<vars, taken>>

\* MessageBus::send, until it waits in request.
Send(h) ==
  /\ http[h].step = "send"
  /\ \E r \in Requests : ~Used(r)
  /\ \E c \in Message(http[h]) : wire' = wire \cup {[corr |-> Fresh, command |-> c]}
  /\ http' = [http EXCEPT ![h].step = "wait", ![h].corr = Fresh]
  /\ UNCHANGED <<vars, taken>>

NarrowingThrows(h) ==
  /\ http[h].step = "send"
  /\ http[h].call.verb \in {"read", "resolve"}
  /\ http[h].call.ids[1] >= ReadLimit
  /\ http' = [http EXCEPT ![h] = Ended(@, "error")]
  /\ UNCHANGED <<vars, wire, taken>>

\* The broker hands a message to Server::process.
Deliver(m) ==
  /\ m \in wire
  /\ Process(m.corr, m.command) /\ Observe
  /\ wire' = wire \ {m}
  /\ UNCHANGED <<http, taken>>

-----------------------------------------------------------------------------
(* A handler goes on with the reply that send returned.                    *)

\* list: the ids have arrived.
Listed(p, ids) ==
  IF ids = <<>> THEN Ended(p, "ok")
  ELSE [p EXCEPT !.step = "send", !.listed = TRUE, !.left = ids]

\* list: one more group has arrived.
Gathered(p, groups) ==
  [p EXCEPT !.out = @ \cup groups, !.left = Tail(@),
            !.step = IF Len(p.left) = 1 THEN "done" ELSE "send",
            !.status = IF Len(p.left) = 1 THEN "ok" ELSE @]

\* Mutant: a group that is gone ends the list with the groups there are.
Outcomes_Breaks(p, a) ==
  IF a.status = "ko" THEN {Ended(p, IF p.listed THEN "ok" ELSE "error")}
  ELSE IF p.call.verb # "list"
  THEN {[Ended(p, "ok") EXCEPT !.out = a.out, !.removed = a.removed]}
  ELSE IF p.listed THEN {Gathered(p, a.out)}
  ELSE {Listed(p, ids) : ids \in Ascending(IdsOf(a.out))}

(* An error of the agent is an internal error of the call; a resolve ends  *)
(* with one too when the assets cannot be described (getJsonAsset).        *)
Outcomes(p, a) ==
  IF a.status = "ko" THEN {Ended(p, "error")}
  ELSE IF p.call.verb # "list"
  THEN {[Ended(p, "ok") EXCEPT !.out = a.out, !.removed = a.removed]}
         \cup {Ended(p, "error") : v \in {"resolve"} \cap {p.call.verb}}
  ELSE IF p.listed THEN {Gathered(p, a.out)}
  ELSE {Listed(p, ids) : ids \in Ascending(IdsOf(a.out))}

Waits(h, r) == http[h].step = "wait" /\ http[h].corr = r

\* Mutant: a handler takes any reply that comes to its name for its own.
Receive_AnyReply(h, r) ==
  /\ http[h].step = "wait"
  /\ replies[r] # <<>> /\ r \notin taken
  /\ Waits(h, r) \/ "misroute" \in NetFaults \/ \A k \in Handlers : ~Waits(k, r)
  /\ taken' = taken \cup {r}
  /\ \E p \in Outcomes(http[h], Head(replies[r])) : http' = [http EXCEPT ![h] = p]
  /\ UNCHANGED <<vars, wire>>

(* A reply is addressed to the name the request came from, which is the    *)
(* same for all handlers: one that is connected receives it.  request of   *)
(* the bus library drops what has another correlation id.  A reply nobody  *)
(* waits for any more is received by the next handler of the name.         *)
Receive(h, r) ==
  /\ http[h].step = "wait"
  /\ replies[r] # <<>> /\ r \notin taken
  /\ Waits(h, r) \/ "misroute" \in NetFaults \/ \A k \in Handlers : ~Waits(k, r)
  /\ taken' = taken \cup {r}
  /\ IF Waits(h, r)
     THEN \E p \in Outcomes(http[h], Head(replies[r])) : http' = [http EXCEPT ![h] = p]
     ELSE UNCHANGED http
  /\ UNCHANGED <<vars, wire>>

\* Mutant: a request that got no answer is sent again.
Timeout_Retries(h) ==
  /\ http[h].step = "wait"
  /\ http' = [http EXCEPT ![h].step = "send"]
  /\ UNCHANGED <<vars, wire, taken>>

\* Mutant: only the first request of a call has a limit.
Timeout_FirstOnly(h) ==
  /\ http[h].step = "wait"
  /\ ~http[h].listed
  /\ http' = [http EXCEPT ![h] = Ended(@, "timeout")]
  /\ UNCHANGED <<vars, wire, taken>>

(* The request times out.  The message may still be on its way, or in the  *)
(* agent, and have its effect later.                                       *)
Timeout(h) ==
  /\ http[h].step = "wait"
  /\ http' = [http EXCEPT ![h] = Ended(@, "timeout")]
  /\ UNCHANGED <<vars, wire, taken>>

-----------------------------------------------------------------------------
(* History: from the beginning of a call to its end, the ids stored all    *)
(* the time, every group stored at some time, every id that was removed.   *)
(* The agent answers from its memory, which is the file until it is loaded. *)
Shown == IF inited THEN memory ELSE file

Watch ==
  span' = [h \in Handlers |->
    IF http[h].step = "idle" /\ http'[h].step # "idle"
    THEN [kept |-> Ids(Shown), seen |-> Shown.groups, lost |-> {}]
    ELSE IF http[h].step \in {"send", "wait"}
    THEN [kept |-> span[h].kept \cap Ids(Shown'),
          seen |-> span[h].seen \cup Shown'.groups,
          lost |-> span[h].lost \cup (Ids(Shown) \ Ids(Shown'))]
    ELSE span[h]]

Handle(h) ==
  \/ Send(h) /\ Watch
  \/ NarrowingThrows(h) /\ Watch
  \/ (\E r \in Requests : Receive(h, r)) /\ Watch
  \/ Timeout(h) /\ Watch

Serve(t) == Work(t) /\ UNCHANGED <<http, wire, taken>> /\ Watch

RestNext ==
  \/ \E h \in Handlers, c \in Calls : Open(h, c) /\ Watch
  \/ \E h \in Handlers : Handle(h)
  \/ \E m \in wire : Deliver(m) /\ Watch
  \/ \E t \in Threads : Serve(t)
  \/ Die /\ Observe /\ UNCHANGED <<http, wire, taken>> /\ Watch

RestSpec == RestInit /\ [][RestNext]_restVars

(* The web server runs its handlers, and a wait has its timeout.           *)
FairRestSpec == RestSpec /\ \A h \in Handlers : WF_restVars(Handle(h))

-----------------------------------------------------------------------------
RestTypeOK ==
  /\ http \in [Handlers -> Http]
  /\ wire \in SUBSET [corr : Requests, command : Commands]
  /\ taken \in SUBSET Requests
  /\ span \in [Handlers -> [kept : SUBSET (0 .. MaxId), seen : SUBSET Group,
                            lost : SUBSET (0 .. MaxId)]]

Succeeded(h, verb) == http[h].status = "ok" /\ http[h].call.verb = verb

(* A call that succeeds was answered with what its own request did,        *)
(* although all replies come to one name and late ones come to others: a   *)
(* new group has the client's name and an id no other call was given, one  *)
(* that came with an id is told as it came, an edit has the id of its path *)
(* (id 0 is no id: the agent stores the group as a new one), a removal is  *)
(* reported to one call only, and what is read has the id GET made of the  *)
(* path and was stored meanwhile.                                          *)
AnswersTheCall ==
  \A h \in Handlers : LET c == http[h].call IN
    /\ Succeeded(h, "create") =>
         /\ \A g \in http[h].out : g.name \in {b.name : b \in c.groups}
         /\ NoId \notin IdsOf(c.groups) => http[h].out = c.groups
         /\ NoId \in IdsOf(c.groups) => \A g \in http[h].out, k \in Handlers \ {h} :
              Succeeded(k, "create") /\ NoId \in IdsOf(http[k].call.groups)
                => g.id \notin IdsOf(http[k].out)
    /\ Succeeded(h, "edit") /\ c.ids[1] # NoId =>
         http[h].out = {[g EXCEPT !.id = c.ids[1]] : g \in c.groups}
    /\ Succeeded(h, "remove") =>
         /\ http[h].removed \subseteq {c.ids[1]} \cap span[h].lost
         /\ \A k \in Handlers \ {h} : http[k].removed \cap http[h].removed = {}
    /\ Succeeded(h, "read") =>
         /\ \E i \in Narrowed(c.ids[1]) : IdsOf(http[h].out) = {i}
         /\ http[h].out \subseteq span[h].seen

\* The id a POST or PUT names, 0 for a new group.
Target(c) == IF c.verb = "edit" THEN {c.ids[1]} ELSE IdsOf(c.groups)

(* What POST or PUT was told is stored was stored during the call, if the  *)
(* group is a new one or one that was there all the time: only the save of *)
(* a group that is not there, or is removed meanwhile, is confirmed        *)
(* without a trace (storage.cpp:172).                                      *)
SavesStored ==
  \A h \in Handlers : Succeeded(h, "create") \/ Succeeded(h, "edit") =>
    \A g \in http[h].out :
      g.id \in span[h].kept \/ NoId \in Target(http[h].call) => g \in span[h].seen

(* GET of the list is a LIST and a READ for each id, with other calls in   *)
(* between.  Its answer has every group that was stored all the time and   *)
(* none that was never stored meanwhile, and if it fails with an answer of *)
(* the agent, a group was removed meanwhile.                               *)
RestListHonest ==
  \A h \in Handlers : http[h].call.verb = "list" =>
    /\ http[h].status = "ok" =>
         span[h].kept \subseteq IdsOf(http[h].out) /\ http[h].out \subseteq span[h].seen
    /\ http[h].status = "error" /\ http[h].corr # NoRequest => span[h].lost # {}

(* A group that is stored from the beginning of a GET to its end can be    *)
(* read if its id is below the limit of the conversion: the call answers   *)
(* with it or times out, once the agent was asked.  From the limit on it   *)
(* cannot: another group is shown in its place, or the call fails.         *)
ReadsStored ==
  \A h \in Handlers : LET i == http[h].call.ids[1] IN
    /\ http[h].call.verb = "read"
    /\ http[h].status \in {"ok", "error"} /\ http[h].corr # NoRequest
    /\ i \in span[h].kept
    => IF i < ReadLimit THEN http[h].status = "ok" /\ IdsOf(http[h].out) = {i}
       ELSE http[h].status = "ok" => i \notin IdsOf(http[h].out)

(* How far the agent has got with a request, and what it gives.  The effect *)
(* is at the end of the call of Storage, where the file changes.           *)

Affected(t) == job[t].step = "reply" \/ (job[t].step = "resume" /\ mutex # t)

Undone(r) ==
  \/ \E m \in wire : m.corr = r
  \/ r \in queue
  \/ \E t \in Workers(r) : ~Affected(t)

Did(r) == replies[r] # <<>> \/ \E t \in Workers(r) : Affected(t)

\* The answer worker t will give for a request of one call of Storage.
Due(t) ==
  CASE job[t].step = "reply" -> ReplyOf(job[t])
    [] job[t].step = "resume" /\ Cmd(t).subject = "DELETE" ->
         [status |-> "ok", out |-> {},
          removed |-> {i \in {Head(job[t].left)} : ret[t].status = "ok"}]
    [] job[t].step = "resume" /\ Cmd(t).subject # "DELETE" ->
         [status |-> IF ret[t].status = "not found" THEN "ko" ELSE "ok",
          out |-> ret[t].groups, removed |-> {}]

Unanswered == [status |-> "none", out |-> {}, removed |-> {}]

(* A list is several messages, a resolve answers with assets, and a read   *)
(* of an id that does not fit the conversion asks for another group: the   *)
(* promise is about the other calls.                                       *)
Single(c) == c.verb \notin {"list", "resolve"} /\ ~(c.verb = "read" /\ c.ids[1] >= ReadLimit)

Stage(r) == IF Undone(r) THEN "asked" ELSE IF Did(r) THEN "did" ELSE "gone"

WorkOf(p) ==
  IF p.step = "idle" \/ ~Single(p.call) THEN "none"
  ELSE IF p.step = "send" THEN "asked"
  ELSE IF p.corr = NoRequest THEN "gone" ELSE Stage(p.corr)

ResultOf(r) ==
  IF replies[r] # <<>> THEN Head(replies[r]) ELSE Due(CHOOSE t \in Workers(r) : TRUE)

GivenOf(p) ==
  IF p.step # "done" \/ ~Single(p.call) THEN Unanswered
  ELSE IF p.status = "ok" THEN [status |-> "ok", out |-> p.out, removed |-> p.removed]
  ELSE [Unanswered EXCEPT !.status = "ko"]

callBar == [h \in Handlers |-> IF Single(http[h].call) THEN http[h].call ELSE NoCall]
workBar == [h \in Handlers |-> WorkOf(http[h])]
resultBar == [h \in Handlers |->
  IF WorkOf(http[h]) = "did" THEN ResultOf(http[h].corr) ELSE Unanswered]
givenBar == [h \in Handlers |-> GivenOf(http[h])]

Promise == INSTANCE Remote WITH
  Clients <- Handlers, db <- file, call <- callBar, work <- workBar,
  result <- resultBar, given <- givenBar

(* A call of one message takes effect at most once, not before it was made *)
(* and not after it succeeded, and its answer is what the effect gave, with *)
(* timeouts, strayed and late replies and an agent that is killed and      *)
(* restarted: the handlers, the bus and the agent implement the promise.   *)
ImplementsRemote == Promise!Spec

(* Every call ends, whatever the agent, the broker and the other handlers  *)
(* of the same name do with its messages.                                  *)
CallEnds == \A h \in Handlers : http[h].step # "idle" ~> http[h].step = "done"
=============================================================================
