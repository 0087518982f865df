# Automatic groups: specifications and proofs

`fty-automatic-group` keeps groups of assets that are defined by rules ("name
contains srv", "location is DC-1"). An agent stores the groups, answers requests
about them on a message bus, tells others about changes by events, and resolves a
group into the assets that fit its rules now. A REST module gives the web server
the same operations. This directory holds TLA+ models of that code, what TLC
checks about them, and what TLAPS proves.

## The system

| Component | Code | State | Operations | Talks to |
| --- | --- | --- | --- | --- |
| Group store | `server/src/lib/storage.*` | groups and id counter in memory, the YAML file, `m_inited`, a mutex | `byName`, `byId`, `names`, `ids`, `save`, `remove`, `removeByName` | called by the jobs, from any thread of the pool |
| Jobs and tasks | `server/src/lib/task.h`, `jobs/*.cpp` | the request, the response under construction | create, update, remove, list, read, resolve | store; events and replies through the bus |
| Dispatch and pool | `server/src/lib/server.*` | queue and threads of the pool, two signal slots, the stop event | `process`, `run`, `wait`, `doStop`, `reloadConfig`, `shutdown` | bus thread calls `process`; pool runs the tasks |
| Rule resolution | `jobs/resolve.cpp` | position in the rules, ids of the locations found so far | queries for six fields and three operators, And/Or | asset database (shared with other agents) |
| Bus wrapper | `common/message-bus.cpp`, `common/message.cpp` | connection, name, a mutex | `init`, `send` (with a timeout), `publish`, `reply`, `recieve`, `subsribe` | Malamute |
| REST handlers | `rest/src/*.cpp` | none, one bus connection per call | create, edit, list, read, remove, resolve | the agent, through the bus |
| Life cycle | `main.cpp`, `daemon.cpp`, `config.cpp`, service unit | configuration, signal slots | start, daemonize, reload, stop, restart | systemd |
| Types and codec | `group.h`, `group.cpp`, `commands.h` | none | text of operators and fields | pack library |

What is hard, and what makes each part correct:

* **Store.** Several threads, a mutex, memory and a file that must agree, a file
  written in place, a process that can be killed anywhere and is always restarted,
  errors that are dropped. Correct means: to its callers the store is one catalog
  on which every call acts at one moment, that outlives the process and never hands
  out an id twice.
* **Jobs.** Each job makes one or more calls of the store and then an event and a
  reply; between them all other jobs run. Correct means: no request is run or
  answered twice, every one is answered, the event comes before the reply, what a
  client was told stays true (deleted stays deleted, created stays), a list is
  complete and true.
* **Resolution.** The rule is evaluated at several moments while the inventory
  changes. Correct means: what did not change is answered right.
* **REST and bus.** Each call is one or more messages, answered late, twice to the
  wrong handler of the same name, or never; the agent may be killed meanwhile and
  come back. Correct means: a call of one message takes effect at most once, not
  before it was made and not after its success was reported, it is answered with
  that effect, and every call ends.
* **Life cycle.** Signals at any moment of the start and the stop, a configuration
  read in a signal handler, members destroyed while the bus still delivers. Correct
  means: no task outlives what it uses, the groups are in a file the configuration was
  asked for, and the process can be ended.
* **Codec.** Words that are in no table leave a default behind, at every reading
  again. Correct means: a rule is the same after a restart, clients are shown it, and
  errors stay errors on the bus.

`PROJECT.json` lists each hazard at its line with the properties aimed at it.

## Modules

| Module | Models | Builds on |
| --- | --- | --- |
| `GroupDb` | the document (`struct DbObj`) and what each call does to it, as operators | |
| `Catalog` | abstract: one durable, atomic catalog of groups | `GroupDb` |
| `Storage` | `class Storage`: memory, file, mutex, lazy load, faults | `GroupDb`, refines `Catalog` |
| `Agent` | `Server::process`, the pool, `job::Task`, every job | `Storage` |
| `AssetQueries` | the query for one condition, as a set of assets, and what the condition means | |
| `Resolve` | `groupSql` and `byLocation` step by step, inventory changing | `AssetQueries` |
| `Remote` | abstract: what a client of the REST interface may rely on | `GroupDb` |
| `Rest` | every REST handler, `MessageBus::init` and `send`, the broker, in front of the agent | `Agent`, refines `Remote` |
| `Daemonize` | `Daemon::daemonize`: forks, session, descriptors | |
| `Lifecycle` | `main`, `Server`, `Daemon`, `Config::reload`, the service unit | composes `Daemonize` |
| `Codec` | words of a rule through request, memory, file, restart and reply; the status on the bus | |
| `StorageProofs`, `AgentProofs`, `AgentToldProofs`, `RestProofs`, `RestPromiseProofs`, `ResolveProofs`, `LifecycleProofs`, `CodecProofs` | the theorems and their proofs | the module they name |
| `MCStorage`, `MCAgent`, `MCRest`, `MCResolve`, `MCLifecycle`, `MCCodec` | small instances for TLC | |

`Agent` and `Resolve` are separate: `Agent` has the resolution as one step that
succeeds or fails (`AfterResolve`), since it reads the group once (a copy) and
shares no other state with the store.

### Storage

The variables are the members of `Storage::Impl` (`inited`, `memory`, `file`,
`mutex`), the value being returned (`pending`), what each thread got last (`ret`),
and a history variable `acked`, the ids returned as new. A call that only reads
is one step, since it holds the mutex throughout. A call that changes something is
two: it changes the memory, and then, still with the mutex, writes the file and
returns. A crash can fall between. `Faults` chooses what else happens:

* `kill`: the process dies; memory is lost, the file is as before or, when a write
  was under way, as after;
* `tear`: or cut short. `last-id` is the first key of the document and the groups
  follow in order, so a load gets nothing (`EmptyDb`) or the counter with a prefix
  of the groups. That a YAML document which was cut parses this way, or not at all,
  is an assumption about `pack`;
* `write`: `serializeFile` returns an error, before or after touching the file. The
  memory keeps the change, as in the code;
* `load`: the file is there but the load fails (or `create_directories` throws).
  The code drops the error and goes on with an empty document.

Abstractions: a group is an id and a name, where the name stands for all a client
writes (the store never looks at rules); the list is a set, because its order is
the order of ids; "no id" is the value 0; `pack`'s `remove(predicate)` may drop the
first match or all. `MaxId` stands for 2^64 - 1 and blocks `save` when reached;
the runs of the agent choose it above what their requests can use.

### Agent

One action per step of a worker: `Start` (take a task, parse), `Call` (the next
call of the store: the actions of `Storage` themselves), `Write` (second half of a
changing call), `Resume` (what the job does with the result, including `notify`),
`Reply`. `Process` is the message handler, `Die` the crash of the whole process. A
change of the catalog and its event are separate steps, so events overtake each
other; an event and its reply are also separate.

`Outages` adds failing publishes and replies (only logged by the code) and a
`tntdb::connect` that throws. What escapes from a task is outside `job::Error`: the
thread pool is not in this repository, so the model loses the task and lets the
worker go on; if the pool lets the process die instead, that is `Die`.

The queue is a set, and each request is delivered at most once, as Malamute's
mailboxes do.

### REST

`Rest` puts the handlers in front of `Agent`: a request of the agent is a message,
known by its correlation id. A handler checks its call and connects (`Open`), sends
(`Send`), and waits until a reply comes (`Receive`) or the time is up (`Timeout`). A
list does this again for each id (`Listed`, `Gathered`). `Deliver` is the broker
handing a message to `Server::process`, early, late, in any order, or never.

A reply is addressed to the name of the handler, which is one name for all of them
(`AgentName`). `Receive` lets any connected handler get a reply that nobody waits for
any more, and with the fault `misroute` also one that another handler waits for;
what has another correlation id is dropped by the bus library, which is external.
Further faults are those of the agent (`Faults`, `Outages`) and a connection that is
refused (`init`). The time of a wait is not modelled: it may end at any moment.

`convert<uint16_t>` of an id that does not fit is external too: `Narrowed` gives the
values it may have, and `NarrowingThrows` lets it throw. `ReadLimit` is the 65536, and
the runs have ids on both sides of it. What `convert` makes of a path that is no number
(`edit.cpp:31`, `remove.cpp:29`) is left out: the ids of a call are numbers.

`Remote` is the promise: a client's call is made, takes effect once on the catalog or
never, and is answered with this effect or with an error. The refinement takes the
file for the catalog, and for the moment of the effect the end of the call of
`Storage`, where the file changes. An effect may come after the call was given up, as
an agent that was slow shows. A list is several effects and a resolve answers with
assets, and a read from the limit of the conversion on is answered for another id, so
the refinement leaves these out (`Single`); `RestListHonest` is about lists, and
`AnswersTheCall` and `ReadsStored` say what is left of such a read.

### Life cycle

`proc` is one process of the agent, with `main` in one of the phases `Following`
chains; `Interrupt` and `Hangup` come at any moment and do what the handlers that are
installed by then do. The pool has threads before the handlers are installed
(`main.cpp:46`), so any number of threads can be in them at once, each at its own line:
`StopEvent` is `daemon.cpp:98`, which fires `stop`, `DefaultAction` is line 99, which
restores the default action, and another interrupt between the two still reaches the
handler. `Reload` begins the parsing of the configuration file in the handler of SIGHUP
and `Reloaded` ends it; two at once write the same string, which may then be anything.

`Daemon::instance` is a static whose constructor installs the handlers, which call
`Daemon::instance`: the phase `instance` is inside that constructor. A signal then is a
re-entered initialization on the thread that constructs (undefined: it waits for itself,
or ends the process), and on any other thread it waits until all is constructed
(`Constructed`). `keeps` says whether an `Event` that is fired while nobody waits is
remembered, since `fty::Event` is external. Tasks appear with what the stop takes from
them, the bus, and with their first call of `Storage`, which copies the path; a reload
under way makes that copy the old path, the new one or garbage. What signals and reloads
did is kept in history fields of `proc` (`missed`, `overlapped`, `offered`, `mixed`,
`torn`), which no guard reads.

`Daemonize` has the two forks, `setsid`, the loop over the descriptors and the three
`fopen`s; `Lifecycle` runs these steps between configuration and start when the option
is given. The largest descriptor is taken to be `_SC_OPEN_MAX`: descriptors above a
limit that was lowered, and an unknown limit (-1), would stay open and are left out.

### Codec

A text is the sequence of its words, as `operator>>` of a string sees it. `Parse`
reads the first word and leaves the value as it was when no table has it. The rest
of a group is text that is copied, and is left out.

### Resolution

Texts are values with two constant relations, "is part of" and "begins"; that is
all the queries can tell. `AssetQueries` gives for each `by...` function the set
of assets its SQL selects, joins and all, and separately `Satisfies`, the meaning
of a condition for a single asset. The meaning follows the expectations in
`server/test/request.cpp`: "is not" for contact, host name and address
includes assets that say nothing, for name, type and location it does not.

`Resolve` walks over the conditions. Most become text and are evaluated by the
last query; a location is queried at once, datacenter by datacenter. `Change` is
the rest of the product editing the asset tables: one asset added, removed or
changed in a single column. An asset may have no type: `byType` joins its query to the
types from the left, so the type is null then, which no comparison selects.

## Runs

| Run | Bounds | Properties |
| --- | --- | --- |
| `storage_faults` | 2 threads, 2 names, ids up to 2, all faults | `TypeOK`, `IdsSound` |
| `agent_outages` | 2 workers, 2 requests out of 11 commands, all faults and outages | `AgentTypeOK`, `HandledOnce` |
| `agent_restart` | 2 workers, 4 requests out of 4 changing commands, `kill` | `GoneForever`, `ConfirmedSurvives`, `FreshIds`, `DurableWhenIdle`, `ImplementsCatalog` |
| `agent_events` | 2 workers, 4 requests: changes and lists, no faults | `AnnouncedFirst`, `EventsAgreeWhenQuiet`, `ListHonest` |
| `agent_answers` | 2 workers, 2 requests out of 11 commands, failing writes, fairness | `EveryRequestAnswered` |
| `rest_calls` | 2 handlers with every call, 2 workers, 6 messages, `ReadLimit` 3 with ids on both sides of it, `kill`, lost replies, `init`, `misroute` | `AnswersTheCall`, `RestListHonest`, `ReadsStored`, `SavesStored`, `ImplementsRemote` |
| `rest_ends` | 2 handlers, 1 worker, `ReadLimit` 2 with ids above it, fairness of the handlers | `RestTypeOK`, `CallEnds` |
| `lifecycle_signals` | 1 task, 2 paths and any edits, 2 interrupts, 2 reloads, 2 starts, descriptors 0 to 5, with and without the option, fairness | `TypeOK`, `PathWasOffered`, `BusOutlivesTasks`, `Detached`, `OnlyStreams`, `LostOnlyOverlapped`, `TwoInterruptsEnd` |
| `codec_words` | every word of every table, an empty text, a wrong word, one with a blank, for each part of a rule | `ShownIsMeant`, `ErrorsArrive`, `RestartKeepsRule` |
| `resolve_moving` | 4 assets, one without a type, every field, operator and address form, rules of one condition and of a location with another one, 2 changes | `TypeOK`, `UntouchedExact`, `NeverInvented` |
| `resolve_nested` | expected violation, see Findings | `NestedResolves` |
| `resolve_addresses` | expected violation, see Findings | `AddressAlternatives` |

Why these bounds: the store run starts from an empty file and from one with a
group, so two ids let a create follow a removal, before and after a restart, and
two threads are all a mutex can tell apart. Four requests on two workers allow a
create, two racing removals of it, and an observer. Two handlers are what it takes
for a reply to stray, six messages let a list of two groups run beside a call that
changes them and leave one over for a late answer. Two interrupts can meet in the
handler; a task is queued, running or done when the stop comes (that several tasks
change nothing is proved); two paths and two reloads let the configuration
go and come back and the reloads overlap, and six descriptors are a file above the three
streams whether or not 0 was open. The datacenters, the rack and the server give a direct and an indirect
location and a move between two of them. Threads, requests and handlers are
interchangeable and the safety runs use that symmetry; the liveness runs do not.

Which faults a property survives is part of the result. `DurableWhenIdle` and the
refinement hold with kills and torn writes, not with failing writes (the memory
keeps what was refused) nor failing loads (an unreadable file is taken for an empty
one). `FreshIds` needs that nothing is torn either: a file cut before
`last-id` starts at 1 again. Only `IdsSound` holds with everything. The runs of the
agent have kills only; that the catalog holds with torn writes too is proved. There
`Lossy` is set, so that the catalog admits what a cut file loses in a crash, and nothing
else.

`CHECK_DEADLOCK FALSE` is set where the system may stop: an agent that has replied
to all the requests of the run waits for the next, a resolve ends, and a process that
has used its starts stays down. `agent_outages` and `storage_faults` check deadlock (a
crash is always possible there).

**Fairness.** `EveryRequestAnswered` assumes weak fairness of each worker
(`WF_vars(Work(t))`): the operating system runs a thread that can run. It is enough
although `std::mutex` promises no order, because the requests of a run are finitely
many and a thread that holds the mutex releases it after one step; it is needed for
every worker since any of them may hold the mutex. No fairness is assumed of
clients, crashes or faults; there are no crashes in that run, because a killed agent
does lose the tasks it had.

`CallEnds` assumes weak fairness of each handler only (`WF(Handle(h))`): the web
server runs its threads, and `MessageBus::send` gives up after a timeout. Neither the
broker nor the agent need do anything, as it should be with a dead agent.
`TwoInterruptsEnd` assumes that `main`, the tasks, a thread that is in the handler (each
of its two lines) and the service manager go on; a task ends, as all its calls have
timeouts or are local. Nothing is assumed of signals, reloads, edits or messages.

## Findings

* `resolve_nested`: `groupSql` returns a query with two columns also for rules
  inside rules (`resolve.cpp:252`) and puts it behind `IN (`. MySQL refuses that, so
  such a group, which `server/test/db.cpp:19-31` builds and stores, always resolves
  to an error.
* `resolve_addresses`: the alternatives of an address are joined with `OR` behind
  `keytag='ip.1' AND id_type=... AND` without parentheses (`resolve.cpp:181,211`).
  All but the first match any attribute: a server with `ip.2` in the second range is
  in the answer, where `server/test/request.cpp:739-746` expects `ip.1`. The other
  resolve runs use inventories in which only `ip.1` holds addresses.

What else the models show, where no text of the repository promises otherwise, or
where what it says is about something outside of it:

* *Moving assets.* An asset moved from one matching datacenter to another while
  `byLocation` goes from the second to the first is in no list, although it fitted
  before and after; and with two changes (a server moved into a datacenter after that
  was renamed) an asset gets in that never fitted. One change is enough when two
  locations are joined with And, as each is read at a moment of its own: moved in
  between, an asset has its old place for the first and its new one for the second.
  `NeverInvented` (which leaves these out by `LocationsAgree`) and `UntouchedExact` are
  the promises that are left.
* *Wide ids.* `read.cpp:52` and `resolve.cpp:31` convert the id to 16 bits. If
  `convert` narrows without an error, group 65536 + n is answered with group n, and no
  call can show the former: `ReadsStored` says so of both sides of the limit.
* *Saves without effect.* A save of an id that is not there, or is removed meanwhile, is
  confirmed and announced but stores nothing (`storage.cpp:172`); by POST with an id it
  takes no more than the permission to create. `SavesStored` says that nothing else is
  confirmed without being stored.
* *Id 0.* An edit takes the id of the group from the path, and the store gives a group
  without an id a new one (`storage.cpp:164`): a PUT of group 0 creates a group, or
  changes the one of that name. `AnswersTheCall` leaves it out.
* *Lists.* One group removed between the LIST and its READ makes the whole REST list
  an error, and a list mixes moments; `RestListHonest` says what is left.
* *Start.* An interrupt before the slot is connected is lost, and so is one before
  the wait if `Event` keeps nothing. A second one is lost too if it comes on another
  thread between `daemon.cpp:98` and `:99`, and so on: `LostOnlyOverlapped` and
  `TwoInterruptsEnd` say that this, and the construction below, are the only ways. A
  SIGHUP before `Daemon` exists ends the process, where the service unit reloads with
  that signal; a signal while `Daemon::instance` is under construction enters that
  initialization again (phase `hung`, or the end of the process).
* *Reload.* The copy of `dbpath` that Storage makes at its first use is unprotected
  against the handler of SIGHUP, and two such handlers are against each other
  (`daemon.cpp:91`): the path can be torn. `PathWasOffered` says that it cannot
  otherwise.
* *Stop.* A message that arrives between the destruction of the pool and that of the
  bus is given to a pool that is gone (`Arrive`).
* *Descriptors.* The loop of `daemonize` ends before descriptor 0 (`daemon.cpp:68`).
  If 0 was open, the three streams get the descriptors 1 to 3; `OnlyStreams` leaves
  0 out.

## Proofs

All theorems are for every set of threads, names, requests, commands, handlers, calls,
tasks, paths and texts, and every `MaxId`, `ReadLimit` and `MaxFd` that the named
assumptions of the modules admit.

| Theorem | States | Assumes |
| --- | --- | --- |
| `StorageProofs!TypeCorrect` | `[]TypeOK` | |
| `StorageProofs!IdsAlwaysSound` | `[]IdsSound` | |
| `StorageProofs!DurableAlways` | `[]DurableWhenIdle` | `Faults` within kill, tear |
| `StorageProofs!FreshIdsAlways` | `[]FreshIds` | `Faults` within kill |
| `StorageProofs!StorageImplementsCatalog` | `ImplementsCatalog` | `Faults` within kill, tear |
| `AgentProofs!AgentUsesStorage` | the agent's steps are steps of `Storage`, its arguments legal | |
| `AgentProofs!AgentImplementsCatalog` | `ImplementsCatalog`, of the agent | `Faults` within kill, tear |
| `AgentProofs!HandledOnceAlways` | `[]HandledOnce` | |
| `AgentProofs!AgentTypeCorrect` | `[]AgentTypeOK` | |
| `AgentProofs!AnnouncedFirstAlways` | `[]AnnouncedFirst` | no failing publish |
| `AgentToldProofs!GoneForeverAlways` | `[]GoneForever` | `Faults` within kill |
| `AgentToldProofs!ConfirmedSurvivesAlways` | `[]ConfirmedSurvives` | `Faults` within kill |
| `AgentToldProofs!ListHonestAlways` | `[]ListHonest` | |
| `AgentToldProofs!EventsAgreeAlways` | `[]EventsAgreeWhenQuiet` | `Faults` within load, no failing publish, no group removed before the run, every UPDATE names an id |
| `RestProofs!RestUsesAgent` | the steps of `Rest` are steps of `Agent`, its messages legal | |
| `RestProofs!RestHandledOnce` | `[]HandledOnce`, behind the REST interface | |
| `RestProofs!RestImplementsCatalog` | `ImplementsCatalog`, of the whole | `Faults` within kill, tear |
| `RestProofs!RestTypeCorrect` | `[]RestTypeOK` | |
| `RestProofs!HandlersAskTheirOwn` | no two handlers wait for one id, and what each asked is its own | |
| `RestProofs!RestListHonestAlways` | `[]RestListHonest` | |
| `RestProofs!ReadsStoredAlways` | `[]ReadsStored` | |
| `RestPromiseProofs!RestImplementsRemote` | `ImplementsRemote` | `Faults` within kill |
| `RestPromiseProofs!AnswersTheCallAlways` | `[]AnswersTheCall` | `Faults` within kill |
| `RestPromiseProofs!SavesStoredAlways` | `[]SavesStored` | |
| `ResolveProofs!ResolveTypeCorrect` | `[]TypeOK` | |
| `ResolveProofs!UntouchedExactAlways` | `[]UntouchedExact` | each value in the rules is one pattern |
| `ResolveProofs!NeverInventedAlways` | `[]NeverInvented` | each value in the rules is one pattern |
| `LifecycleProofs!LifecycleTypeCorrect` | `[]TypeOK` | |
| `LifecycleProofs!BusAlwaysOutlivesTasks` | `[]BusOutlivesTasks` | |
| `LifecycleProofs!PathAlwaysOffered` | `[]PathWasOffered` | |
| `LifecycleProofs!LostAlwaysOverlapped` | `[]LostOnlyOverlapped` | |
| `LifecycleProofs!DaemonAlwaysDetached` | `[]Detached` | |
| `LifecycleProofs!OnlyStreamsAlways` | `[]OnlyStreams` | |
| `CodecProofs!RestartAlwaysKeepsRule` | `RestartKeepsRule` | |
| `CodecProofs!ErrorsAlwaysArrive` | `[]ErrorsArrive` | |
| `CodecProofs!ShownAlwaysMeant` | `[]ShownIsMeant` | |

*Store.* Each operation on a document and each way of cutting it keep `Sound`
(first part of `StorageProofs`). `Inv` is `TypeOK /\ IdsSound`: neither is inductive alone, since
the type of a document after a torn write needs its ids to be sound, and since the first
load may find the mutex free and the memory empty only because `TypeOK` says so.
`DurableWhenIdle` is inductive with `Inv`: only the thread with the mutex makes the two
documents differ, and it ends with the write. `FreshIds` needs `Counted`: all
acknowledged ids are within the counter of the *file* (the memory may be lost), and an
id about to be acknowledged lies above that counter. For the refinement the catalog is
the file: the second half of a call is the moment it takes effect, so `Ongoing` says
that the memory of a call between its halves, with the answer it is about to give, is
one of the `Effects` of the file.

*Agent.* `JobsOK` says that what a worker still has to do are legal arguments of
`Storage`; with it every step of the agent is a step of `Storage` or leaves it alone,
and the theorems about the store carry over. `HandledOnce` is inductive together
with `JobsOK` (a queued request has a command, a worker without a request is idle) and
`RepliesOK`, the type of the replies.

`AnnouncedFirst` speaks of a reply and an event that came many steps earlier. `SaidOK`
follows the success on its way: as soon as a worker holds a reply that reports a change,
the event of that change is out, and before that what the store returned to it is what
the event will say. `OneSaved` adds that a call of the store returns what it saved.

`GoneForever` needs to know where an id that was told deleted could come back from.
`Lost` says that nowhere: in the file, and in the memory when it is loaded, the id is
within the counter and no group has it (`Clear`), and no call of the store undoes that,
since a new id comes from above the counter and an existing one is only kept. `RemovalOK`
covers the call that removes, from the change of the memory to the end of the write, and
`ReportedOK` what was told. A failing load or write is excluded: after it the file may
still have the group.

`ConfirmedSurvives` is the other direction, and its invariant `KeptInv` has three parts:
what the store is about to give to a create is in the memory it will write; what was
written is in the file, or a request asks for its removal; and the only thing a call
between its halves has dropped from what the file has is the id its own request names.

`ListHonest` compares the answer of a list with the span in which it was made (`view`).
`ListOK` says what a list holds at each step: of the ids it was given, all that were
kept are taken or still to read, what it has read was seen, and one it missed is no
longer kept. `ServedOK` adds the same of a read, and what a worker holds while it has the
mutex; that is what the interface in front builds on.

`EventsAgreeWhenQuiet` says nothing while a worker is busy; its invariant `EventsTold`
says what holds then. An id is missing from the memory (`Missing`) exactly when it was announced as
deleted or a worker owes that event (`OwesDeleted`), and never both, nor do two workers owe
it; an acknowledged new id was announced or is owed (`OwesCreated`), and only to a CREATE
(`CreatesOwn`), as its event says so. A worker pays what it owes in the step that goes on
from its call (`ResumeTells`), so with nobody busy nothing is owed. The four assumptions
are needed (TLC refutes the property without any of them), each for a way in which code and events part: a process that dies, or a publish that
fails, loses the event of a change that stays; a write that fails leaves a removal in
memory that nobody announces; an earlier run announced what it removed, but that is not in
the events of this one; and an UPDATE without an id stores a new group and announces it as
updated.

*REST.* `HttpOK` and `WireOK` are the types with what the next step of a handler
needs (`AskOK`: a call that was not refused, and an id left to read for a list); they
make every message a command the agent knows, so the steps of `Rest` are steps of
`Agent` or leave it alone. `Own` relates the two ends: a correlation id that is on the
wire, in the agent or being waited for belongs to one handler, because `Fresh` ids are
used by nothing. It is what the check of the correlation id in `send` relies on.

`RestListHonest` and `ReadsStored` are proved together, because a list reads. The span of a
handler only widens (`SpanWidens`) and covers the spans of all the messages it sends.
`ServesOK` says that a worker that lists or reads for a handler that waits has seen
nothing outside the handler's span; `TellsMore` carries that to the reply, whose answer
tells the truth of the span however late it comes, as long as the handler still
waits for it; `CollectsOK` says that the handler of a list has, or has yet to read,
every id that was kept, and `SeenOK` that an id that was seen is stored or was seen to
be removed, which is why a failing read in a list proves a removal. A reply that strays
has another correlation id, which `Own` shows to be of no use to the other handler.

`RestImplementsRemote` is proved step by step: every step of `Rest` begins, does,
answers or forgets calls of `Remote`, or leaves all of its variables alone. Its invariant
`PromiseOK` adds to the above `OneOK`: a request of one call of `Storage` holds no answer
before that call (`BareOK`), what the call returned is what the request will answer
(`RetOK`), and a call between its halves has in memory what an effect of its request on
the file would give (`ChangeOK`); `SentOK`: what was asked under the id of a handler is
what its HTTP call says; and `SendersKnown`: a change that is under way belongs to a
handler, so that the file never changes unless somebody's call does it. Then `Moves` says
that a step of the agent takes at most one request from asked to done or from done to
gone, `Does` that the former is an effect of `Remote`, and `OpenPromise` to
`DiePromise` put the handlers in front. An id that is truncated
reads another group, which is why `Single` leaves such a read out; a failing load or write is excluded since the catalog is the file.
The mapping (`WorkOf`) must be a chain of conditions: a `CASE` whose guards overlap
is some value of theirs, of which nothing follows.

`AnswersTheCallAlways` is proved on top of the refinement, since what is in a success is
a matter of the promise alone. `SuccessesOK` is an invariant of the steps of `Remote`:
what a success says is `Truthful` of its own call and of the catalog since (a new id is
within the counter, a removed id is `Clear`: it is neither stored nor will be given
again). An effect gives a new id above the counter and removes what was there
(`EffectTrue`), so no two clients are told of the same. That a removal happened during
the call that tells of it is not said by the promise: `LostOK` follows it from the
change of the memory, and `ReportsOK` from the reply, to the client; `RemovesOnly` says
that lists and resolves, which the promise leaves out, remove nothing. Reads follow from
`ReadsOK`, the invariant of `ReadsStored`: what was asked of the agent is one of the ids
`Narrowed` gives (`NarrowedFits`: itself below the limit, else one below the limit).

`SavesStoredAlways` needs no promise of one effect and so no assumption on the faults.
`StoredOK` follows a saved group on its way to the client: a save stores its group, or
there is none of its id (`CallStores`), and what the worker and the reply carry is what
the call gave back (`WorkerGives`). `Traced` only gets weaker while the handler
sees more (`TracedMore`), so a late reply is no exception.

*Resolution.* One lemma per field (`NameExact`, ..., `LocationExact`) shows that the
query selects what the condition means, for any inventory and any text; with several
alternatives in a value that is false (see Findings), hence the assumption `Plain`. A
`Steady` asset is one that was there at the start and was not touched, nor what contains
it: its way up is the same in every database of the resolve (`SameAncestors`, for the
ten steps of the view). `LocatedOK` is the invariant of the walk: behind it, the ids
pasted for a location contain a steady asset exactly when one of its datacenters fits,
and inside `byLocation` when one of those already asked about does.

`NeverInvented` lets one change happen. The invariant keeps, for the ids that were
pasted, that each belongs to an asset in such a location before the change or now; one
change that takes an asset out of its place edits its position and no other column
(`ChangedOnce`), so everything else the last query asks for was the same at both moments,
and the asset as a whole fitted at one of them.

*Life cycle.* `Fits` ties the tasks to the phases of `main`: after `StopPool` none is
queued or running, and says when handlers are installed and what a process that ended
looks like. `OneAtATime` counts the threads in the handler: if no interrupt
overlapped another, at most one thread is in it, it is the first that missed anything,
and the default action stands when it is done, so a second `missed` needs an overlap.
`Honest` follows the path: what `Config` and `Storage` hold was offered, or two reloads
were mixed or the copy was torn; `Offering` adds that while a SIGHUP is under way what the
file says now was offered too. `ForksOK` is the inductive
invariant of `Daemonize`: what is closed so far, who leads the session.

*Codec.* `WordsDiffer` says that no two values of a table share a word, `RoundTrip`
that a value survives its word whatever stood there before, `DecodeEncode` the same of
a rule. `CodecInv` (the file is the encoded memory) and `ReplyInv` (the reply, and what
the client made of it) follow the rule through restart and reply.

*Only model-checked*: liveness (`EveryRequestAnswered`, `CallEnds`, `TwoInterruptsEnd`),
since TLAPS does not do liveness under fairness.

## Plan

1. Done: `GroupDb`, `Catalog`, `Storage`, `Agent`, `AssetQueries`, `Resolve`.
2. Done: `Remote` and `Rest`, composed with the agent.
3. Done: `Lifecycle` and `Daemonize`.
4. Done: `Codec`.
5. Done: the proofs of every safety invariant that a run checks, the last ones being
   `GoneForever`, `ConfirmedSurvives`, `ListHonest`, `EventsAgreeWhenQuiet`, `UntouchedExact`,
   `NeverInvented`, `RestListHonest`, `ReadsStored`, `AnswersTheCall` and `SavesStored`, and of the
   refinements `ImplementsCatalog` and `ImplementsRemote`.

## What is not modelled

* The text of SQL, JSON and YAML: queries are the sets they select, documents are
  records, and a cut file is what `Torn` of `GroupDb` says.
* Permissions, beyond whether a call is refused, and the wording of errors.
* Logging, the tests, and the build files.
* `MessageBus::recieve`, which nothing calls.
* Threads of the web server, beyond that handlers run at the same time.

Code outside of the repository is modelled from its uses and marked external: the
narrowing of `convert`, the check of the correlation id in the bus library's `request`,
whether an `Event` remembers what is fired, `ThreadPool::stop` (it waits for the tasks
that run and drops the others), the file writes of `pack`, and its new objects with their
default values.
