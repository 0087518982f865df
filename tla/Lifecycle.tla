------------------------------- MODULE Lifecycle -------------------------------
(***************************************************************************)
(* The life of the agent's process (main.cpp, server.cpp, daemon.cpp and   *)
(* config.cpp of server/src): the start, with the steps of Daemonize.tla   *)
(* if it has the option, the signals, the reload of the configuration, the *)
(* stop, and the restart by the service unit.  Tasks appear as far as they *)
(* use what the stop destroys, the bus, and what a reload changes, the     *)
(* path of the file.  main goes through its phases in order; a signal is   *)
(* handled at any moment, on whatever thread, and the handlers of several  *)
(* threads run at once.                                                    *)
(***************************************************************************)
EXTENDS Naturals, Sequences

CONSTANTS Tasks,    \* messages that arrive, each handled by a task
          Paths,    \* what the configuration file can say for dbpath
          NoPath, Garbage,
          MaxFd,    \* the largest descriptor, see Daemonize
          MaxInterrupts, MaxReloads, MaxStarts   \* bounds of a run

ASSUME LifecycleAssumption ==
  /\ NoPath \notin Paths /\ Garbage \notin Paths \cup {NoPath}
  /\ MaxFd \in Nat /\ MaxFd >= 3
  /\ MaxInterrupts \in Nat /\ MaxReloads \in Nat /\ MaxStarts \in Nat \ {0}

\* The phases of main, and the one that follows each.
Following ==
  [config     |-> "daemonize",    \* Config::load
   daemonize  |-> "start",        \* Daemon::daemonize, with the option
   start      |-> "instance",     \* the server is built, nothing of Daemon exists
   instance   |-> "handlers",     \* Daemon::instance is being constructed
   handlers   |-> "stopslot",     \* Daemon::instance has installed the handlers
   stopslot   |-> "slots",        \* doStop is connected
   slots      |-> "serving",      \* reloadConfig is connected as well
   serving    |-> "wait",         \* the bus calls process
   wait       |-> "shutdown",     \* stop.wait
   shutdown   |-> "unslotting",   \* stop, and the pool is stopped
   unslotting |-> "unpooling",    \* the slots of the server are destroyed,
   unpooling  |-> "unbusing",     \* its pool,
   unbusing   |-> "exit"]         \* its bus

VARIABLES proc,     \* the process
          keeps,    \* whether an Event keeps what is fired before the wait
          daemon,   \* the option --daemon
          disk,     \* dbpath in the configuration file
          reloads,  \* SIGHUPs so far
          starts,   \* how often the service was started
          step, session, open, stream   \* of Daemonize

D == INSTANCE Daemonize

forks == <<step, session, open, stream>>
vars == <<proc, keeps, daemon, disk, reloads, starts, forks>>

(* handled: SIGINT goes to handleSignal; calling: threads in handleSignal   *)
(* up to the end of stopEvent; resetting: those about to restore the       *)
(* default action; woken: stop was fired for a wait; asked: threads with   *)
(* SIGHUP up to loadConfigEvent; reading: those that write the new values  *)
(* into Config; conf: Config::dbpath; path: Impl::m_dbpath of Storage;     *)
(* end: what ended the process                                             *)
(* History: missed, the calls of stop that nobody heard; overlapped, an    *)
(* interrupt came while a thread was still in the handler of another;      *)
(* offered, what the file said when it was loaded and while a SIGHUP was   *)
(* under way; mixed, two reloads wrote at once; torn, path was copied      *)
(* during a reload or after mixed ones                                     *)
Process == [main : DOMAIN Following \cup {"exit", "hung"}, interrupts : 0 .. MaxInterrupts,
            handled : BOOLEAN, calling : Nat, resetting : Nat, woken : BOOLEAN,
            asked : Nat, reading : Nat,
            conf : Paths \cup {NoPath, Garbage}, path : Paths \cup {NoPath, Garbage},
            task : [Tasks -> {"none", "queued", "running", "done"}],
            end : {"none", "status", "SIGINT", "SIGHUP", "fault"},
            missed : Nat, overlapped : BOOLEAN, offered : SUBSET Paths,
            mixed : BOOLEAN, torn : BOOLEAN]

NewProcess == [main |-> "config", interrupts |-> 0,
               handled |-> FALSE, calling |-> 0, resetting |-> 0, woken |-> FALSE,
               asked |-> 0, reading |-> 0, conf |-> NoPath, path |-> NoPath,
               task |-> [t \in Tasks |-> "none"], end |-> "none",
               missed |-> 0, overlapped |-> FALSE, offered |-> {},
               mixed |-> FALSE, torn |-> FALSE]

Init ==
  /\ proc = NewProcess
  /\ keeps \in BOOLEAN
  /\ daemon \in BOOLEAN
  /\ disk \in Paths
  /\ reloads = 0
  /\ starts = 1
  /\ D!Init
  /\ daemon \/ open = {}   \* nothing looks at it

-----------------------------------------------------------------------------
At(phases) == proc.main \in phases

\* The process in the next phase.
Forward(p) == [p EXCEPT !.main = Following[@]]

Becomes(p) == proc' = p /\ UNCHANGED <<keeps, daemon, disk, reloads, starts, forks>>

Ended(p, end) == [NewProcess EXCEPT !.main = "exit", !.end = end,
                                    !.interrupts = p.interrupts]

\* main up to the wait.  The slots are connected one after the other.
Load == At({"config"}) /\ Becomes([Forward(proc) EXCEPT !.conf = disk, !.offered = {disk}])

\* Of the processes of daemonize the last one goes on.
Detach ==
  /\ At({"daemonize"}) /\ daemon
  /\ D!Next
  /\ proc' = IF D!Gone' THEN Ended(proc, "status")
             ELSE IF D!Survivors' # {} THEN Forward(proc) ELSE proc
  /\ UNCHANGED <<keeps, daemon, disk, reloads, starts>>

StayAttached == At({"daemonize"}) /\ ~daemon /\ Becomes(Forward(proc))

InstallHandlers == At({"start"}) /\ Becomes([Forward(proc) EXCEPT !.handled = TRUE])

Proceed == At({"instance", "handlers", "stopslot", "slots", "serving"}) /\ Becomes(Forward(proc))

\* Config::load, init or subsribe fails, and main returns EXIT_FAILURE.
StartFails == At({"config", "slots"}) /\ Becomes(Ended(proc, "status"))

Wake == At({"wait"}) /\ proc.woken /\ Becomes(Forward(proc))

\* Mutant: shutdown leaves the pool to its destructor.
StopPool_Later == At({"shutdown"}) /\ Becomes(Forward(proc))

(* ThreadPool::stop waits for the tasks that run and drops those that wait. *)
StopPool ==
  /\ At({"shutdown"})
  /\ \A t \in Tasks : proc.task[t] # "running"
  /\ Becomes([Forward(proc) EXCEPT !.task =
                [t \in Tasks |-> IF @[t] = "queued" THEN "none" ELSE @[t]]])

\* The members of the server are destroyed, the last one first.
Destroy == At({"unslotting", "unpooling"}) /\ Becomes(Forward(proc))

Return == At({"unbusing"}) /\ Becomes(Ended(proc, "status"))

Main == Load \/ Detach \/ StayAttached \/ InstallHandlers \/ Proceed \/ StartFails
        \/ Wake \/ StopPool \/ Destroy \/ Return

\* Restart=always of the service unit, which starts it without the option.
Restart ==
  /\ At({"exit"})
  /\ ~daemon
  /\ starts < MaxStarts
  /\ starts' = starts + 1
  /\ proc' = NewProcess
  /\ UNCHANGED <<keeps, daemon, disk, reloads, forks>>

-----------------------------------------------------------------------------
BusAlive == At({"serving", "wait", "shutdown", "unslotting", "unpooling", "unbusing"})

(* Server::process on the thread of the bus, which outlives the pool: what *)
(* comes after the stop is dropped, or meets a pool that is destroyed.     *)
Arrive(t) ==
  /\ BusAlive
  /\ proc.task[t] = "none"
  /\ \/ At({"serving", "wait", "shutdown"}) /\ Becomes([proc EXCEPT !.task[t] = "queued"])
     \/ At({"unbusing"}) /\ Becomes(Ended(proc, "fault"))

Run(t) ==
  /\ proc.task[t] = "queued"
  /\ Becomes([proc EXCEPT !.task[t] = "running"])

\* Mutant: the first call reads the configuration file again.
Use_FromFile(t) ==
  /\ proc.task[t] = "running"
  /\ proc.path = NoPath
  /\ Becomes([proc EXCEPT !.path = disk, !.torn = proc.reading > 0 \/ proc.mixed])

(* A task calls Storage::instance: the first call copies dbpath.  While a  *)
(* reload writes it, the copy can be anything.                             *)
Use(t) ==
  /\ proc.task[t] = "running"
  /\ proc.path = NoPath
  /\ \E p \in {proc.conf} \cup (IF proc.reading > 0 THEN {disk, Garbage} ELSE {}) :
       Becomes([proc EXCEPT !.path = p, !.torn = proc.reading > 0 \/ proc.mixed])

Finish(t) ==
  /\ proc.task[t] = "running"
  /\ Becomes([proc EXCEPT !.task[t] = "done"])

Task(t) == Run(t) \/ Use(t) \/ Finish(t)

-----------------------------------------------------------------------------
(* A handler that calls Daemon::instance while it is being constructed, on *)
(* the thread that constructs it, enters the initialization of the static  *)
(* again: it waits for itself, or the process is ended.                    *)
Reentered(p) == {[p EXCEPT !.main = "hung"], Ended(p, "fault")}

(* SIGINT, on any thread that is not in its handler.  The pool has threads *)
(* before the handler is installed, so there is always one.                *)
Interrupt ==
  /\ ~At({"exit"})
  /\ proc.interrupts < MaxInterrupts
  /\ LET p == [proc EXCEPT !.interrupts = @ + 1,
                           !.overlapped = @ \/ proc.calling + proc.resetting > 0] IN
     \/ ~proc.handled /\ Becomes(Ended(p, "SIGINT"))
     \/ proc.handled /\ Becomes([p EXCEPT !.calling = @ + 1])
     \/ At({"instance"}) /\ \E q \in Reentered(p) : Becomes(q)

\* A thread that is not constructing Daemon waits until it is constructed.
Constructed == ~At({"instance", "hung"})

\* stop reaches who waits, and who will wait if the Event keeps it.
Heard ==
  \/ proc.woken
  \/ At({"wait"})
  \/ keeps /\ At({"stopslot", "slots", "serving"})

\* Daemon::stop, first line: stopEvent, to Server::doStop once it is connected.
StopEvent ==
  /\ proc.calling > 0 /\ Constructed
  /\ Becomes([proc EXCEPT !.calling = @ - 1, !.resetting = @ + 1, !.woken = Heard,
                          !.missed = IF Heard THEN @ ELSE @ + 1])

\* Mutant: the handler stays installed.
DefaultAction_Never ==
  /\ proc.resetting > 0
  /\ Becomes([proc EXCEPT !.resetting = @ - 1])

\* Second line: the next SIGINT ends the process.
DefaultAction ==
  /\ proc.resetting > 0
  /\ Becomes([proc EXCEPT !.resetting = @ - 1, !.handled = FALSE])

Handler == StopEvent \/ DefaultAction

(* SIGHUP.  Before its handler is installed the process ends.              *)
Hangup ==
  /\ ~At({"exit", "hung"})
  /\ reloads < MaxReloads
  /\ reloads' = reloads + 1
  /\ \/ At({"config", "daemonize", "start", "instance"}) /\ proc' = Ended(proc, "SIGHUP")
     \/ At({"instance"}) /\ proc' \in Reentered(proc)
     \/ /\ ~At({"config", "daemonize", "start"})
        /\ proc' = [proc EXCEPT !.asked = @ + 1, !.offered = @ \cup {disk}]
  /\ UNCHANGED <<keeps, daemon, disk, starts, forks>>

(* loadConfigEvent: the file is parsed if the slot is there.  The handlers *)
(* of two threads can do so at once.                                       *)
Reload ==
  /\ proc.asked > 0 /\ Constructed
  /\ LET p == [proc EXCEPT !.asked = @ - 1] IN
     \/ At({"handlers", "stopslot", "unpooling", "unbusing"}) /\ Becomes(p)
     \/ /\ At({"slots", "serving", "wait", "shutdown", "unslotting"})
        /\ Becomes([p EXCEPT !.reading = @ + 1, !.mixed = @ \/ proc.reading > 0])

\* Mutant: a file that does not parse leaves what was read of it.
Reloaded_Torn ==
  /\ proc.reading > 0
  /\ \E c \in {disk, Garbage} : Becomes([proc EXCEPT !.reading = @ - 1, !.conf = c])

(* The file is read, or does not parse and the error is dropped.  Two that *)
(* write the same string can leave anything.                               *)
Reloaded ==
  /\ proc.reading > 0
  /\ \E c \in {disk, proc.conf} \cup (IF proc.reading > 1 THEN {Garbage} ELSE {}) :
       Becomes([proc EXCEPT !.reading = @ - 1, !.conf = c])

\* Somebody edits the configuration file.
Edit ==
  /\ \E p \in Paths :
       /\ disk' = p
       /\ proc' = IF proc.asked + proc.reading > 0
                  THEN [proc EXCEPT !.offered = @ \cup {p}] ELSE proc
  /\ UNCHANGED <<keeps, daemon, reloads, starts, forks>>

Next ==
  \/ Main
  \/ Restart
  \/ \E t \in Tasks : Arrive(t) \/ Task(t)
  \/ Interrupt \/ Handler \/ Hangup \/ Reload \/ Reloaded \/ Edit

(* The threads of the process run, in handlers too, and the service        *)
(* manager restarts it.                                                    *)
Spec == Init /\ [][Next]_vars /\ WF_vars(Main) /\ WF_vars(Restart)
             /\ WF_vars(StopEvent) /\ WF_vars(DefaultAction)
             /\ \A t \in Tasks : WF_vars(Task(t))

-----------------------------------------------------------------------------
\* What one reload leaves is never half of a file.
TypeOK ==
  /\ proc \in Process
  /\ proc.conf = Garbage => proc.mixed
  /\ keeps \in BOOLEAN /\ daemon \in BOOLEAN
  /\ disk \in Paths
  /\ reloads \in 0 .. MaxReloads
  /\ starts \in 1 .. MaxStarts

(* A task that runs can reply and publish: the bus it has a pointer to is  *)
(* destroyed after the last of them has ended, at whatever moment of the   *)
(* work the stop comes.                                                    *)
BusOutlivesTasks == (\E t \in Tasks : proc.task[t] = "running") => BusAlive /\ ~At({"unbusing"})

(* The file a process stores its groups in is one the configuration named  *)
(* when it was loaded, or while a SIGHUP was under way: an edit that nobody *)
(* asked to reload moves nothing, nor does a file that does not parse, in  *)
(* whatever order edits, reloads and the first call of Storage come.  Only *)
(* a copy made during a reload, or after two that ran at once, can be no   *)
(* path of the configuration at all.                                       *)
PathWasOffered ==
  \/ proc.path \in proc.offered \cup {NoPath}
  \/ proc.path = Garbage /\ proc.torn

(* One interrupt can be lost: it comes before the slot is connected, or    *)
(* before main waits.  Two are lost only if the second came while the      *)
(* handler of the first had not restored the default action.               *)
LostOnlyOverlapped == proc.missed >= 2 => proc.overlapped

(* Two interrupts end the process, at once or through the whole stop,      *)
(* unless each found the handler of the other under way and nobody heard   *)
(* either, or one came while the object that handles it was constructed.   *)
TwoInterruptsEnd ==
  proc.interrupts >= 2 ~>
    \/ At({"exit", "hung"})
    \/ proc.overlapped /\ proc.missed = proc.interrupts

(* With the option, the process that goes on has left the session of the   *)
(* shell and leads none, so that no terminal becomes its own.              *)
Detached == daemon /\ BusAlive => D!Detached /\ D!Survivors # {}

\* It has the three streams and no other file of its parent, but descriptor 0.
OnlyStreams == daemon /\ BusAlive => D!OnlyStreams
=============================================================================
