--------------------------- MODULE LifecycleProofs ---------------------------
(* Theorems about the life of the process, for every number of messages,   *)
(* signals, reloads and descriptors, and wherever they come.               *)
EXTENDS Lifecycle, TLAPS

(* Where a process of daemonize can be.  The child has a session of its    *)
(* own before it forks, the grandchild is in that one.                     *)
ForksOK ==
  /\ step \in [1 .. 3 -> {"none", "first", "setsid", "second", "close", "reopen", "done", "exited"}]
  /\ session \in [1 .. 3 -> 0 .. 3]
  /\ step[1] \in {"first", "exited"}
  /\ step[2] \in {"none", "setsid", "second", "exited"}
  /\ step[3] \in {"none", "close", "reopen", "done"}
  /\ step[2] = "second" => session[2] = 2
  /\ step[3] # "none" => session[3] = 2
  /\ step[3] = "reopen" => open \ {0} = {}
  /\ step[3] = "done" => open \ {0} \subseteq {stream[i] : i \in 1 .. 3}

LEMMA ForksInit == D!Init => ForksOK
  BY DEF D!Init, D!Pids, ForksOK

LEMMA ForksStep == ForksOK /\ D!Next => ForksOK'
  <1> SUFFICES ASSUME ForksOK, NEW p \in 1 .. 3,
                      \/ D!First(p) \/ D!SetSid(p) \/ D!Second(p)
                      \/ D!ForkFails(p) \/ D!Close(p) \/ D!Reopen(p)
               PROVE  ForksOK'
    BY DEF D!Next, D!Pids
  <1>0. p = 1 \/ p = 2 \/ p = 3
    OBVIOUS
  <1>1. CASE D!First(p)
    BY <1>0, <1>1 DEF D!First, D!Fork, ForksOK
  <1>2. CASE D!SetSid(p)
    BY <1>0, <1>2 DEF D!SetSid, ForksOK
  <1>3. CASE D!Second(p)
    BY <1>0, <1>3 DEF D!Second, D!Fork, ForksOK
  <1>4. CASE D!ForkFails(p)
    BY <1>0, <1>4 DEF D!ForkFails, ForksOK
  <1>5. CASE D!Close(p)
    BY <1>0, <1>5 DEF D!Close, ForksOK
  <1>6. CASE D!Reopen(p)
    BY <1>0, <1>6 DEF D!Reopen, ForksOK
  <1> QED
    BY <1>1, <1>2, <1>3, <1>4, <1>5, <1>6

LEMMA ForksGood == ForksOK => D!Detached /\ D!OnlyStreams
  BY DEF ForksOK, D!Detached, D!OnlyStreams, D!Survivors, D!Pids

-----------------------------------------------------------------------------
(* A process.                                                              *)

LEMMA NewProcessOK == NewProcess \in Process
  BY LifecycleAssumption DEF NewProcess, Process, Following

LEMMA ForwardOK ==
  ASSUME NEW p \in Process, p.main \notin {"exit", "hung"}
  PROVE  /\ Forward(p) \in Process
         /\ Forward(p) = [p EXCEPT !.main = Following[p.main]]
         /\ Following[p.main] \in (DOMAIN Following \ {"config"}) \cup {"exit"}
  BY DEF Forward, Process, Following

LEMMA EndedOK ==
  ASSUME NEW p \in Process, NEW e \in {"status", "SIGINT", "SIGHUP", "fault"}
  PROVE  /\ Ended(p, e) \in Process
         /\ Ended(p, e) = [NewProcess EXCEPT !.main = "exit", !.end = e,
                                             !.interrupts = p.interrupts]
  BY NewProcessOK DEF Ended, Process, NewProcess

LEMMA CountsOK ==
  ASSUME NEW p \in Process
  PROVE  /\ p.calling \in Nat /\ p.resetting \in Nat /\ p.asked \in Nat
         /\ p.reading \in Nat /\ p.missed \in Nat
         /\ p.interrupts \in 0 .. MaxInterrupts
         /\ p.overlapped \in BOOLEAN /\ p.mixed \in BOOLEAN
  BY DEF Process

\* What a task can be when main is in a phase.
Fits(p) ==
  \A t \in Tasks :
    /\ p.task[t] # "none" => p.main \in {"serving", "wait", "shutdown", "unslotting", "unpooling", "unbusing"}
    /\ p.task[t] \in {"queued", "running"} => p.main \in {"serving", "wait", "shutdown"}

(* Where the configured path and the path of Storage come from, and that   *)
(* only two reloads at once can leave what no file said.                   *)
Honest(p) ==
  /\ p.conf \in p.offered \cup {NoPath} \/ (p.conf = Garbage /\ p.mixed)
  /\ p.path \in p.offered \cup {NoPath} \/ (p.path = Garbage /\ p.torn)
  /\ p.reading > 1 => p.mixed

(* Without an overlap there is one handler at most, it is the first, and   *)
(* it has restored the default action when it is done.                     *)
OneAtATime(p) ==
  /\ p.main \in {"config", "daemonize", "start"} =>
       ~p.handled /\ p.calling = 0 /\ p.resetting = 0 /\ p.missed = 0
  /\ ~p.overlapped =>
       /\ p.calling + p.resetting <= 1
       /\ p.calling + p.missed <= 1
       /\ p.handled /\ p.resetting = 0 => p.missed = 0

Sane(p) ==
  /\ p \in Process /\ (p.main = "config" => p = NewProcess)
  /\ Fits(p) /\ Honest(p) /\ OneAtATime(p)

\* While a SIGHUP is under way the process may take what the file says.
Offering == proc.asked + proc.reading > 0 => disk \in proc.offered

Detaches == daemon /\ proc.main \notin {"config", "daemonize", "exit"} => D!Survivors # {}

OutsideOK ==
  /\ keeps \in BOOLEAN /\ daemon \in BOOLEAN
  /\ disk \in Paths
  /\ reloads \in 0 .. MaxReloads
  /\ starts \in 1 .. MaxStarts

LifeOK == Sane(proc) /\ Offering /\ ForksOK /\ Detaches /\ OutsideOK

LEMMA SaneNew == Sane(NewProcess)
  BY NewProcessOK DEF Sane, Fits, Honest, OneAtATime, NewProcess

LEMMA SaneEnded ==
  ASSUME NEW p \in Process, NEW e \in {"status", "SIGINT", "SIGHUP", "fault"}
  PROVE  /\ Sane(Ended(p, e)) /\ Ended(p, e).main = "exit"
         /\ Ended(p, e).asked + Ended(p, e).reading = 0
  <1> DEFINE q == Ended(p, e)
  <1>1. q \in Process /\ q = [NewProcess EXCEPT !.main = "exit", !.end = e,
                                               !.interrupts = p.interrupts]
    BY EndedOK
  <1>2. /\ q.main = "exit" /\ q.conf = NoPath /\ q.path = NoPath
        /\ q.calling = 0 /\ q.resetting = 0 /\ q.asked = 0 /\ q.reading = 0 /\ q.missed = 0
        /\ \A t \in Tasks : q.task[t] = "none"
    BY <1>1 DEF NewProcess
  <1> HIDE DEF q
  <1>3. Fits(q)
    BY <1>2 DEF Fits
  <1>4. Honest(q) /\ OneAtATime(q)
    BY <1>2 DEF Honest, OneAtATime
  <1>5. Sane(q) /\ q.main = "exit" /\ q.asked + q.reading = 0
    BY <1>1, <1>2, <1>3, <1>4 DEF Sane
  <1> QED
    BY <1>5 DEF q

\* main goes on, and no task is lost on the way to where none may run.
LEMMA SaneForward ==
  ASSUME NEW p, Sane(p), p.main \notin {"config", "start", "shutdown", "unbusing", "exit", "hung"}
  PROVE  /\ Sane(Forward(p)) /\ Forward(p).main \notin {"config", "daemonize"}
         /\ Forward(p).asked = p.asked /\ Forward(p).reading = p.reading
         /\ Forward(p).offered = p.offered
  <1>1. p \in Process /\ Forward(p) \in Process /\ Forward(p) = [p EXCEPT !.main = Following[p.main]]
    BY ForwardOK DEF Sane
  <1>2. p.main \in {"daemonize", "instance", "handlers", "stopslot", "slots", "serving",
                    "wait", "unslotting", "unpooling"}
    BY <1>1 DEF Sane, Process, Following
  <1>3. Forward(p).main = Following[p.main] /\ Forward(p).task = p.task
    BY <1>1 DEF Process
  <1>a. /\ p.main \in {"unslotting", "unpooling"} => Following[p.main] \in {"unpooling", "unbusing"}
        /\ p.main \in {"serving", "wait"} => Following[p.main] \in {"wait", "shutdown"}
    BY DEF Following
  <1>4. Fits(Forward(p))
    BY <1>2, <1>3, <1>a DEF Sane, Fits
  <1>5. Honest(Forward(p))
    BY <1>1 DEF Sane, Honest, Process
  <1>6. OneAtATime(Forward(p))
    BY <1>1, <1>2, <1>3 DEF Sane, OneAtATime, Process, Following
  <1> QED
    BY <1>1, <1>2, <1>3, <1>4, <1>5, <1>6 DEF Sane, Following, Process

-----------------------------------------------------------------------------
LEMMA BecomesOK ==
  ASSUME LifeOK, NEW q, Becomes(q), Sane(q),
         q.asked + q.reading > 0 => disk \in q.offered,
         \/ q.main \in {"config", "daemonize", "exit"}
         \/ proc.main \notin {"config", "daemonize", "exit"}
         \/ ~daemon
  PROVE  LifeOK'
  <1>1. ForksOK'
    BY DEF LifeOK, Becomes, forks, ForksOK
  <1>2. D!Survivors' = D!Survivors
    BY DEF Becomes, forks, D!Survivors
  <1>3. Detaches'
    BY <1>2 DEF LifeOK, Becomes, Detaches
  <1>4. Sane(proc)' /\ Offering'
    BY DEF Becomes, Sane, Fits, Honest, OneAtATime, Offering
  <1>5. OutsideOK'
    BY DEF LifeOK, Becomes, OutsideOK
  <1> QED
    BY <1>1, <1>3, <1>4, <1>5 DEF LifeOK

LEMMA MainOK ==
  ASSUME LifeOK, Main
  PROVE  LifeOK'
  <1> DEFINE F == Forward(proc)
  <1>0. Sane(proc) /\ proc \in Process /\ Offering /\ disk \in Paths
    BY DEF LifeOK, Sane, OutsideOK
  <1>1. CASE Load
    <2> DEFINE q == [NewProcess EXCEPT !.main = "daemonize", !.conf = disk, !.offered = {disk}]
    <2>1. proc = NewProcess
      BY <1>0, <1>1 DEF Load, At, Sane
    <2>2. [F EXCEPT !.conf = disk, !.offered = {disk}] = q
      BY <2>1 DEF Forward, NewProcess, Following
    <2>3. Becomes(q)
      BY <1>1, <2>2 DEF Load
    <2>4. q \in Process
      BY <1>0, NewProcessOK DEF Process, Following
    <2>5. /\ q.main = "daemonize" /\ q.conf = disk /\ q.offered = {disk} /\ q.path = NoPath
          /\ q.handled = FALSE
          /\ q.calling = 0 /\ q.resetting = 0 /\ q.asked = 0 /\ q.reading = 0 /\ q.missed = 0
          /\ \A t \in Tasks : q.task[t] = "none"
      BY DEF NewProcess
    <2> HIDE DEF q
    <2>6. Fits(q)
      BY <2>5 DEF Fits
    <2>7. Honest(q) /\ OneAtATime(q)
      BY <2>5 DEF Honest, OneAtATime
    <2>8. Sane(q) /\ q.asked + q.reading = 0
      BY <2>4, <2>5, <2>6, <2>7 DEF Sane
    <2> QED
      BY <2>3, <2>5, <2>8, BecomesOK
  <1>2. CASE Detach
    <2>1. ForksOK' /\ OutsideOK'
      BY <1>2, ForksStep DEF Detach, LifeOK, OutsideOK
    <2>2. Sane(F) /\ F.main = "start" /\ F.asked = proc.asked /\ F.reading = proc.reading
            /\ F.offered = proc.offered
      BY <1>0, <1>2, SaneForward, ForwardOK DEF Detach, At, Following, Process
    <2>3. Sane(Ended(proc, "status")) /\ Ended(proc, "status").main = "exit"
            /\ Ended(proc, "status").asked + Ended(proc, "status").reading = 0
      BY <1>0, SaneEnded
    <2>4. \/ proc' = Ended(proc, "status")
          \/ D!Survivors' # {} /\ proc' = F
          \/ proc' = proc
      BY <1>2 DEF Detach
    <2> HIDE DEF F
    <2>5. Sane(proc')
      BY <1>0, <2>2, <2>3, <2>4
    <2>6. Sane(proc)'
      BY <2>5 DEF Sane, Fits, Honest, OneAtATime
    <2>7. Detaches'
      BY <1>2, <2>3, <2>4 DEF Detach, At, Detaches
    <2>8. Offering'
      BY <1>0, <1>2, <2>2, <2>3, <2>4 DEF Detach, Offering
    <2> QED
      BY <2>1, <2>6, <2>7, <2>8 DEF LifeOK
  <1>3. CASE StayAttached \/ Proceed \/ Wake \/ Destroy
    <2>1. proc.main \notin {"config", "start", "shutdown", "unbusing", "exit", "hung"}
          /\ (proc.main = "daemonize" => ~daemon) /\ Becomes(F)
      BY <1>3 DEF StayAttached, Proceed, Wake, Destroy, At
    <2>2. Sane(F) /\ F.asked = proc.asked /\ F.reading = proc.reading /\ F.offered = proc.offered
      BY <1>0, <2>1, SaneForward
    <2> HIDE DEF F
    <2> QED
      BY <1>0, <2>1, <2>2, BecomesOK DEF Offering
  <1>4. CASE InstallHandlers
    <2> DEFINE q == [proc EXCEPT !.main = "instance", !.handled = TRUE]
    <2>a. proc.main = "start" /\ Following["start"] = "instance"
      BY <1>4 DEF InstallHandlers, At, Following
    <2>b. F = [proc EXCEPT !.main = "instance"]
      BY <1>0, <2>a, ForwardOK
    <2>1. [F EXCEPT !.handled = TRUE] = q /\ proc.main = "start"
      BY <2>a, <2>b
    <2>2. q \in Process
      BY <1>0 DEF Process, Following
    <2>3. Fits(q) /\ Honest(q) /\ OneAtATime(q)
      BY <1>0, <2>1 DEF Sane, Fits, Honest, OneAtATime, Process
    <2>4. q.main = "instance" /\ q.asked = proc.asked /\ q.reading = proc.reading /\ q.offered = proc.offered
      BY <1>0 DEF Process
    <2>5. Becomes(q)
      BY <1>4, <2>1 DEF InstallHandlers
    <2> HIDE DEF q
    <2>6. Sane(q)
      BY <2>2, <2>3, <2>4 DEF Sane
    <2> QED
      BY <1>0, <2>1, <2>4, <2>5, <2>6, BecomesOK DEF Offering
  <1>5. CASE StartFails \/ Return
    <2>1. Becomes(Ended(proc, "status"))
      BY <1>5 DEF StartFails, Return
    <2> QED
      BY <1>0, <2>1, SaneEnded, BecomesOK
  <1>6. CASE StopPool
    <2> DEFINE tasks == [t \in Tasks |-> IF proc.task[t] = "queued" THEN "none" ELSE proc.task[t]]
               q == [proc EXCEPT !.main = "unslotting", !.task = tasks]
    <2>a. proc.main = "shutdown" /\ Following["shutdown"] = "unslotting"
      BY <1>6 DEF StopPool, At, Following
    <2>b. F = [proc EXCEPT !.main = "unslotting"]
      BY <1>0, <2>a, ForwardOK
    <2>1. [F EXCEPT !.task = [t \in Tasks |-> IF @[t] = "queued" THEN "none" ELSE @[t]]] = q
            /\ proc.main = "shutdown"
      BY <1>0, <2>a, <2>b DEF Process
    <2>2. \A t \in Tasks : tasks[t] \in {"none", "done"}
      BY <1>0, <1>6 DEF StopPool, Process
    <2>3. tasks \in [Tasks -> {"none", "queued", "running", "done"}]
      BY <2>2
    <2>4. Becomes(q)
      BY <1>6, <2>1 DEF StopPool
    <2> HIDE DEF tasks
    <2>5. q \in Process /\ q.main = "unslotting" /\ q.task = tasks
            /\ q.asked = proc.asked /\ q.reading = proc.reading /\ q.offered = proc.offered
      BY <1>0, <2>3 DEF Process, Following
    <2>6. Fits(q)
      BY <2>2, <2>5 DEF Fits
    <2>7. Honest(q) /\ OneAtATime(q)
      BY <1>0, <2>1 DEF Sane, Honest, OneAtATime, Process
    <2> HIDE DEF q
    <2>8. Sane(q)
      BY <2>5, <2>6, <2>7 DEF Sane
    <2> QED
      BY <1>0, <2>1, <2>4, <2>5, <2>8, BecomesOK DEF Offering
  <1> QED
    BY <1>1, <1>2, <1>3, <1>4, <1>5, <1>6 DEF Main

-----------------------------------------------------------------------------
\* What a signal and its handler change of a process leaves its tasks alone.
LEMMA SameTasks ==
  ASSUME NEW p, Sane(p), NEW q \in Process, q.main = p.main, p.main # "config",
         q.task = p.task, Honest(q), OneAtATime(q)
  PROVE  Sane(q)
  BY DEF Sane, Fits

LEMMA ReenteredOK ==
  ASSUME NEW p \in Process, Fits(p), Honest(p), OneAtATime(p), p.main = "instance",
         NEW q \in Reentered(p)
  PROVE  /\ Sane(q) /\ q.main \in {"hung", "exit"}
         /\ q.asked + q.reading = 0 \/ (/\ q.asked = p.asked /\ q.reading = p.reading
                                        /\ q.offered = p.offered)
  <1>1. CASE q = Ended(p, "fault")
    BY <1>1, SaneEnded
  <1>2. CASE q = [p EXCEPT !.main = "hung"]
    <2>1. q \in Process /\ q.main = "hung" /\ q.task = p.task
      BY <1>2 DEF Process
    <2>2. Fits(q)
      BY <2>1 DEF Fits
    <2>3. Honest(q) /\ OneAtATime(q)
      BY <1>2 DEF Honest, OneAtATime, Process
    <2> QED
      BY <1>2, <2>1, <2>2, <2>3 DEF Sane, Process
  <1> QED
    BY <1>1, <1>2 DEF Reentered

LEMMA InterruptOK ==
  ASSUME LifeOK, Interrupt
  PROVE  LifeOK'
  <1> DEFINE p == [proc EXCEPT !.interrupts = @ + 1,
                               !.overlapped = @ \/ proc.calling + proc.resetting > 0]
             q == [p EXCEPT !.calling = @ + 1]
  <1>0. Sane(proc) /\ proc \in Process /\ Offering
    BY DEF LifeOK, Sane
  <1>1. p \in Process /\ p.main = proc.main /\ p.task = proc.task
          /\ p.asked = proc.asked /\ p.reading = proc.reading /\ p.offered = proc.offered
    <2> DEFINE n == proc.interrupts + 1
               o == proc.overlapped \/ proc.calling + proc.resetting > 0
    <2>1. n \in 0 .. MaxInterrupts
      BY <1>0, CountsOK, LifecycleAssumption DEF Interrupt
    <2>2. o \in BOOLEAN
      BY <1>0, CountsOK
    <2>3. p = [proc EXCEPT !.interrupts = n, !.overlapped = o]
      OBVIOUS
    <2> HIDE DEF p, n, o
    <2> QED
      BY <1>0, <2>1, <2>2, <2>3 DEF Process
  <1>2. Fits(p) /\ Honest(p) /\ OneAtATime(p)
    <2>1. Honest(p)
      BY <1>0 DEF Sane, Honest, Process
    <2>2. OneAtATime(p)
      BY <1>0 DEF Sane, OneAtATime, Process
    <2> QED
      BY <1>0, <1>1, <2>1, <2>2 DEF Sane, Fits
  <1>3. CASE Becomes(Ended(p, "SIGINT"))
    <2> HIDE DEF p
    <2> QED
      BY <1>1, <1>3, SaneEnded, BecomesOK
  <1>4. CASE proc.handled /\ Becomes(q)
    <2>1. q \in Process /\ q.main = proc.main /\ q.task = proc.task
            /\ q.asked = proc.asked /\ q.reading = proc.reading /\ q.offered = proc.offered
      <3> DEFINE n == p.calling + 1
      <3>1. q = [p EXCEPT !.calling = n]
        OBVIOUS
      <3> HIDE DEF p, q
      <3>2. n \in Nat
        BY <1>1, CountsOK
      <3> HIDE DEF n
      <3> QED
        BY <1>1, <3>1, <3>2 DEF Process
    <2>2. proc.main \notin {"config", "daemonize", "start"}
      BY <1>0, <1>4 DEF Sane, OneAtATime
    <2>3. Honest(q)
      BY <1>0 DEF Sane, Honest, Process
    <2>4. OneAtATime(q)
      <3>1. /\ q.calling = proc.calling + 1 /\ q.resetting = proc.resetting
            /\ q.missed = proc.missed /\ q.handled = proc.handled
        BY <1>0 DEF Process
      <3>2. q.overlapped = (proc.overlapped \/ proc.calling + proc.resetting > 0)
        BY <1>0 DEF Process
      <3>3. CASE proc.overlapped \/ proc.calling + proc.resetting > 0
        BY <2>1, <2>2, <3>2, <3>3 DEF OneAtATime
      <3>4. CASE ~proc.overlapped /\ ~(proc.calling + proc.resetting > 0)
        <4>1. proc.calling = 0 /\ proc.resetting = 0 /\ proc.missed = 0
          BY <1>0, <1>4, <3>4, CountsOK DEF Sane, OneAtATime
        <4> HIDE DEF p, q
        <4> QED
          BY <2>1, <2>2, <3>1, <4>1 DEF OneAtATime
      <3> QED
        BY <3>3, <3>4
    <2>5. Becomes(q)
      BY <1>4
    <2> HIDE DEF p, q
    <2>6. Sane(q)
      BY <1>0, <2>1, <2>2, <2>3, <2>4, SameTasks
    <2> QED
      BY <1>0, <2>1, <2>5, <2>6, BecomesOK DEF Offering
  <1>5. ASSUME proc.main = "instance", NEW r \in Reentered(p), Becomes(r) PROVE LifeOK'
    <2> HIDE DEF p
    <2> QED
      BY <1>0, <1>1, <1>2, <1>5, ReenteredOK, BecomesOK DEF Offering
  <1> QED
    BY <1>3, <1>4, <1>5 DEF Interrupt, At

LEMMA HandlerOK ==
  ASSUME LifeOK, Handler
  PROVE  LifeOK'
  <1>0. Sane(proc) /\ proc \in Process /\ Offering
    BY DEF LifeOK, Sane
  <1>a. Heard \in BOOLEAN
    BY <1>0 DEF Heard, At, LifeOK, OutsideOK, Process
  <1>1. CASE StopEvent
    <2> DEFINE q == [proc EXCEPT !.calling = @ - 1, !.resetting = @ + 1, !.woken = Heard,
                                 !.missed = IF Heard THEN @ ELSE @ + 1]
    <2>1. q \in Process /\ q.main = proc.main /\ q.task = proc.task
            /\ q.asked = proc.asked /\ q.reading = proc.reading /\ q.offered = proc.offered
      <3> DEFINE c == proc.calling - 1
                 r == proc.resetting + 1
                 m == IF Heard THEN proc.missed ELSE proc.missed + 1
      <3>1. c \in Nat /\ r \in Nat /\ m \in Nat
        BY <1>0, <1>1, <1>a, CountsOK DEF StopEvent
      <3>2. q = [proc EXCEPT !.calling = c, !.resetting = r, !.woken = Heard, !.missed = m]
        OBVIOUS
      <3> HIDE DEF q, c, r, m
      <3> QED
        BY <1>0, <1>a, <3>1, <3>2 DEF Process
    <2>2. proc.main \notin {"config", "daemonize", "start"}
      BY <1>0, <1>1 DEF StopEvent, Sane, OneAtATime, NewProcess
    <2>3. Honest(q)
      BY <1>0 DEF Sane, Honest, Process
    <2>4. OneAtATime(q)
      BY <1>0, <1>1, <2>2 DEF StopEvent, Sane, OneAtATime, Process
    <2>5. Becomes(q)
      BY <1>1 DEF StopEvent
    <2> HIDE DEF q
    <2>6. Sane(q)
      BY <1>0, <2>1, <2>2, <2>3, <2>4, SameTasks
    <2> QED
      BY <1>0, <2>1, <2>2, <2>5, <2>6, BecomesOK DEF Offering
  <1>2. CASE DefaultAction
    <2> DEFINE q == [proc EXCEPT !.resetting = @ - 1, !.handled = FALSE]
    <2>1. q \in Process /\ q.main = proc.main /\ q.task = proc.task
            /\ q.asked = proc.asked /\ q.reading = proc.reading /\ q.offered = proc.offered
      <3> DEFINE r == proc.resetting - 1
      <3>1. r \in Nat /\ q = [proc EXCEPT !.resetting = r, !.handled = FALSE]
        BY <1>0, <1>2, CountsOK DEF DefaultAction
      <3> HIDE DEF q, r
      <3> QED
        BY <1>0, <3>1 DEF Process
    <2>2. proc.main \notin {"config", "daemonize", "start"}
      BY <1>0, <1>2 DEF DefaultAction, Sane, OneAtATime, NewProcess
    <2>3. Honest(q)
      BY <1>0 DEF Sane, Honest, Process
    <2>4. OneAtATime(q)
      BY <1>0, <1>2, <2>2 DEF DefaultAction, Sane, OneAtATime, Process
    <2>5. Becomes(q)
      BY <1>2 DEF DefaultAction
    <2> HIDE DEF q
    <2>6. Sane(q)
      BY <1>0, <2>1, <2>2, <2>3, <2>4, SameTasks
    <2> QED
      BY <1>0, <2>1, <2>2, <2>5, <2>6, BecomesOK DEF Offering
  <1> QED
    BY <1>1, <1>2 DEF Handler

LEMMA HangupOK ==
  ASSUME LifeOK, Hangup
  PROVE  LifeOK'
  <1>0. Sane(proc) /\ proc \in Process /\ Offering /\ disk \in Paths
    BY DEF LifeOK, Sane, OutsideOK
  <1> DEFINE q == [proc EXCEPT !.asked = @ + 1, !.offered = @ \cup {disk}]
  <1>1. ASSUME proc' = Ended(proc, "SIGHUP")
        PROVE  Sane(proc') /\ (proc'.asked + proc'.reading > 0 => disk \in proc'.offered)
               /\ proc'.main = "exit"
    BY <1>0, <1>1, SaneEnded
  <1>2. ASSUME proc.main = "instance", proc' \in Reentered(proc)
        PROVE  Sane(proc') /\ (proc'.asked + proc'.reading > 0 => disk \in proc'.offered)
    BY <1>0, <1>2, ReenteredOK DEF Sane, Offering
  <1>3. ASSUME proc.main \notin {"config", "daemonize", "start", "exit"}, proc' = q
        PROVE  Sane(proc') /\ disk \in proc'.offered
    <2>1. q \in Process /\ q.main = proc.main /\ q.task = proc.task /\ disk \in q.offered
      <3> DEFINE n == proc.asked + 1
      <3>1. n \in Nat /\ q = [proc EXCEPT !.asked = n, !.offered = @ \cup {disk}]
        BY <1>0, CountsOK
      <3> HIDE DEF q, n
      <3> QED
        BY <1>0, <3>1 DEF Process
    <2>2. Honest(q)
      BY <1>0 DEF Sane, Honest, Process
    <2>3. OneAtATime(q)
      BY <1>0 DEF Sane, OneAtATime, Process
    <2> HIDE DEF q
    <2> QED
      BY <1>0, <1>3, <2>1, <2>2, <2>3, SameTasks
  <1>4. /\ Sane(proc') /\ (proc'.asked + proc'.reading > 0 => disk \in proc'.offered)
        /\ proc'.main = "exit" \/ proc.main \notin {"config", "daemonize", "exit"}
    BY <1>1, <1>2, <1>3 DEF Hangup, At
  <1>5. Sane(proc)' /\ Offering'
    BY <1>4 DEF Sane, Fits, Honest, OneAtATime, Hangup, Offering
  <1>6. ForksOK' /\ D!Survivors' = D!Survivors
    BY DEF Hangup, LifeOK, forks, ForksOK, D!Survivors
  <1>7. Detaches' /\ OutsideOK'
    BY <1>4, <1>6, LifecycleAssumption DEF Hangup, LifeOK, Detaches, OutsideOK
  <1> QED
    BY <1>5, <1>6, <1>7 DEF LifeOK

LEMMA ReloadOK ==
  ASSUME LifeOK, Reload \/ Reloaded
  PROVE  LifeOK'
  <1>0. Sane(proc) /\ proc \in Process /\ Offering
    BY DEF LifeOK, Sane
  <1>1. CASE Reload
    <2> DEFINE p == [proc EXCEPT !.asked = @ - 1]
               q == [p EXCEPT !.reading = @ + 1, !.mixed = @ \/ proc.reading > 0]
    <2>1. proc.main \notin {"config", "daemonize", "exit"} /\ proc.asked > 0
      BY <1>1 DEF Reload, At
    <2>2. ASSUME Becomes(p) PROVE LifeOK'
      <3>1. p \in Process /\ p.main = proc.main /\ p.task = proc.task
              /\ p.asked = proc.asked - 1 /\ p.reading = proc.reading /\ p.offered = proc.offered
        BY <1>0, <2>1 DEF Process
      <3>2. Honest(p) /\ OneAtATime(p)
        BY <1>0 DEF Sane, Honest, OneAtATime, Process
      <3>3. Becomes(p)
        BY <2>2
      <3> HIDE DEF p
      <3>4. Sane(p)
        BY <1>0, <2>1, <3>1, <3>2, SameTasks
      <3>5. p.asked + p.reading > 0 => disk \in p.offered
        BY <1>0, <3>1 DEF Offering, Process
      <3> QED
        BY <2>1, <3>3, <3>4, <3>5, BecomesOK
    <2>3. ASSUME Becomes(q) PROVE LifeOK'
      <3> DEFINE n == proc.asked - 1
                 r == proc.reading + 1
                 m == proc.mixed \/ proc.reading > 0
      <3>b. /\ n \in Nat /\ r \in Nat /\ m \in BOOLEAN
            /\ q = [proc EXCEPT !.asked = n, !.reading = r, !.mixed = m]
            /\ r > 1 => m
            /\ proc.mixed => m
        <4>1. n \in Nat /\ r \in Nat
          BY <1>0, <2>1, CountsOK
        <4>2. r > 1 => proc.reading > 0
          BY <1>0, CountsOK
        <4>3. q = [proc EXCEPT !.asked = n, !.reading = r, !.mixed = m]
          BY <1>0 DEF Process
        <4> QED
          BY <1>0, <4>1, <4>2, <4>3, CountsOK
      <3> HIDE DEF n, r, m
      <3>1. q \in Process /\ q.main = proc.main /\ q.task = proc.task /\ q.offered = proc.offered
        <4> HIDE DEF q
        <4> QED
          BY <1>0, <3>b DEF Process
      <3>2. Honest(q)
        <4> HIDE DEF q
        <4> QED
          BY <1>0, <3>b DEF Sane, Honest, Process
      <3>a. OneAtATime(q)
        BY <1>0 DEF Sane, OneAtATime, Process
      <3>3. Becomes(q)
        BY <2>3
      <3> HIDE DEF p, q
      <3>4. Sane(q)
        BY <1>0, <2>1, <3>1, <3>2, <3>a, SameTasks
      <3>5. disk \in q.offered
        BY <1>0, <2>1, <3>1 DEF Offering, Process
      <3> QED
        BY <2>1, <3>3, <3>4, <3>5, BecomesOK
    <2> QED
      BY <1>1, <2>2, <2>3 DEF Reload
  <1>2. CASE Reloaded
    <2>1. PICK c \in {disk, proc.conf} \cup (IF proc.reading > 1 THEN {Garbage} ELSE {}) :
            Becomes([proc EXCEPT !.reading = @ - 1, !.conf = c])
      BY <1>2 DEF Reloaded
    <2> DEFINE q == [proc EXCEPT !.reading = @ - 1, !.conf = c]
    <2>2. proc.reading > 0 /\ proc.main # "config"
      <3>1. proc.reading > 0
        BY <1>2 DEF Reloaded
      <3>2. NewProcess.reading = 0
        BY DEF NewProcess
      <3> QED
        BY <1>0, <3>1, <3>2 DEF Sane
    <2>3. disk \in proc.offered /\ disk \in Paths
      BY <1>0, <2>2 DEF Offering, Process
    <2>4. q \in Process /\ q.main = proc.main /\ q.task = proc.task /\ q.offered = proc.offered
      <3> DEFINE r == proc.reading - 1
      <3>1. r \in Nat /\ q = [proc EXCEPT !.reading = r, !.conf = c]
        BY <1>0, <2>2, CountsOK
      <3>2. c \in Paths \cup {NoPath, Garbage}
        BY <1>0, <2>3 DEF Process
      <3> HIDE DEF q, r
      <3> QED
        BY <1>0, <3>1, <3>2 DEF Process
    <2>5. Honest(q)
      BY <1>0, <2>2, <2>3 DEF Sane, Honest, Process
    <2>6. OneAtATime(q)
      BY <1>0 DEF Sane, OneAtATime, Process
    <2>7. Becomes(q)
      BY <2>1
    <2>8. proc.main \notin {"daemonize", "exit"} \/ q.main \in {"daemonize", "exit"}
      BY <2>4
    <2> HIDE DEF q
    <2>9. Sane(q)
      BY <1>0, <2>2, <2>4, <2>5, <2>6, SameTasks
    <2> QED
      BY <2>2, <2>3, <2>4, <2>7, <2>8, <2>9, BecomesOK
  <1> QED
    BY <1>1, <1>2

LEMMA TaskOK ==
  ASSUME LifeOK, NEW t \in Tasks, Arrive(t) \/ Task(t)
  PROVE  LifeOK'
  <1>0. Sane(proc) /\ proc \in Process /\ Offering
    BY DEF LifeOK, Sane
  <1>1. ASSUME NEW s \in {"queued", "running", "done"},
               proc.main \in {"serving", "wait", "shutdown"},
               Becomes([proc EXCEPT !.task[t] = s])
        PROVE  LifeOK'
    <2> DEFINE q == [proc EXCEPT !.task[t] = s]
    <2>1. q \in Process /\ q.main = proc.main
            /\ q.asked = proc.asked /\ q.reading = proc.reading /\ q.offered = proc.offered
      BY <1>0 DEF Process
    <2>2. Fits(q)
      BY <1>0, <1>1, <2>1 DEF Sane, Fits
    <2>3. Honest(q) /\ OneAtATime(q)
      BY <1>0 DEF Sane, Honest, OneAtATime, Process
    <2>4. Becomes(q)
      BY <1>1
    <2> HIDE DEF q
    <2>5. Sane(q)
      BY <1>1, <2>1, <2>2, <2>3 DEF Sane
    <2> QED
      BY <1>0, <1>1, <2>1, <2>4, <2>5, BecomesOK DEF Offering
  <1>2. proc.task[t] \in {"queued", "running"} => proc.main \in {"serving", "wait", "shutdown"}
    BY <1>0 DEF Sane, Fits
  <1>3. CASE Arrive(t)
    <2>1. CASE Becomes(Ended(proc, "fault"))
      BY <1>0, <2>1, SaneEnded, BecomesOK
    <2> QED
      BY <1>1, <1>3, <2>1 DEF Arrive, At
  <1>4. CASE Run(t) \/ Finish(t)
    BY <1>1, <1>2, <1>4 DEF Run, Finish
  <1>5. CASE Use(t)
    <2>1. PICK f \in {proc.conf} \cup (IF proc.reading > 0 THEN {disk, Garbage} ELSE {}) :
            Becomes([proc EXCEPT !.path = f, !.torn = proc.reading > 0 \/ proc.mixed])
      BY <1>5 DEF Use
    <2> DEFINE q == [proc EXCEPT !.path = f, !.torn = proc.reading > 0 \/ proc.mixed]
    <2>2. proc.main \in {"serving", "wait", "shutdown"}
      BY <1>2, <1>5 DEF Use
    <2>3. proc.reading > 0 => disk \in proc.offered
      BY <1>0 DEF Offering, Process
    <2>4. f \in Paths \cup {NoPath, Garbage}
      BY <1>0, <2>3 DEF Process
    <2>5. q \in Process /\ q.main = proc.main /\ q.task = proc.task
            /\ q.asked = proc.asked /\ q.reading = proc.reading /\ q.offered = proc.offered
      BY <1>0, <2>4 DEF Process
    <2>6. Honest(q)
      BY <1>0, <2>3 DEF Sane, Honest, Process
    <2>7. OneAtATime(q)
      BY <1>0 DEF Sane, OneAtATime, Process
    <2>8. Becomes(q)
      BY <2>1
    <2> HIDE DEF q
    <2>9. Sane(q)
      BY <1>0, <2>2, <2>5, <2>6, <2>7, SameTasks
    <2> QED
      BY <1>0, <2>2, <2>5, <2>8, <2>9, BecomesOK DEF Offering
  <1> QED
    BY <1>3, <1>4, <1>5 DEF Task

LEMMA LifeInit == Init => LifeOK
  <1> SUFFICES ASSUME Init PROVE LifeOK
    OBVIOUS
  <1>1. Sane(proc)
    BY SaneNew DEF Init
  <1>2. proc.main = "config" /\ proc.asked + proc.reading = 0
    BY DEF Init, NewProcess
  <1> QED
    BY <1>1, <1>2, ForksInit, LifecycleAssumption DEF Init, LifeOK, Offering, Detaches, OutsideOK

LEMMA EditOK ==
  ASSUME LifeOK, Edit
  PROVE  LifeOK'
  <1>0. Sane(proc) /\ proc \in Process /\ Offering
    BY DEF LifeOK, Sane
  <1>1. PICK f \in Paths :
          /\ disk' = f
          /\ proc' = IF proc.asked + proc.reading > 0
                     THEN [proc EXCEPT !.offered = @ \cup {f}] ELSE proc
    BY DEF Edit
  <1> DEFINE q == [proc EXCEPT !.offered = @ \cup {f}]
  <1>2. ASSUME proc.asked + proc.reading > 0
        PROVE  Sane(q) /\ f \in q.offered /\ q.main = proc.main
    <2>1. q \in Process /\ q.main = proc.main /\ q.task = proc.task /\ f \in q.offered
      BY <1>0 DEF Process
    <2>2. Honest(q) /\ OneAtATime(q)
      BY <1>0 DEF Sane, Honest, OneAtATime, Process
    <2>3. proc.main # "config"
      BY <1>0, <1>2 DEF Sane, NewProcess
    <2> HIDE DEF q
    <2> QED
      BY <1>0, <2>1, <2>2, <2>3, SameTasks
  <1>3. Sane(proc') /\ proc'.main = proc.main
          /\ (proc'.asked + proc'.reading > 0 => f \in proc'.offered)
    BY <1>0, <1>1, <1>2
  <1>4. Sane(proc)' /\ Offering'
    BY <1>1, <1>3 DEF Sane, Fits, Honest, OneAtATime, Offering
  <1>5. ForksOK' /\ D!Survivors' = D!Survivors
    BY DEF Edit, LifeOK, forks, ForksOK, D!Survivors
  <1> QED
    BY <1>1, <1>3, <1>4, <1>5 DEF Edit, LifeOK, Detaches, OutsideOK

LEMMA LifeStep == LifeOK /\ [Next]_vars => LifeOK'
  <1> SUFFICES ASSUME LifeOK, [Next]_vars PROVE LifeOK'
    OBVIOUS
  <1>1. CASE Restart
    <2>1. Sane(NewProcess) /\ NewProcess.main = "config" /\ proc' = NewProcess /\ ~daemon'
            /\ NewProcess.asked + NewProcess.reading = 0
      BY <1>1, SaneNew DEF Restart, NewProcess, LifeOK
    <2>2. Sane(proc)' /\ Offering'
      BY <2>1 DEF Sane, Fits, Honest, OneAtATime, Offering
    <2>3. ForksOK' /\ OutsideOK'
      BY <1>1, LifecycleAssumption DEF Restart, LifeOK, forks, ForksOK, OutsideOK
    <2> QED
      BY <2>1, <2>2, <2>3 DEF LifeOK, Detaches
  <1>2. CASE UNCHANGED vars
    <2>1. UNCHANGED <<proc, disk, daemon, step, session, open, stream>> /\ OutsideOK'
      BY <1>2 DEF vars, forks, LifeOK, OutsideOK
    <2>2. D!Survivors' = D!Survivors /\ ForksOK' /\ Sane(proc)' /\ Offering'
      BY <2>1 DEF D!Survivors, LifeOK, ForksOK, Sane, Fits, Honest, OneAtATime, Offering
    <2> QED
      BY <2>1, <2>2 DEF LifeOK, Detaches
  <1> QED
    BY <1>1, <1>2, MainOK, InterruptOK, HandlerOK, HangupOK, ReloadOK, TaskOK, EditOK DEF Next

LEMMA LifeAlways == Spec => []LifeOK
  BY LifeInit, LifeStep, PTL DEF Spec

-----------------------------------------------------------------------------
(* Every variable keeps its type.                                          *)
THEOREM LifecycleTypeCorrect == Spec => []TypeOK
  <1>1. LifeOK => TypeOK
    BY LifecycleAssumption DEF LifeOK, Sane, Honest, Process, OutsideOK, TypeOK
  <1> QED
    BY <1>1, LifeAlways, PTL

(* Wherever in the work of however many tasks a signal stops the agent, no *)
(* task runs when the bus it replies on is destroyed.                      *)
THEOREM BusAlwaysOutlivesTasks == Spec => []BusOutlivesTasks
  <1>1. LifeOK => BusOutlivesTasks
    BY DEF LifeOK, Sane, Fits, BusOutlivesTasks, BusAlive, At
  <1> QED
    BY <1>1, LifeAlways, PTL

(* However often the configuration is edited and reloaded, and by whatever *)
(* threads, the file a process stores its groups in is one it was offered, *)
(* unless its path was copied during a reload or after two at once.        *)
THEOREM PathAlwaysOffered == Spec => []PathWasOffered
  <1>1. LifeOK => PathWasOffered
    BY DEF LifeOK, Sane, Honest, PathWasOffered
  <1> QED
    BY <1>1, LifeAlways, PTL

(* With any number of interrupts on any threads: two of them are lost only *)
(* if one came while another was still in its handler.                     *)
THEOREM LostAlwaysOverlapped == Spec => []LostOnlyOverlapped
  <1>1. LifeOK => LostOnlyOverlapped
    BY DEF LifeOK, Sane, OneAtATime, Process, LostOnlyOverlapped
  <1> QED
    BY <1>1, LifeAlways, PTL

(* Wherever a fork fails: what goes on as a daemon is in a session that is *)
(* neither the shell's nor its own to lead, and something goes on.         *)
THEOREM DaemonAlwaysDetached == Spec => []Detached
  <1>1. LifeOK => Detached
    BY ForksGood DEF LifeOK, Detaches, Detached, BusAlive, At
  <1> QED
    BY <1>1, LifeAlways, PTL

(* With any number of descriptors, the daemon has its streams and no other *)
(* file of its parent, but for descriptor 0.                               *)
THEOREM OnlyStreamsAlways == Spec => []OnlyStreams
  <1>1. LifeOK => OnlyStreams
    BY ForksGood DEF LifeOK, OnlyStreams
  <1> QED
    BY <1>1, LifeAlways, PTL
=============================================================================
