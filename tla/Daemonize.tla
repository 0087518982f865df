------------------------------- MODULE Daemonize -------------------------------
(***************************************************************************)
(* Daemon::daemonize (server/src/lib/daemon.cpp), which main calls for the *)
(* option --daemon: two forks with a new session between them, and the     *)
(* descriptors of the process that is left.  Lifecycle.tla has these steps *)
(* between the configuration and the start of the server.                  *)
(***************************************************************************)
EXTENDS Naturals

(* The largest descriptor is _SC_OPEN_MAX of the code: a limit that was     *)
(* lowered below an open descriptor, or is not known (-1), is left out.     *)
CONSTANTS MaxFd

NoFd == MaxFd + 1

Pids == 1 .. 3   \* the process, its child and its grandchild

VARIABLES step,     \* how far each process is in daemonize
          session,  \* the session of each process; 0 is the one of the shell
          open,     \* the open descriptors, which a child inherits
          stream    \* the descriptor behind stdin, stdout and stderr

vars == <<step, session, open, stream>>

Init ==
  /\ step = [p \in Pids |-> IF p = 1 THEN "first" ELSE "none"]
  /\ session = [p \in Pids |-> 0]
  /\ open \in SUBSET (0 .. MaxFd)
  /\ stream = [i \in 1 .. 3 |-> IF i - 1 \in open THEN i - 1 ELSE NoFd]

-----------------------------------------------------------------------------
\* doFork: the child goes on, the parent exits, or fork fails and it exits too.
Fork(p, child) ==
  /\ step' = [step EXCEPT ![p] = "exited", ![p + 1] = child]
  /\ session' = [session EXCEPT ![p + 1] = session[p]]
  /\ UNCHANGED <<open, stream>>

ForkFails(p) ==
  /\ step[p] \in {"first", "second"}
  /\ step' = [step EXCEPT ![p] = "exited"]
  /\ UNCHANGED <<session, open, stream>>

First(p) == step[p] = "first" /\ Fork(p, "setsid")

\* The child of a fork leads no group, so setsid does not fail.
SetSid(p) ==
  /\ step[p] = "setsid"
  /\ session' = [session EXCEPT ![p] = p]
  /\ step' = [step EXCEPT ![p] = "second"]
  /\ UNCHANGED <<open, stream>>

\* Mutant: one fork is taken to be enough.
Second_Stays(p) ==
  /\ step[p] = "second"
  /\ step' = [step EXCEPT ![p] = "close"]
  /\ UNCHANGED <<session, open, stream>>

Second(p) == step[p] = "second" /\ Fork(p, "close")

\* Mutant: the loop starts one descriptor too low.
Close_BelowMax(p) ==
  /\ step[p] = "close"
  /\ open' = open \cap {0, MaxFd}
  /\ step' = [step EXCEPT ![p] = "reopen"]
  /\ UNCHANGED <<session, stream>>

\* The loop runs while fd > 0.
Close(p) ==
  /\ step[p] = "close"
  /\ open' = open \cap {0}
  /\ step' = [step EXCEPT ![p] = "reopen"]
  /\ UNCHANGED <<session, stream>>

\* fopen takes the smallest descriptor that is free, three times.
Reopen(p) ==
  /\ step[p] = "reopen"
  /\ LET first == IF 0 \in open THEN 1 ELSE 0 IN
     /\ open' = open \cup (first .. first + 2)
     /\ stream' = [i \in 1 .. 3 |-> first + i - 1]
  /\ step' = [step EXCEPT ![p] = "done"]
  /\ UNCHANGED session

Next == \E p \in Pids :
  First(p) \/ SetSid(p) \/ Second(p) \/ ForkFails(p) \/ Close(p) \/ Reopen(p)

Spec == Init /\ [][Next]_vars

\* None of the processes is left.
Gone == \A p \in Pids : step[p] \in {"none", "exited"}

-----------------------------------------------------------------------------
Survivors == {p \in Pids : step[p] = "done"}

(* The process that goes on has left the session of the shell and leads    *)
(* none, so that no terminal it opens becomes its controlling terminal.    *)
Detached == \A p \in Survivors : session[p] # 0 /\ session[p] # p

(* The agent goes on with the three standard streams and no other file,    *)
(* apart from the descriptor 0 it was started with.                        *)
OnlyStreams == Survivors # {} => open \ {0} \subseteq {stream[i] : i \in 1 .. 3}
=============================================================================
