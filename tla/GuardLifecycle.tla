--------------------------- MODULE GuardLifecycle ---------------------------
(***************************************************************************)
(* The guard daemon and the sessions that share it.  A session starts the  *)
(* daemon unless the pidfile names a live one, touches the heartbeat after *)
(* every tool call, and stops the daemon when it ends.  Start and stop     *)
(* hold a lifecycle lock.  The daemon takes no lock: when the heartbeat is *)
(* older than its TTL it unlinks the pidfile and exits.                    *)
(*                                                                         *)
(* Processes die, and their pids are used again, by processes that are no  *)
(* daemons.  A pidfile is all that one session knows of another's daemon.  *)
(***************************************************************************)
EXTENDS Integers

CONSTANTS
  Pids,
  Clients,    \* sessions of the host agent, each starting again and again
  None,       \* no process, no file
  Ttl,        \* the idle TTL, in ticks
  Beats,      \* the ages that the heartbeat may have at first
  MaxFaults   \* bound on killed sessions, failed publications and crashed daemons

ASSUME NoneIsNoPid == None \notin Pids \cup Clients \cup Int
ASSUME TtlType == Ttl \in Nat
ASSUME BeatsType == Beats \subseteq 0 .. Ttl + 1 \cup {None}
ASSUME MaxFaultsType == MaxFaults \in Nat

VARIABLES
  proc,      \* what runs under each pid
  age,       \* ticks since it was started; more than Ttl is Ttl + 1
  pidfile,   \* guard_daemon.pid
  beat,      \* ticks since the heartbeat was touched
  lock,      \* the session that holds the lifecycle lock
  pc,        \* where each session is
  child,     \* the process that its start has spawned
  seen,      \* the process that its stop has verified; None when that has died
  torn,      \* history: a session was killed between Popen and the pidfile
  faults

vars == <<proc, age, pidfile, beat, lock, pc, child, seen, torn, faults>>
procVars == <<proc, age>>
clientVars == <<child, seen, torn>>

Ages == 0 .. Ttl + 1
Live == {"up", "leaving"}
Starting == {"publish", "beat", "rollback"}
Critical == Starting \cup {"spawn", "term", "wait"}
PCs == Critical \cup {"idle", "start", "started", "in", "stop"}

TypeOK ==
  /\ proc \in [Pids -> Live \cup {"none", "dying", "other"}]
  /\ age \in [Pids -> Ages]
  /\ pidfile \in Pids \cup {None}
  /\ beat \in Ages \cup {None}
  /\ lock \in Clients \cup {None}
  /\ pc \in [Clients -> PCs]
  /\ child \in [Clients -> Pids \cup {None}]
  /\ seen \in [Clients -> Pids \cup {None}]
  /\ torn \in BOOLEAN
  /\ faults \in 0 .. MaxFaults

-----------------------------------------------------------------------------
\* A definition whose name starts with Bug is a slip the code could have had; it is not
\* part of the model.

Init ==
  /\ proc = [p \in Pids |-> "none"]
  /\ age = [p \in Pids |-> 0]
  /\ pidfile = None
  /\ beat \in Beats
  /\ lock = None
  /\ pc = [c \in Clients |-> "idle"]
  /\ child = [c \in Clients |-> None]
  /\ seen = [c \in Clients |-> None]
  /\ torn = FALSE
  /\ faults = 0

Go(c, to) == pc' = [pc EXCEPT ![c] = to]
Fault == faults < MaxFaults /\ faults' = faults + 1
Become(p, state) == proc' = [proc EXCEPT ![p] = state] /\ UNCHANGED age

\* Any process counts.
BugIsOurDaemon(p) == p # None /\ proc[p] # "none"

\* _is_our_daemon looks at the command line; a process that is being killed still has one.
IsOurDaemon(p) == p # None /\ proc[p] \in Live \cup {"dying"}

-----------------------------------------------------------------------------
(* Sessions. *)

\* on_session_start
Start(c) ==
  /\ pc[c] = "idle"
  /\ Go(c, "start")
  /\ UNCHANGED <<procVars, pidfile, beat, lock, clientVars, faults>>

\* The check is made before the lock is taken.
BugStatus(c) ==
  /\ pc[c] = "start"
  /\ IF IsOurDaemon(pidfile) THEN Go(c, "started") /\ UNCHANGED lock
     ELSE Go(c, "spawn") /\ lock' = c
  /\ UNCHANGED <<procVars, pidfile, beat, clientVars, faults>>

\* start_daemon takes the lock; a daemon that runs is a success.
Status(c) ==
  /\ pc[c] = "start" /\ lock = None
  /\ IF IsOurDaemon(pidfile) THEN Go(c, "started") /\ UNCHANGED lock
     ELSE Go(c, "spawn") /\ lock' = c
  /\ UNCHANGED <<procVars, pidfile, beat, clientVars, faults>>

\* A pid is free when its process is gone and was waited for.
FreePids == {p \in Pids : proc[p] = "none" /\ \A c \in Clients : child[c] # p}

Spawn(c) ==
  /\ pc[c] = "spawn"
  /\ \E p \in FreePids :
       /\ proc' = [proc EXCEPT ![p] = "up"]
       /\ age' = [age EXCEPT ![p] = 0]
       /\ child' = [child EXCEPT ![c] = p]
  /\ Go(c, "publish")
  /\ UNCHANGED <<pidfile, beat, lock, seen, torn, faults>>

\* The pidfile gets the pid of the writer.
BugWritePidfile(c) ==
  /\ pc[c] = "publish"
  /\ pidfile' = c
  /\ Go(c, "beat")
  /\ UNCHANGED <<procVars, beat, lock, clientVars, faults>>

WritePidfile(c) ==
  /\ pc[c] = "publish"
  /\ pidfile' = child[c]
  /\ Go(c, "beat")
  /\ UNCHANGED <<procVars, beat, lock, clientVars, faults>>

FirstBeat(c) ==
  /\ pc[c] = "beat"
  /\ beat' = 0
  /\ child' = [child EXCEPT ![c] = None]
  /\ lock' = None
  /\ Go(c, "started")
  /\ UNCHANGED <<procVars, pidfile, seen, torn, faults>>

\* Writing the pidfile or touching the heartbeat raises: the child is signalled.
PublishFails(c) ==
  /\ pc[c] \in {"publish", "beat"}
  /\ Fault
  /\ pidfile' \in IF pc[c] = "publish" THEN {pidfile, None} ELSE {pidfile}
  /\ IF proc[child[c]] \in Live THEN Become(child[c], "dying") ELSE UNCHANGED procVars
  /\ Go(c, "rollback")
  /\ UNCHANGED <<beat, lock, clientVars>>

\* When the child is gone, or has not gone in time, its pidfile is dropped.
Rollback(c) ==
  /\ pc[c] = "rollback"
  /\ pidfile' = IF pidfile = child[c] THEN None ELSE pidfile
  /\ child' = [child EXCEPT ![c] = None]
  /\ lock' = None
  /\ Go(c, "idle")
  /\ UNCHANGED <<procVars, beat, seen, torn, faults>>

\* touch_heartbeat, at the end of on_session_start and in every post_tool_call.
Touch(c) ==
  /\ pc[c] \in {"started", "in"}
  /\ beat' = 0
  /\ Go(c, "in")
  /\ UNCHANGED <<procVars, pidfile, lock, clientVars, faults>>

\* on_session_end
End(c) ==
  /\ pc[c] = "in"
  /\ Go(c, "stop")
  /\ UNCHANGED <<procVars, pidfile, beat, lock, clientVars, faults>>

\* stop_daemon does not take the lock.
BugVerify(c) ==
  /\ pc[c] = "stop"
  /\ IF IsOurDaemon(pidfile)
     THEN /\ seen' = [seen EXCEPT ![c] = pidfile] /\ UNCHANGED <<pidfile, lock>>
          /\ Go(c, "term")
     ELSE pidfile' = None /\ Go(c, "idle") /\ UNCHANGED <<seen, lock>>
  /\ UNCHANGED <<procVars, beat, child, torn, faults>>

\* stop_daemon takes the lock; a pidfile that names no daemon is dropped.
Verify(c) ==
  /\ pc[c] = "stop" /\ lock = None
  /\ IF IsOurDaemon(pidfile)
     THEN /\ seen' = [seen EXCEPT ![c] = pidfile] /\ UNCHANGED pidfile
          /\ lock' = c /\ Go(c, "term")
     ELSE pidfile' = None /\ Go(c, "idle") /\ UNCHANGED <<seen, lock>>
  /\ UNCHANGED <<procVars, beat, child, torn, faults>>

\* The recheck, and the signal to the process that was verified.
Terminate(c) ==
  /\ pc[c] = "term"
  /\ IF seen[c] = None
     THEN pidfile' = None /\ lock' = None /\ Go(c, "idle") /\ UNCHANGED procVars
     ELSE Become(seen[c], "dying") /\ Go(c, "wait") /\ UNCHANGED <<pidfile, lock>>
  /\ UNCHANGED <<beat, clientVars, faults>>

\* The process has gone, or has not and is sent SIGKILL.
Stopped(c) ==
  /\ pc[c] = "wait"
  /\ pidfile' = None
  /\ seen' = [seen EXCEPT ![c] = None]
  /\ lock' = None
  /\ Go(c, "idle")
  /\ UNCHANGED <<procVars, beat, child, torn, faults>>

\* SIGKILL: the kernel frees the lock; the daemon has a session of its own and survives.
Kill(c) ==
  /\ pc[c] # "idle"
  /\ Fault
  /\ torn' = (torn \/ pc[c] = "publish")
  /\ child' = [child EXCEPT ![c] = None]
  /\ seen' = [seen EXCEPT ![c] = None]
  /\ lock' = IF lock = c THEN None ELSE lock
  /\ Go(c, "idle")
  /\ UNCHANGED <<procVars, pidfile, beat>>

-----------------------------------------------------------------------------
(* Daemons and other processes. *)

Forget(p) == seen' = [c \in Clients |-> IF seen[c] = p THEN None ELSE seen[c]]

\* Without a heartbeat a daemon is never idle.
BugIdleFor(p) == IF beat = None THEN 0 ELSE beat

IdleFor(p) == IF beat = None THEN age[p] ELSE beat

\* The daemon finds that it is idle ...
Idle(p) ==
  /\ proc[p] = "up" /\ IdleFor(p) > Ttl
  /\ Become(p, "leaving")
  /\ UNCHANGED <<pidfile, beat, lock, pc, clientVars, faults>>

\* ... unlinks the pidfile, whatever it says, and exits.
Leave(p) ==
  /\ proc[p] = "leaving"
  /\ Become(p, "none")
  /\ pidfile' = None
  /\ Forget(p)
  /\ UNCHANGED <<beat, lock, pc, child, torn, faults>>

\* It cannot publish its state: the Python host unlinks the pidfile, the Rust one does
\* not; nor does a daemon that crashes.
DaemonFails(p) ==
  /\ proc[p] \in Live
  /\ Fault
  /\ Become(p, "none")
  /\ pidfile' \in {pidfile, None}
  /\ Forget(p)
  /\ UNCHANGED <<beat, lock, pc, child, torn>>

\* A signalled daemon, which handles no signal, dies.
Die(p) ==
  /\ proc[p] = "dying"
  /\ Become(p, "none")
  /\ Forget(p)
  /\ UNCHANGED <<pidfile, beat, lock, pc, child, torn, faults>>

OtherStarts(p) ==
  /\ p \in FreePids
  /\ Become(p, "other")
  /\ UNCHANGED <<pidfile, beat, lock, pc, clientVars, faults>>

OtherExits(p) ==
  /\ proc[p] = "other"
  /\ Become(p, "none")
  /\ UNCHANGED <<pidfile, beat, lock, pc, clientVars, faults>>

Older(n) == IF n > Ttl THEN n ELSE n + 1

Tick ==
  /\ age' = [p \in Pids |-> IF proc[p] = "up" THEN Older(age[p]) ELSE age[p]]
  /\ beat' = IF beat = None THEN None ELSE Older(beat)
  /\ UNCHANGED <<proc, pidfile, lock, pc, clientVars, faults>>

-----------------------------------------------------------------------------
Session(c) ==
  \/ Start(c) \/ Status(c) \/ Spawn(c) \/ WritePidfile(c) \/ FirstBeat(c)
  \/ PublishFails(c) \/ Rollback(c) \/ Touch(c)
  \/ End(c) \/ Verify(c) \/ Terminate(c) \/ Stopped(c) \/ Kill(c)

Daemon(p) == Idle(p) \/ Leave(p) \/ DaemonFails(p) \/ Die(p)

Next ==
  \/ \E c \in Clients : Session(c)
  \/ \E p \in Pids : Daemon(p) \/ OtherStarts(p) \/ OtherExits(p)
  \/ Tick

Spec == Init /\ [][Next]_vars

\* Time passes, a daemon looks at the heartbeat on every tick of its loop, and one that
\* leaves or was signalled goes.
FairSpec ==
  Spec /\ WF_vars(Tick) /\ \A p \in Pids : WF_vars(Idle(p)) /\ WF_vars(Leave(p)) /\ WF_vars(Die(p))

-----------------------------------------------------------------------------
(* Properties. *)

\* A live daemon is named by the pidfile, so that it can be found and stopped, or its
\* starter is about to write it; unless a starter was killed in between, after which an
\* idle daemon may unlink the pidfile of another.
Tracked ==
  ~torn => \A p \in Pids : proc[p] \in Live =>
             p = pidfile \/ \E c \in Clients : pc[c] = "publish" /\ child[c] = p

\* Sessions that start at the same time, or while another stops, or while the daemon
\* leaves, do not start two daemons.
OneDaemon ==
  ~torn => \A p, q \in Pids : proc[p] \in Live /\ proc[q] \in Live => p = q

\* Only guard daemons are signalled, although the pid in an old pidfile may belong to
\* another process by now.
SignalsOnlyDaemons == [][\A p \in Pids : proc[p] = "other" => proc'[p] # "dying"]_vars

\* When no session is active any more every daemon exits, those that no pidfile names
\* and those that never saw a heartbeat among them.
Quiet == \A c \in Clients : pc[c] = "idle"
NoImmortalDaemon == <>[]Quiet => <>[](\A p \in Pids : proc[p] \notin Live \cup {"dying"})

\* The daemon that is stopped at a session's end is an orphan: no session is left that
\* it watches.
OnlyOrphansStopped ==
  [][\A c \in Clients : pc[c] = "term" /\ pc'[c] = "wait" => \A d \in Clients : pc[d] # "in"]_vars
=============================================================================
