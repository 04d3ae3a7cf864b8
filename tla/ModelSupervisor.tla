---------------------------- MODULE ModelSupervisor ----------------------------
(***************************************************************************)
(* The local model server: its runtime is installed when a command of it   *)
(* is missing, the endpoint is probed, the server spawned and watched for  *)
(* an early exit, and stopped with SIGTERM, then SIGKILL.  Others install  *)
(* and remove the runtime, take the endpoint, and the server may not die   *)
(* in time.                                                                *)
(***************************************************************************)
EXTENDS Integers, FiniteSets

CONSTANTS
  Servers,     \* processes the supervisor may ever spawn
  NoServer,
  RunModes     \* [auto_install, upgrade, dry_run] of a call

VARIABLES
  serving,          \* the call in progress
  runMode,
  runtime,     \* what of the runtime is there
  server,      \* of each process: "new", "live", "dying" (has had SIGTERM), "killed" or "dead"
  process,     \* the supervisor's _process
  left,        \* the servers of supervisors that are gone
  endpoint,    \* who answers there
  reply

superVars == <<serving, runMode, runtime, server, process, left, endpoint, reply>>

ASSUME NoServerIsNone == NoServer \notin Servers

RunningServers == {s \in Servers : server[s] \in {"live", "dying", "killed"}}
IsRunning == process # NoServer /\ process \in RunningServers

NoMode == [auto_install |-> FALSE, upgrade |-> FALSE, dry_run |-> FALSE]

SuperInit ==
  /\ serving = "idle"
  /\ runMode = NoMode
  /\ runtime = "missing"
  /\ server = [s \in Servers |-> "new"]
  /\ process = NoServer
  /\ left = {}
  /\ endpoint = "closed"
  /\ reply = "none"

\* The call goes on, or has its answer.
Proceed(next, m) == serving' = next /\ runMode' = m /\ reply' = "none"
Answer(r) == serving' = "idle" /\ runMode' = NoMode /\ reply' = r

-----------------------------------------------------------------------------
\* A missing runtime is installed, unless nothing is to be changed.  (An upgrade that is asked
\* for is made in a dry run, too.)
Incomplete(m) == m.upgrade \/ runtime # "commands"
Installs(m) == m.auto_install /\ (~m.dry_run \/ m.upgrade) /\ Incomplete(m)

Serve ==
  /\ serving = "idle"
  /\ \E m \in RunModes :
       \/ Installs(m) /\ Proceed(IF runtime = "missing" THEN "setup" ELSE "install", m)
       \/ ~Installs(m) /\ ~m.dry_run /\ Proceed("start", m)
       \/ ~Installs(m) /\ m.dry_run /\ Answer("dry_run")
  /\ UNCHANGED <<runtime, server, process, left, endpoint>>

\* The environment is made; a command fails or runs into its timeout, having done its work or not.
Setup ==
  /\ serving = "setup"
  /\ \/ runtime' = "environment" /\ Proceed("install", runMode)
     \/ runtime' \in {runtime, "environment"} /\ Answer("bootstrap_failed")
  /\ UNCHANGED <<server, process, left, endpoint>>

Install ==
  /\ serving = "install"
  /\ \/ /\ runtime' = "commands"
        /\ \/ runMode.dry_run /\ Answer("dry_run")
           \/ ~runMode.dry_run /\ Proceed("start", runMode)
     \/ runtime' \in {runtime, "commands"} /\ Answer("bootstrap_failed")
  /\ UNCHANGED <<server, process, left, endpoint>>

\* One that runs is not started again.  Then the endpoint is asked: whatever answers takes it,
\* the model that is wanted is as good as started.
Start ==
  /\ serving = "start"
  /\ \/ (IsRunning \/ endpoint = "model") /\ Answer("already_running")
     \/ ~IsRunning /\ endpoint = "other" /\ Answer("endpoint_in_use")
     \/ ~IsRunning /\ endpoint = "closed" /\ Proceed("spawn", runMode)
  /\ UNCHANGED <<runtime, server, process, left, endpoint>>

Spawn ==
  /\ serving = "spawn"
  /\ \/ /\ runtime = "commands"
        /\ \E s \in Servers :
             /\ server[s] = "new"
             /\ server' = [server EXCEPT ![s] = "live"]
             /\ process' = s
        /\ Proceed("observe", runMode)
     \/ Answer("binary_not_found") /\ UNCHANGED <<server, process>>
  /\ UNCHANGED <<runtime, left, endpoint>>

\* For a short time it is watched whether the process stays.
Observe ==
  /\ serving = "observe"
  /\ \/ IsRunning /\ Answer("started") /\ UNCHANGED process
     \/ ~IsRunning /\ Answer("process_exited") /\ process' = NoServer
  /\ UNCHANGED <<runtime, server, left, endpoint>>

Stop ==
  /\ serving = "idle"
  /\ \/ process = NoServer /\ Answer("not_stopped") /\ UNCHANGED <<server, process>>
     \/ process # NoServer /\ ~IsRunning /\ Answer("stopped") /\ process' = NoServer /\ UNCHANGED server
     \/ /\ IsRunning
        /\ server' = [server EXCEPT ![process] = "dying"]
        /\ Proceed("term", NoMode) /\ UNCHANGED process
  /\ UNCHANGED <<runtime, left, endpoint>>

WaitTerm ==
  /\ serving = "term"
  /\ \/ /\ IsRunning
        /\ server' = [server EXCEPT ![process] = "killed"]
        /\ Proceed("kill", NoMode) /\ UNCHANGED process
     \/ ~IsRunning /\ Answer("stopped") /\ process' = NoServer /\ UNCHANGED server
  /\ UNCHANGED <<runtime, left, endpoint>>

BugWaitKill ==
  /\ serving = "kill"
  /\ Answer("stopped") /\ process' = NoServer
  /\ UNCHANGED <<runtime, server, left, endpoint>>

\* The second wait may run into its timeout as well, and raises.
WaitKill ==
  /\ serving = "kill"
  /\ \/ IsRunning /\ Answer("timeout") /\ UNCHANGED process
     \/ ~IsRunning /\ Answer("stopped") /\ process' = NoServer
  /\ UNCHANGED <<runtime, server, left, endpoint>>

\* The process of the supervisor ends, as the command line does when it has answered; the
\* server, in a session of its own, goes on.
SupervisorLeaves ==
  /\ left' = left \cup ({process} \cap RunningServers)
  /\ process' = NoServer
  /\ Answer("none")
  /\ UNCHANGED <<runtime, server, endpoint>>

-----------------------------------------------------------------------------
ServerDies ==
  /\ \E s \in RunningServers :
       /\ server' = [server EXCEPT ![s] = "dead"]
       /\ endpoint' \in {endpoint, "closed"}
  /\ UNCHANGED <<serving, runMode, runtime, process, reply, left>>

\* A server, ours or not, begins or ends to listen.
Listen ==
  /\ endpoint' \in {"closed", "other"} \cup {e \in {"model"} : RunningServers # {}}
  /\ UNCHANGED <<serving, runMode, runtime, server, process, reply, left>>

\* Somebody removes the runtime.
Remove ==
  /\ runtime' = "missing"
  /\ UNCHANGED <<serving, runMode, server, process, endpoint, reply, left>>

SuperNext ==
  \/ Serve \/ Setup \/ Install \/ Start \/ Spawn \/ Observe \/ Stop \/ WaitTerm \/ WaitKill
  \/ SupervisorLeaves \/ ServerDies \/ Listen \/ Remove
SuperSpec == SuperInit /\ [][SuperNext]_superVars

-----------------------------------------------------------------------------
SuperTypeOK ==
  /\ process \in Servers \cup {NoServer}
  /\ runtime \in {"missing", "environment", "commands"}
  /\ endpoint \in {"closed", "model", "other"}

\* A server that runs is the one that its supervisor knows, also when it has outlived SIGTERM
\* and SIGKILL, or the supervisor is gone: a supervisor never has a second one, and when it
\* says that the server has stopped, it has.
OneKnownServer ==
  /\ RunningServers \subseteq {process} \cup left
  /\ reply = "stopped" => RunningServers \subseteq left
=============================================================================
