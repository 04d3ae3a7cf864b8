----------------------------- MODULE QueueBridge -----------------------------
(***************************************************************************)
(* How a command reaches the dispatch store: in this process by the native *)
(* engine or in Python, or in a child process.  A child that does not      *)
(* answer in time is killed, with its work done or not, and the command is *)
(* run once more in Python.                                                *)
(*                                                                         *)
(* Left out: the clock.  All calls are within one lease.                   *)
(***************************************************************************)
EXTENDS DispatchBundle

CONSTANTS
  Callers,
  Commands,      \* the requests they make
  Backends,      \* of the callers' environments; "forced" is a child process and nothing else
  FirstFiles     \* what may be at the path before

\* The bundle that the planner makes always names its owner.
ASSUME CommandsType ==
  Commands \subseteq Requests /\ \A r \in Commands : r.op = "persist" => r.owner # NoOwner
ASSUME FirstFilesType == FirstFiles \subseteq Files

VARIABLES
  bridgeFile,
  bridgeCalls,   \* of each caller: where it is, its command, its backend
  child,         \* what its child process is to do, and has done
  answers        \* of the child that was killed, and the last one that the caller has got

bridgeVars == <<bridgeFile, bridgeCalls, child, answers>>

NoCommand == [at |-> "idle"]
NoChild == [done |-> FALSE, command |-> NoCommand]
NoAnswer == [kind |-> "none"]
Nothing == [lost |-> NoAnswer, got |-> NoAnswer]

BridgeInit ==
  /\ bridgeFile \in FirstFiles
  /\ bridgeCalls = [c \in Callers |-> NoCommand]
  /\ child = [c \in Callers |-> NoChild]
  /\ answers = [c \in Callers |-> Nothing]

Invoke(c) ==
  /\ bridgeCalls[c] = NoCommand
  /\ \E r \in Commands, b \in Backends :
       IF b \in {"subprocess", "forced"}
       THEN /\ bridgeCalls' = [bridgeCalls EXCEPT ![c] = [at |-> "child", command |-> r, backend |-> b]]
            /\ child' = [child EXCEPT ![c] = [done |-> FALSE, command |-> r]]
       ELSE /\ bridgeCalls' = [bridgeCalls EXCEPT ![c] = [at |-> "here", command |-> r, backend |-> b]]
            /\ UNCHANGED child
  /\ answers' = [answers EXCEPT ![c] = Nothing]
  /\ UNCHANGED bridgeFile

\* The operation of the store, by whichever engine.
Work(r) == Outcomes(r, bridgeFile, 0)

ChildWorks(c) ==
  /\ child[c] # NoChild /\ ~child[c].done
  /\ \E o \in Work(child[c].command) :
       /\ bridgeFile' = o.file
       /\ answers' = [answers EXCEPT ![c].lost = o.reply]
  /\ child' = [child EXCEPT ![c].done = TRUE]
  /\ UNCHANGED bridgeCalls

ChildAnswers(c) ==
  /\ bridgeCalls[c].at = "child" /\ child[c].done
  /\ answers' = [answers EXCEPT ![c] = [lost |-> NoAnswer, got |-> answers[c].lost]]
  /\ child' = [child EXCEPT ![c] = NoChild]
  /\ bridgeCalls' = [bridgeCalls EXCEPT ![c] = NoCommand]
  /\ UNCHANGED bridgeFile

BugTimeout(c) ==
  /\ bridgeCalls[c].at = "child"
  /\ bridgeCalls' = [bridgeCalls EXCEPT ![c].at = "here"]
  /\ UNCHANGED <<bridgeFile, child, answers>>

\* Without the other backends the timeout is the answer.
Timeout(c) ==
  /\ bridgeCalls[c].at = "child"
  /\ child' = [child EXCEPT ![c] = NoChild]
  /\ IF bridgeCalls[c].backend = "forced"
     THEN /\ bridgeCalls' = [bridgeCalls EXCEPT ![c] = NoCommand]
          /\ answers' = [answers EXCEPT ![c] = [lost |-> NoAnswer, got |-> [kind |-> "timeout"]]]
     ELSE /\ bridgeCalls' = [bridgeCalls EXCEPT ![c].at = "here"]
          /\ UNCHANGED answers
  /\ UNCHANGED bridgeFile

RunHere(c) ==
  /\ bridgeCalls[c].at = "here"
  /\ \E o \in Work(bridgeCalls[c].command) :
       /\ bridgeFile' = o.file
       /\ answers' = [answers EXCEPT ![c].got = o.reply]
  /\ bridgeCalls' = [bridgeCalls EXCEPT ![c] = NoCommand]
  /\ UNCHANGED child

BridgeNext ==
  \E c \in Callers : Invoke(c) \/ ChildWorks(c) \/ ChildAnswers(c) \/ Timeout(c) \/ RunHere(c)
BridgeSpec == BridgeInit /\ [][BridgeNext]_bridgeVars

-----------------------------------------------------------------------------
BridgeTypeOK ==
  /\ bridgeFile \in Files
  /\ \A c \in Callers : bridgeCalls[c].at \in {"idle", "child", "here"}

\* What the two runs of a command, the one whose answer was lost and the other, must agree on.
Agrees(lost, got) ==
  LET final == lost.kind \in {"recorded", "already_recorded"} /\ lost.status \in Terminal
  IN  /\ lost.kind \in {"stored", "idempotent"} => got.kind = "idempotent"
      /\ lost.kind \in {"refused", "briefing"} \/ final => got = lost

\* A command that was run twice, because the answer of the first run was lost, gives the
\* answer of the first run, whatever others have done to the bundle in between: a bundle that
\* was stored is found stored, a refusal stands, a final result stays recorded, a briefing is
\* the same one.  (Not so for a step that was handed out, which nobody knows of any more.)
RerunAgrees ==
  \A c \in Callers :
    bridgeCalls[c] = NoCommand => Agrees(answers[c].lost, answers[c].got)
=============================================================================
