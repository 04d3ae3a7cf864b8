------------------------------ MODULE LoopAuto ------------------------------
(***************************************************************************)
(* run_loop_auto: workers that drain one stored bundle.  A worker claims   *)
(* the next step, runs its prompt in a subprocess until the segment is     *)
(* complete or the retries or the time are used up, records the result,    *)
(* and, when nothing is left to claim, asks for the briefing and runs it.  *)
(*                                                                         *)
(* The store is the atomic one that DispatchStore is proved to implement.  *)
(* Its operations, the subprocess and the worker itself may fail at any    *)
(* point; a fault costs one of MaxFaults.                                  *)
(***************************************************************************)
EXTENDS DispatchBundle

CONSTANTS
  Workers,        \* processes executing run_loop_auto on the bundle, one run after another
  Nobody,
  Stored0,        \* the bundles that may have been stored
  Timeout,        \* timeout_seconds: of a run's loop, and of every subprocess
  MaxRetries,     \* max_segment_retries
  MaxIterations,  \* max_iterations
  MaxTime,        \* bound on the clock
  MaxFaults,      \* bound on kills, interrupts and store errors
  LastFault       \* bound on their time

ASSUME NobodyIsNoWorker == Nobody \notin Workers
ASSUME Stored0Type == Stored0 \subseteq Bundles
ASSUME LimitsType == {Timeout, MaxRetries, MaxIterations, MaxTime, MaxFaults, LastFault} \subseteq Nat

VARIABLES
  disk,       \* the bundle
  now,        \* the clock
  faults,     \* how many faults have occurred
  pc,         \* where each worker is
  deadline,   \* when the run's loop ends
  since,      \* when the subprocess it waits for was started
  step,       \* the step it works on
  attempts,   \* how often it ran that step's prompt
  iterations, \* how many steps it took up
  prev,       \* the signature of the previous step: how many were open, and which it was
  reported,   \* the steps its result will report as succeeded or failed
  status,     \* the status of the last run's result
  holder      \* history: the worker whose claim of the step was the last

vars == <<disk, now, faults, pc, deadline, since, step, attempts, iterations, prev,
          reported, status, holder>>
loopVars == <<deadline, iterations, prev>>
taskVars == <<step, attempts>>

OnStep == {"attempt", "running", "succeed", "fail", "release"}
InSubprocess == {"running", "briefing"}
PCs == OnStep \cup {"idle", "claim", "brief", "briefing"}

\* "loop_error" is the result of any exception on a step that was released, the store's own
\* dispatch_error among them; "error", that of one whose step could not be released;
\* "killed" and "none" stand for no result.
Unclean == {"killed", "error", "dispatch_error", "iteration_cap_exceeded"}
Statuses == Unclean \cup {"none", "no_progress", "loop_error", "segment_failed", "briefing_not_ready",
                          "briefing_failed", "complete", "complete_unmarked"}

TypeOK ==
  /\ disk \in Bundles
  /\ now \in 0 .. MaxTime
  /\ faults \in 0 .. MaxFaults
  /\ pc \in [Workers -> PCs]
  /\ deadline \in [Workers -> Nat]
  /\ since \in [Workers -> 0 .. MaxTime]
  /\ step \in [Workers -> StepIds \cup {0}]
  /\ attempts \in [Workers -> 0 .. MaxRetries + 1]
  /\ iterations \in [Workers -> 0 .. MaxIterations]
  /\ prev \in [Workers -> Nat \X (StepIds \cup {0})]
  /\ reported \in [Workers -> SUBSET StepIds]
  /\ status \in [Workers -> Statuses]
  /\ holder \in [StepIds -> Workers \cup {Nobody}]

-----------------------------------------------------------------------------
\* A definition whose name starts with Bug is a slip the code could have had; it is not
\* part of the model.

Init ==
  /\ disk \in Stored0
  /\ now = 0
  /\ faults = 0
  /\ pc = [w \in Workers |-> "idle"]
  /\ deadline = [w \in Workers |-> 0]
  /\ since = [w \in Workers |-> 0]
  /\ step = [w \in Workers |-> 0]
  /\ attempts = [w \in Workers |-> 0]
  /\ iterations = [w \in Workers |-> 0]
  /\ prev = [w \in Workers |-> <<0, 0>>]
  /\ reported = [w \in Workers |-> {}]
  /\ status = [w \in Workers |-> "none"]
  /\ holder = [i \in StepIds |-> Nobody]

Go(w, to) == pc' = [pc EXCEPT ![w] = to] /\ UNCHANGED status

\* The run returns a result (or the process ends).
Finish(w, s) == pc' = [pc EXCEPT ![w] = "idle"] /\ status' = [status EXCEPT ![w] = s]

Fault == faults < MaxFaults /\ now <= LastFault /\ faults' = faults + 1
NoFault == UNCHANGED faults

Start(w) ==
  /\ pc[w] = "idle"
  /\ deadline' = [deadline EXCEPT ![w] = now + Timeout]
  /\ iterations' = [iterations EXCEPT ![w] = 0]
  /\ prev' = [prev EXCEPT ![w] = <<0, 0>>]
  /\ reported' = [reported EXCEPT ![w] = {}]
  /\ pc' = [pc EXCEPT ![w] = "claim"]
  /\ status' = [status EXCEPT ![w] = "none"]
  /\ holder' = [i \in StepIds |-> IF holder[i] = w THEN Nobody ELSE holder[i]]
  /\ UNCHANGED <<disk, now, faults, since, taskVars>>

\* The loop ends: its time is over, or nothing is left to claim.
LeaveLoop(w) ==
  /\ pc[w] = "claim"
  /\ now >= deadline[w] \/ Claimable(disk, now) = {}
  /\ Go(w, "brief")
  /\ UNCHANGED <<disk, now, faults, since, loopVars, taskVars, reported, holder>>

\* The signature compares the whole payload of the step: a bundle's steps differ.
Signature(a) == <<a.remaining, a.step>>

\* next_dispatch_step hands out a step.  The loop gives up a step it has just claimed
\* when it has taken up too many, or when nothing has changed since the last one.
Claims(w) ==
  /\ pc[w] = "claim" /\ now < deadline[w]
  /\ \E o \in Outcomes([op |-> "next", at |-> now], disk, now) :
       /\ o.reply.kind = "handed"
       /\ disk' = o.file
       /\ holder' = [holder EXCEPT ![o.reply.step] = w]
       /\ IF iterations[w] >= MaxIterations
          THEN Finish(w, "iteration_cap_exceeded") /\ UNCHANGED <<taskVars, loopVars>>
          ELSE IF Signature(o.reply) = prev[w]
          THEN Finish(w, "no_progress") /\ UNCHANGED <<taskVars, loopVars>>
          ELSE /\ prev' = [prev EXCEPT ![w] = Signature(o.reply)]
               /\ iterations' = [iterations EXCEPT ![w] = @ + 1]
               /\ step' = [step EXCEPT ![w] = o.reply.step]
               /\ attempts' = [attempts EXCEPT ![w] = 0]
               /\ Go(w, "attempt")
               /\ UNCHANGED deadline
  /\ UNCHANGED <<now, faults, since, reported>>

\* One attempt too many.
BugAttempt(w) ==
  /\ pc[w] = "attempt"
  /\ IF attempts[w] <= MaxRetries + 1 /\ now < deadline[w]
     THEN /\ attempts' = [attempts EXCEPT ![w] = @ + 1]
          /\ since' = [since EXCEPT ![w] = now]
          /\ Go(w, "running")
     ELSE Go(w, "fail") /\ UNCHANGED <<attempts, since>>
  /\ UNCHANGED <<disk, now, faults, loopVars, step, reported, holder>>

\* Another attempt, or none.
Attempt(w) ==
  /\ pc[w] = "attempt"
  /\ IF attempts[w] <= MaxRetries /\ now < deadline[w]
     THEN /\ attempts' = [attempts EXCEPT ![w] = @ + 1]
          /\ since' = [since EXCEPT ![w] = now]
          /\ Go(w, "running")
     ELSE Go(w, "fail") /\ UNCHANGED <<attempts, since>>
  /\ UNCHANGED <<disk, now, faults, loopVars, step, reported, holder>>

\* The subprocess ends: with the completion marker; or without it, with work that
\* remains, an exit code, or by its own timeout, all of which call for another attempt.
Answer(w) ==
  /\ pc[w] = "running"
  /\ Go(w, "succeed") \/ Go(w, "attempt")
  /\ UNCHANGED <<disk, now, faults, since, loopVars, taskVars, reported, holder>>

\* record_dispatch_result, or an error of it.  What it returns is ignored: the step may
\* have been recorded by someone else.
Recording(w, s, Then) ==
  \E v \in Payloads :
  \E o \in Outcomes([op |-> "record", step |-> step[w], status |-> s, payload |-> v], disk, now) :
    \/ /\ disk' = o.file
       /\ reported' = [reported EXCEPT ![w] = @ \cup {step[w]}]
       /\ Then
       /\ NoFault
    \/ disk' \in {disk, o.file} /\ UNCHANGED reported /\ Go(w, "release") /\ Fault

\* The result of a completed segment goes unrecorded as final.
BugSucceed(w) ==
  /\ pc[w] = "succeed"
  /\ Recording(w, "retry_wait", Go(w, "claim"))
  /\ UNCHANGED <<now, since, loopVars, taskVars, holder>>

Succeed(w) ==
  /\ pc[w] = "succeed"
  /\ Recording(w, "succeeded", Go(w, "claim"))
  /\ UNCHANGED <<now, since, loopVars, taskVars, holder>>

\* The failure of a segment leaves it for the next run.
BugFailStep(w) ==
  /\ pc[w] = "fail"
  /\ Recording(w, "retry_wait", Finish(w, "segment_failed"))
  /\ UNCHANGED <<now, since, loopVars, taskVars, holder>>

FailStep(w) ==
  /\ pc[w] = "fail"
  /\ Recording(w, "failed", Finish(w, "segment_failed"))
  /\ UNCHANGED <<now, since, loopVars, taskVars, holder>>

\* An exception, of the subprocess call or from outside, while the worker is on a step.
Interrupt(w) ==
  /\ pc[w] \in OnStep \ {"release"}
  /\ Go(w, "release")
  /\ Fault
  /\ UNCHANGED <<disk, now, since, loopVars, taskVars, reported, holder>>

\* The run ends without releasing the step.
BugRelease(w) ==
  /\ pc[w] = "release"
  /\ disk' = disk /\ Finish(w, "loop_error") /\ NoFault
  /\ UNCHANGED <<now, since, loopVars, taskVars, reported, holder>>

\* _release_crashed_step parks the step, whoever has it now; should that fail too, the
\* error is suppressed.
Release(w) ==
  /\ pc[w] = "release"
  /\ \E v \in Payloads :
     \E o \in Outcomes([op |-> "record", step |-> step[w], status |-> "retry_wait", payload |-> v], disk, now) :
       \/ disk' = o.file /\ Finish(w, "loop_error") /\ NoFault
       \/ disk' = disk /\ Finish(w, "error") /\ Fault
  /\ UNCHANGED <<now, since, loopVars, taskVars, reported, holder>>

\* The briefing is run for whatever there is.
BugBrief(w) ==
  /\ pc[w] = "brief"
  /\ since' = [since EXCEPT ![w] = now] /\ Go(w, "briefing")
  /\ UNCHANGED <<disk, now, faults, loopVars, taskVars, reported, holder>>

Brief(w) ==
  /\ pc[w] = "brief"
  /\ \E o \in Outcomes([op |-> "brief"], disk, now) :
       IF o.reply.kind = "briefing"
       THEN since' = [since EXCEPT ![w] = now] /\ Go(w, "briefing")
       ELSE UNCHANGED since /\ Finish(w, "briefing_not_ready")
  /\ UNCHANGED <<disk, now, faults, loopVars, taskVars, reported, holder>>

Briefed(w) ==
  /\ pc[w] = "briefing"
  /\ \E s \in {"complete", "complete_unmarked", "briefing_failed", "loop_error"} : Finish(w, s)
  /\ UNCHANGED <<disk, now, faults, since, loopVars, taskVars, reported, holder>>

\* next_dispatch_step or build_briefing_payload raises; a failing next may have claimed a
\* step that nobody will work on.
StoreError(w) ==
  /\ pc[w] \in {"claim", "brief"}
  /\ \/ UNCHANGED <<disk, holder>>
     \/ /\ pc[w] = "claim" /\ now < deadline[w]
        /\ \E o \in Outcomes([op |-> "next", at |-> now], disk, now) :
             /\ o.reply.kind = "handed"
             /\ disk' = o.file
             /\ holder' = [holder EXCEPT ![o.reply.step] = w]
  /\ Finish(w, "dispatch_error")
  /\ Fault
  /\ UNCHANGED <<now, since, loopVars, taskVars, reported>>

\* SIGKILL: nothing is released.
Kill(w) ==
  /\ pc[w] # "idle"
  /\ Finish(w, "killed")
  /\ Fault
  /\ UNCHANGED <<disk, now, since, loopVars, taskVars, reported, holder>>

\* No subprocess outlives its timeout.
Tick ==
  /\ now < MaxTime
  /\ \A w \in Workers : pc[w] \in InSubprocess => now < since[w] + Timeout
  /\ now' = now + 1
  /\ UNCHANGED <<disk, faults, pc, since, loopVars, taskVars, reported, status, holder>>

Proceed(w) ==
  \/ LeaveLoop(w) \/ Claims(w) \/ Attempt(w) \/ Answer(w)
  \/ Succeed(w) \/ FailStep(w) \/ Release(w) \/ Brief(w) \/ Briefed(w)

Next ==
  \/ \E w \in Workers : Start(w) \/ Proceed(w) \/ Interrupt(w) \/ StoreError(w) \/ Kill(w)
  \/ Tick

Spec == Init /\ [][Next]_vars

\* What runs when a run's own code takes no time: time passes in subprocesses only.
Prompt == now' # now => \A w \in Workers : pc[w] \in InSubprocess \cup {"idle"}
PromptSpec == Init /\ [][Next /\ Prompt]_vars

\* Workers are started again and again, and nobody stops a worker or the clock.
FairSpec ==
  Spec /\ WF_vars(Tick) /\ \A w \in Workers : WF_vars(Start(w)) /\ WF_vars(Proceed(w))

-----------------------------------------------------------------------------
(* Properties. *)

\* A run that briefs, or reports completion, does so for a bundle whose every segment
\* has succeeded, whatever the other workers have done since.
CompleteIsWhole ==
  \A w \in Workers :
    pc[w] = "briefing" \/ (pc[w] = "idle" /\ status[w] \in {"complete", "complete_unmarked"})
      => Missing(disk) = {}

\* A segment that a run reports as succeeded or failed has a final result in the store,
\* its own or, as record_dispatch_result's answer is ignored, that of another worker.
ReportedIsFinal ==
  \A w \in Workers : \A i \in reported[w] : disk.steps[i].status \in Terminal

\* The guard against a queue that makes no progress never fires on the real store: the
\* step a run takes up next is never the one it has just recorded.
AlwaysProgress == \A w \in Workers : status[w] # "no_progress"

\* A step left running has a worker on it, unless the worker that claimed it was killed,
\* could not release it, lost the answer of its claim, or ran into max_iterations; so an
\* exception in the middle of a step does not wedge the bundle.
NoOrphan ==
  \A i \in StepIds :
    disk.steps[i].status = "running" /\ holder[i] # Nobody =>
      LET w == holder[i] IN
      \/ pc[w] \in OnStep /\ step[w] = i
      \/ pc[w] = "idle" /\ status[w] \in Unclean

\* No two live workers are ever on the same step.
OneWorkerPerStep ==
  \A u, w \in Workers : u # w /\ pc[u] \in OnStep /\ pc[w] \in OnStep => step[u] # step[w]

\* Every segment gets a final result, although workers are killed and releases fail, as
\* long as runs are started: a lost step is claimed again after its lease.
Settled == \A i \in StepIds : disk.steps[i].status \in Terminal
EventuallySettled == <>Settled
=============================================================================
