--------------------------- MODULE LoopAutoProofs ---------------------------
(***************************************************************************)
(* Theorems about LoopAuto for any set of workers, any bundle and any      *)
(* limits: its types, that a complete result stands for a bundle whose     *)
(* segments have all succeeded, that what a result reports is final, that  *)
(* the no-progress guard never fires, and that no step is left running     *)
(* without a worker but by the worker's own end.  The first three rest on  *)
(* the store never touching a finished step; the last two on where a       *)
(* worker is with respect to the step it took up last.                     *)
(***************************************************************************)
EXTENDS LoopAuto, DispatchBundleProofs

OnAStep == \A w \in Workers : pc[w] \in OnStep => step[w] \in StepIds

Whole == Missing(disk) = {}
Done(w) == pc[w] = "briefing" \/ (pc[w] = "idle" /\ status[w] \in {"complete", "complete_unmarked"})

IInv == TypeOK /\ OnAStep /\ CompleteIsWhole /\ ReportedIsFinal

-----------------------------------------------------------------------------
(* The requests that workers make. *)

\* A worker's calls of the store are requests.
LEMMA RequestTypes ==
  ASSUME NEW t \in Nat, NEW i \in StepIds, NEW s \in {"succeeded", "failed", "retry_wait"}, NEW v \in Payloads
  PROVE  /\ [op |-> "next", at |-> t] \in NextRequests
         /\ [op |-> "record", step |-> i, status |-> s, payload |-> v] \in RecordRequests
         /\ NextRequests \subseteq Requests /\ RecordRequests \subseteq Requests
  BY NumStepsType DEF NextRequests, RecordRequests, Requests, StepIds, Terminal

\* The file after a call is the bundle with its finished steps.
LEMMA FileAfter ==
  ASSUME NEW r \in Requests, NEW b \in Bundles, NEW t \in Nat, NEW o \in Outcomes(r, b, t)
  PROVE  o.file \in Bundles /\ KeepsFinal(b, o.file)
  BY OutcomesType, OutcomesKeepFinal, FileKinds

\* Once a final result is recorded, by whomever, the step is finished.
LEMMA RecordIsFinal ==
  ASSUME NEW b \in Bundles, NEW t \in Nat, NEW i \in StepIds, NEW s \in Terminal, NEW v \in Payloads,
         NEW o \in Outcomes([op |-> "record", step |-> i, status |-> s, payload |-> v], b, t)
  PROVE  o.file.steps[i].status \in Terminal
<1>. DEFINE r == [op |-> "record", step |-> i, status |-> s, payload |-> v]
<1>1. o \in RecordOutcomes(r, b)
  BY FileKinds DEF Outcomes
<1>2. CASE b.steps[i].status \in Terminal
  BY <1>1, <1>2 DEF RecordOutcomes, Outcome
<1>3. CASE b.steps[i].status \notin Terminal
  <2>1. o.file = Record(b, i, s, v)
    BY <1>1, <1>3 DEF RecordOutcomes, Outcome
  <2>2. s \in Status
    BY DEF Status
  <2>3. Record(b, i, s, v).steps = [b.steps EXCEPT ![i] = [status |-> s, payload |-> v, at |-> 0]]
    BY <2>2, RecordType
  <2>4. QED
    BY <2>1, <2>3 DEF Bundles
<1>4. QED
  BY <1>2, <1>3

\* A claim handed out is a claim of one of the steps.
LEMMA HandedType ==
  ASSUME NEW b \in Bundles, NEW t \in Nat, NEW o \in Outcomes([op |-> "next", at |-> t], b, t),
         o.reply.kind = "handed"
  PROVE  o.reply.step \in StepIds /\ o.reply.remaining \in Nat
<1>1. o \in NextOutcomes([op |-> "next", at |-> t], b, t)
  BY FileKinds DEF Outcomes
<1>2. CASE o = Outcome(Drained(b), b)
  BY <1>2 DEF Outcome, Drained
<1>3. ASSUME NEW i \in Claimable(b, t), o = Outcome(Handed(Claim(b, i, t), i), Claim(b, i, t))
      PROVE  o.reply.step \in StepIds /\ o.reply.remaining \in Nat
  BY <1>3, RemainingNat DEF Outcome, Handed, Claimable
<1>4. QED
  BY <1>1, <1>2, <1>3 DEF NextOutcomes, FirstClaimable

\* A briefing is given out for a whole bundle only.
LEMMA BriefingIsWhole ==
  ASSUME NEW b \in Bundles, NEW t, NEW o \in Outcomes([op |-> "brief"], b, t), o.reply.kind = "briefing"
  PROVE  Missing(b) = {}
<1>1. o \in BriefOutcomes(b)
  BY FileKinds DEF Outcomes
<1>2. QED
  BY <1>1 DEF BriefOutcomes, Outcome, NotReady

-----------------------------------------------------------------------------
(* The steps of a worker. *)

\* Where the bundle goes in one step.
LEMMA DiskStep ==
  ASSUME IInv, [Next]_vars
  PROVE  disk' \in Bundles /\ KeepsFinal(disk, disk')
<1>. DEFINE Kept == disk' \in Bundles /\ KeepsFinal(disk, disk')
<1>0. disk \in Bundles /\ now \in Nat
  BY DEF IInv, TypeOK
<1>1. ASSUME disk' = disk PROVE Kept
  BY <1>0, <1>1 DEF KeepsFinal
<1>2. ASSUME NEW w \in Workers, Claims(w) \/ StoreError(w) PROVE Kept
  <2>1. disk' = disk \/ \E o \in Outcomes([op |-> "next", at |-> now], disk, now) : disk' = o.file
    BY <1>2 DEF Claims, StoreError
  <2>2. [op |-> "next", at |-> now] \in Requests
    BY <1>0 DEF NextRequests, Requests
  <2>3. QED
    BY <1>0, <1>1, <2>1, <2>2, FileAfter
<1>3. ASSUME NEW w \in Workers, Succeed(w) \/ FailStep(w) \/ Release(w) PROVE Kept
  <2>1. step[w] \in StepIds
    BY <1>3 DEF IInv, OnAStep, OnStep, Succeed, FailStep, Release
  <2>2. PICK s \in {"succeeded", "failed", "retry_wait"}, v \in Payloads :
          \E o \in Outcomes([op |-> "record", step |-> step[w], status |-> s, payload |-> v], disk, now) :
            disk' \in {disk, o.file}
    BY <1>3 DEF Succeed, FailStep, Release, Recording
  <2>3. [op |-> "record", step |-> step[w], status |-> s, payload |-> v] \in Requests
    BY <1>0, <2>1, RequestTypes
  <2>4. QED
    BY <1>0, <1>1, <2>2, <2>3, FileAfter
<1>4. QED
  BY <1>1, <1>2, <1>3
     DEF Next, vars, Proceed, Start, LeaveLoop, Attempt, Answer, Brief, Briefed, Interrupt, Kill, Tick

\* A bundle stays whole, and a finished step finished, as finished steps are kept.
LEMMA WholeStays == ASSUME disk \in Bundles, KeepsFinal(disk, disk')
                    PROVE  /\ Whole => Whole'
                           /\ \A i \in StepIds : disk.steps[i].status \in Terminal
                                                   => disk'.steps[i].status \in Terminal
  BY DEF Whole, Missing, KeepsFinal, Terminal

-----------------------------------------------------------------------------
(* The invariant. *)

LEMMA InitInv == Init => IInv
  <1>. SUFFICES ASSUME Init PROVE IInv
    OBVIOUS
  <1>1. TypeOK
    BY Stored0Type, LimitsType DEF Init, TypeOK, PCs, Statuses
  <1>2. OnAStep /\ CompleteIsWhole /\ ReportedIsFinal
    BY DEF Init, OnAStep, OnStep, CompleteIsWhole, ReportedIsFinal
  <1>3. QED
    BY <1>1, <1>2 DEF IInv

\* The limits, one by one.
LEMMA Limits == /\ Timeout \in Nat /\ MaxRetries \in Nat /\ MaxIterations \in Nat
                /\ MaxTime \in Nat /\ MaxFaults \in Nat /\ LastFault \in Nat
  BY LimitsType

\* Moving a worker, ending its run and having a fault keep the types of pc, status and faults.
LEMMA MoveTypes ==
  ASSUME TypeOK, NEW w \in Workers
  PROVE  /\ \A to \in PCs : Go(w, to) => pc' \in [Workers -> PCs] /\ status' \in [Workers -> Statuses]
         /\ \A s \in Statuses : Finish(w, s) => pc' \in [Workers -> PCs] /\ status' \in [Workers -> Statuses]
         /\ Fault \/ NoFault => faults' \in 0 .. MaxFaults
<1>1. \A to \in PCs : Go(w, to) => pc' \in [Workers -> PCs] /\ status' \in [Workers -> Statuses]
  BY DEF TypeOK, Go
<1>2. \A s \in Statuses : Finish(w, s) => pc' \in [Workers -> PCs] /\ status' \in [Workers -> Statuses]
  BY DEF TypeOK, Finish, PCs
<1>3. Fault \/ NoFault => faults' \in 0 .. MaxFaults
  BY Limits DEF TypeOK, Fault, NoFault
<1>4. QED
  BY <1>1, <1>2, <1>3

\* A worker's variables keep their types in every step but a claim: the bundle's type is
\* DiskStep's.
LEMMA TypesStay ==
  ASSUME IInv, disk' \in Bundles, NEW w \in Workers,
         \/ Start(w) \/ LeaveLoop(w) \/ Attempt(w) \/ Answer(w) \/ Succeed(w) \/ FailStep(w)
         \/ Release(w) \/ Brief(w) \/ Briefed(w) \/ Interrupt(w) \/ Kill(w)
  PROVE  TypeOK'
<1>. USE DEF loopVars, taskVars
<1>0. TypeOK /\ OnAStep
  BY DEF IInv
<1>1. pc' \in [Workers -> PCs] /\ status' \in [Workers -> Statuses]
  <2>. DEFINE Moves == \E to \in OnStep \cup {"claim", "brief", "briefing"} : Go(w, to)
              Ends == \E t \in Statuses : Finish(w, t)
  <2>1. CASE Start(w)
    BY <1>0, <2>1 DEF Start, TypeOK, PCs, Statuses
  <2>2. CASE Moves
    BY <1>0, <2>2, MoveTypes DEF PCs
  <2>3. CASE Ends
    BY <1>0, <2>3, MoveTypes
  <2>4. LeaveLoop(w) \/ Attempt(w) \/ Answer(w) \/ Brief(w) \/ Interrupt(w) \/ Succeed(w) => Moves \/ Ends
    BY DEF OnStep, LeaveLoop, Attempt, Answer, Brief, Interrupt, Succeed, Recording, Statuses
  <2>5. FailStep(w) \/ Release(w) \/ Briefed(w) \/ Kill(w) => Moves \/ Ends
    BY DEF OnStep, FailStep, Recording, Release, Briefed, Kill, Statuses, Unclean
  <2>6. QED
    BY <2>1, <2>2, <2>3, <2>4, <2>5
<1>2. faults' \in 0 .. MaxFaults
  <2>1. UNCHANGED faults => faults' \in 0 .. MaxFaults
    BY <1>0 DEF TypeOK
  <2>2. UNCHANGED faults \/ Fault \/ NoFault
    BY DEF Start, LeaveLoop, Attempt, Answer, Brief, Briefed, Interrupt, Kill, Succeed, FailStep, Recording, Release
  <2>3. QED
    BY <1>0, <2>1, <2>2, MoveTypes
<1>3. reported' \in [Workers -> SUBSET StepIds]
  <2>1. CASE Start(w)
    BY <1>0, <2>1 DEF Start, TypeOK
  <2>2. CASE Succeed(w) \/ FailStep(w)
    <3>1. step[w] \in StepIds
      BY <1>0, <2>2 DEF OnAStep, OnStep, Succeed, FailStep
    <3>2. \/ UNCHANGED reported
          \/ reported' = [reported EXCEPT ![w] = @ \cup {step[w]}]
      BY <2>2 DEF Succeed, FailStep, Recording
    <3>3. QED
      BY <1>0, <3>1, <3>2 DEF TypeOK
  <2>3. CASE UNCHANGED reported
    BY <1>0, <2>3 DEF TypeOK
  <2>4. QED
    BY <2>1, <2>2, <2>3 DEF LeaveLoop, Attempt, Answer, Brief, Briefed, Interrupt, Kill, Release
<1>4. since' \in [Workers -> 0 .. MaxTime] /\ attempts' \in [Workers -> 0 .. MaxRetries + 1]
  <2>1. CASE UNCHANGED <<since, attempts>>
    BY <1>0, <2>1 DEF TypeOK
  <2>2. CASE attempts[w] <= MaxRetries /\ attempts' = [attempts EXCEPT ![w] = @ + 1] /\ since' = [since EXCEPT ![w] = now]
    <3>1. attempts[w] + 1 \in 0 .. MaxRetries + 1
      BY <1>0, <2>2, Limits DEF TypeOK
    <3>2. QED
      BY <1>0, <2>2, <3>1 DEF TypeOK
  <2>3. CASE since' = [since EXCEPT ![w] = now] /\ UNCHANGED attempts
    BY <1>0, <2>3 DEF TypeOK
  <2>4. QED
    BY <2>1, <2>2, <2>3
       DEF Start, LeaveLoop, Attempt, Answer, Brief, Briefed, Interrupt, Kill, Succeed, FailStep, Release
<1>5. /\ deadline' \in [Workers -> Nat] /\ iterations' \in [Workers -> 0 .. MaxIterations]
      /\ prev' \in [Workers -> Nat \X (StepIds \cup {0})] /\ holder' \in [StepIds -> Workers \cup {Nobody}]
  <2>1. CASE Start(w)
    <3>1. now + Timeout \in Nat /\ 0 \in 0 .. MaxIterations /\ <<0, 0>> \in Nat \X (StepIds \cup {0})
      BY <1>0, Limits DEF TypeOK
    <3>2. \A i \in StepIds : holder'[i] \in Workers \cup {Nobody}
      BY <1>0, <2>1 DEF Start, TypeOK
    <3>3. QED
      BY <1>0, <2>1, <3>1, <3>2 DEF Start, TypeOK
  <2>2. CASE UNCHANGED <<loopVars, holder>>
    BY <1>0, <2>2 DEF TypeOK
  <2>3. QED
    BY <2>1, <2>2
       DEF LeaveLoop, Attempt, Answer, Brief, Briefed, Interrupt, Kill, Succeed, FailStep, Release
<1>6. UNCHANGED <<now, step>>
  BY DEF Start, LeaveLoop, Attempt, Answer, Brief, Briefed, Interrupt, Kill, Succeed, FailStep, Release
<1>7. QED
  BY <1>0, <1>1, <1>2, <1>3, <1>4, <1>5, <1>6 DEF TypeOK

\* A claim takes up one of the steps, or counts as a fault that ends the run.
LEMMA TypesOfClaims ==
  ASSUME IInv, disk' \in Bundles, NEW w \in Workers, Claims(w) \/ StoreError(w)
  PROVE  TypeOK'
<1>. USE DEF loopVars, taskVars
<1>0. TypeOK
  BY DEF IInv
<1>1. CASE Claims(w)
  <2>1. PICK o \in Outcomes([op |-> "next", at |-> now], disk, now) :
          /\ o.reply.kind = "handed"
          /\ holder' = [holder EXCEPT ![o.reply.step] = w]
          /\ \/ (Finish(w, "iteration_cap_exceeded") \/ Finish(w, "no_progress")) /\ UNCHANGED <<taskVars, loopVars>>
             \/ /\ ~ iterations[w] >= MaxIterations
                /\ prev' = [prev EXCEPT ![w] = Signature(o.reply)]
                /\ iterations' = [iterations EXCEPT ![w] = @ + 1]
                /\ step' = [step EXCEPT ![w] = o.reply.step]
                /\ attempts' = [attempts EXCEPT ![w] = 0]
                /\ Go(w, "attempt")
                /\ UNCHANGED deadline
    BY <1>1 DEF Claims
  <2>2. o.reply.step \in StepIds /\ o.reply.remaining \in Nat
    BY <1>0, <2>1, HandedType DEF TypeOK
  <2>3. UNCHANGED <<now, faults, since, reported>> /\ holder' \in [StepIds -> Workers \cup {Nobody}]
    BY <1>0, <1>1, <2>1, <2>2 DEF Claims, TypeOK
  <2>4. pc' \in [Workers -> PCs] /\ status' \in [Workers -> Statuses]
    BY <1>0, <2>1, MoveTypes DEF Statuses, Unclean, PCs, OnStep
  <2>5. CASE UNCHANGED <<taskVars, loopVars>>
    BY <1>0, <2>3, <2>4, <2>5 DEF TypeOK
  <2>6. CASE ~ UNCHANGED <<taskVars, loopVars>>
    <3>1. Signature(o.reply) \in Nat \X (StepIds \cup {0})
      BY <2>2 DEF Signature
    <3>2. iterations[w] + 1 \in 0 .. MaxIterations /\ 0 \in 0 .. MaxRetries + 1
      <4>1. ~ iterations[w] >= MaxIterations
        BY <2>1, <2>6
      <4>2. iterations[w] \in 0 .. MaxIterations
        BY <1>0 DEF TypeOK
      <4>3. QED
        BY <4>1, <4>2, Limits
    <3>3. /\ deadline' \in [Workers -> Nat]
          /\ step' \in [Workers -> StepIds \cup {0}]
          /\ attempts' \in [Workers -> 0 .. MaxRetries + 1]
          /\ iterations' \in [Workers -> 0 .. MaxIterations]
          /\ prev' \in [Workers -> Nat \X (StepIds \cup {0})]
      <4>1. /\ prev' = [prev EXCEPT ![w] = Signature(o.reply)]
            /\ iterations' = [iterations EXCEPT ![w] = @ + 1]
            /\ step' = [step EXCEPT ![w] = o.reply.step]
            /\ attempts' = [attempts EXCEPT ![w] = 0]
            /\ UNCHANGED deadline
        BY <2>1, <2>6
      <4>2. prev' \in [Workers -> Nat \X (StepIds \cup {0})]
        BY <1>0, <3>1, <4>1 DEF TypeOK
      <4>3. QED
        BY <1>0, <2>2, <3>2, <4>1, <4>2 DEF TypeOK
    <3>4. QED
      BY <1>0, <2>3, <2>4, <3>3 DEF TypeOK
  <2>7. QED
    BY <2>5, <2>6
<1>2. CASE StoreError(w)
  <2>1. /\ UNCHANGED <<now, since, loopVars, taskVars, reported>>
        /\ Finish(w, "dispatch_error") /\ Fault
        /\ \/ UNCHANGED holder
           \/ \E o \in Outcomes([op |-> "next", at |-> now], disk, now) :
                o.reply.kind = "handed" /\ holder' = [holder EXCEPT ![o.reply.step] = w]
    BY <1>2 DEF StoreError
  <2>2. holder' \in [StepIds -> Workers \cup {Nobody}]
    BY <1>0, <2>1, HandedType DEF TypeOK
  <2>3. /\ pc' \in [Workers -> PCs] /\ status' \in [Workers -> Statuses]
        /\ faults' \in 0 .. MaxFaults
    BY <1>0, <2>1, MoveTypes DEF Statuses, Unclean
  <2>4. QED
    BY <1>0, <2>1, <2>2, <2>3 DEF TypeOK
<1>3. QED
  BY <1>1, <1>2

\* Who is on a step afterwards: a worker that was, or one that has just claimed it.
LEMMA OnAStepStays ==
  ASSUME IInv, NEW w \in Workers, Start(w) \/ Proceed(w) \/ Interrupt(w) \/ StoreError(w) \/ Kill(w)
  PROVE  OnAStep'
<1>0. TypeOK /\ OnAStep
  BY DEF IInv
<1>1. SUFFICES ASSUME NEW u \in Workers, pc'[u] \in OnStep PROVE step'[u] \in StepIds
  BY DEF OnAStep
<1>2. CASE Claims(w)
  <2>1. PICK o \in Outcomes([op |-> "next", at |-> now], disk, now) :
          /\ o.reply.kind = "handed"
          /\ \/ pc' = [pc EXCEPT ![w] = "idle"] /\ UNCHANGED step
             \/ pc' = [pc EXCEPT ![w] = "attempt"] /\ step' = [step EXCEPT ![w] = o.reply.step]
    BY <1>2 DEF Claims, Finish, Go, taskVars
  <2>2. o.reply.step \in StepIds
    BY <1>0, <2>1, HandedType DEF TypeOK
  <2>3. QED
    BY <1>0, <1>1, <2>1, <2>2 DEF TypeOK, OnAStep, OnStep
<1>3. CASE ~ Claims(w)
  <2>1. UNCHANGED step
    BY <1>3 DEF Proceed, taskVars, Start, LeaveLoop, Attempt, Answer, Succeed, FailStep, Release, Brief,
                Briefed, Interrupt, StoreError, Kill
  <2>2. pc[w] \in OnStep \/ pc'[w] \notin OnStep
    BY <1>0, <1>3 DEF TypeOK, OnStep, Proceed, Start, LeaveLoop, Attempt, Answer, Succeed, FailStep, Release,
                     Recording, Brief, Briefed, Interrupt, StoreError, Kill, Go, Finish
  <2>3. u # w => pc'[u] = pc[u]
    BY <1>0, <1>3 DEF TypeOK, Proceed, Start, LeaveLoop, Attempt, Answer, Succeed, FailStep, Release,
                     Recording, Brief, Briefed, Interrupt, StoreError, Kill, Go, Finish
  <2>4. QED
    BY <1>0, <1>1, <2>1, <2>2, <2>3 DEF OnAStep
<1>4. QED
  BY <1>2, <1>3

\* Whoever is briefing, or has a complete result, has had it from a whole bundle.
LEMMA CompleteStays ==
  ASSUME IInv, KeepsFinal(disk, disk'), NEW w \in Workers,
         Start(w) \/ Proceed(w) \/ Interrupt(w) \/ StoreError(w) \/ Kill(w)
  PROVE  CompleteIsWhole'
<1>0. TypeOK /\ CompleteIsWhole /\ (Whole => Whole')
  BY WholeStays DEF IInv, TypeOK
<1>1. SUFFICES ASSUME NEW u \in Workers, Done(u)' PROVE Whole'
  BY DEF CompleteIsWhole, Done, Whole
<1>2. CASE Done(u)
  BY <1>0, <1>2 DEF CompleteIsWhole, Done, Whole
<1>3. CASE ~ Done(u)
  <2>1. u = w
    BY <1>0, <1>1, <1>3 DEF Done, TypeOK, Proceed, Start, LeaveLoop, Claims, Attempt, Answer, Succeed, FailStep,
         Release, Recording, Brief, Briefed, Interrupt, StoreError, Kill, Go, Finish
  <2>2. Brief(w)
    BY <1>0, <1>1, <1>3, <2>1 DEF Done, TypeOK, Proceed, Start, LeaveLoop, Claims, Attempt, Answer, Succeed, FailStep,
         Release, Recording, Brief, Briefed, Interrupt, StoreError, Kill, Go, Finish
  <2>3. \E o \in Outcomes([op |-> "brief"], disk, now) : o.reply.kind = "briefing"
    BY <1>0, <1>1, <1>3, <2>1, <2>2 DEF Done, TypeOK, Brief, Finish
  <2>4. QED
    BY <1>0, <2>3, BriefingIsWhole DEF TypeOK, Whole
<1>4. QED
  BY <1>2, <1>3

\* What is reported is recorded at once, and stays.
LEMMA ReportedStays ==
  ASSUME IInv, KeepsFinal(disk, disk'), NEW w \in Workers,
         Start(w) \/ Proceed(w) \/ Interrupt(w) \/ StoreError(w) \/ Kill(w)
  PROVE  ReportedIsFinal'
<1>0. /\ TypeOK /\ OnAStep /\ ReportedIsFinal
      /\ \A i \in StepIds : disk.steps[i].status \in Terminal => disk'.steps[i].status \in Terminal
  BY WholeStays DEF IInv, TypeOK
<1>1. SUFFICES ASSUME NEW u \in Workers, NEW i \in reported'[u] PROVE disk'.steps[i].status \in Terminal
  BY DEF ReportedIsFinal
<1>2. CASE i \in reported[u]
  BY <1>0, <1>2 DEF ReportedIsFinal, TypeOK
<1>3. CASE i \notin reported[u]
  <2>1. Succeed(w) \/ FailStep(w)
    BY <1>0, <1>1, <1>3 DEF TypeOK, Proceed, Start, LeaveLoop, Claims, Attempt, Answer, Release, Brief, Briefed,
         Interrupt, StoreError, Kill
  <2>2. PICK s \in Terminal, v \in Payloads :
          \E o \in Outcomes([op |-> "record", step |-> step[w], status |-> s, payload |-> v], disk, now) :
            disk' = o.file /\ reported' = [reported EXCEPT ![w] = @ \cup {step[w]}]
    BY <1>1, <1>3, <2>1 DEF Succeed, FailStep, Recording, Terminal
  <2>3. i = step[w] /\ step[w] \in StepIds
    BY <1>0, <1>1, <1>3, <2>1, <2>2 DEF TypeOK, OnAStep, OnStep, Succeed, FailStep
  <2>4. QED
    BY <1>0, <2>2, <2>3, RecordIsFinal DEF TypeOK
<1>4. QED
  BY <1>2, <1>3

\* Neither the clock nor a stutter changes what the invariant speaks of.
LEMMA ClockStays == IInv /\ (Tick \/ UNCHANGED vars) => IInv'
<1>. SUFFICES ASSUME IInv, Tick \/ UNCHANGED vars PROVE IInv'
  OBVIOUS
<1>1. UNCHANGED <<disk, faults, pc, deadline, since, step, attempts, iterations, prev, reported, status, holder>>
  BY DEF Tick, vars, loopVars, taskVars
<1>2. now' \in 0 .. MaxTime
  BY Limits DEF IInv, TypeOK, Tick, vars
<1>3. TypeOK'
  BY <1>1, <1>2 DEF IInv, TypeOK
<1>4. OnAStep' /\ CompleteIsWhole' /\ ReportedIsFinal'
  BY <1>1 DEF IInv, OnAStep, CompleteIsWhole, ReportedIsFinal, Missing
<1>5. QED
  BY <1>3, <1>4 DEF IInv

LEMMA NextInv == IInv /\ [Next]_vars => IInv'
<1>. SUFFICES ASSUME IInv, [Next]_vars PROVE IInv'
  OBVIOUS
<1>1. disk' \in Bundles /\ KeepsFinal(disk, disk')
  BY DiskStep
<1>2. ASSUME NEW w \in Workers, Start(w) \/ Proceed(w) \/ Interrupt(w) \/ StoreError(w) \/ Kill(w)
      PROVE  IInv'
  <2>1. TypeOK'
    BY <1>1, <1>2, TypesStay, TypesOfClaims DEF Proceed
  <2>2. OnAStep' /\ CompleteIsWhole' /\ ReportedIsFinal'
    BY <1>1, <1>2, OnAStepStays, CompleteStays, ReportedStays
  <2>3. QED
    BY <2>1, <2>2 DEF IInv
<1>3. QED
  BY <1>2, ClockStays DEF Next

-----------------------------------------------------------------------------
(* The step a worker took up last. *)

\* The signature of the previous step names the step that the worker is on, and, when it
\* is back at the top of the loop, one that is finished.
PrevIsDone ==
  \A w \in Workers :
    /\ pc[w] \in OnStep => prev[w][2] = step[w]
    /\ pc[w] = "claim" => prev[w][2] = 0 \/ disk.steps[prev[w][2]].status \in Terminal

HInv == IInv /\ AlwaysProgress /\ PrevIsDone /\ NoOrphan

\* Only a claim makes a step running, and it changes no other step.
LEMMA ClaimIsOfOneStep ==
  ASSUME NEW b \in Bundles, NEW t \in Nat, NEW o \in Outcomes([op |-> "next", at |-> t], b, t),
         o.reply.kind = "handed"
  PROVE  /\ o.reply.step \in StepIds
         /\ b.steps[o.reply.step].status \notin Terminal
         /\ \A j \in StepIds : j # o.reply.step => o.file.steps[j] = b.steps[j]
<1>1. o \in NextOutcomes([op |-> "next", at |-> t], b, t)
  BY FileKinds DEF Outcomes
<1>2. PICK i \in Claimable(b, t) : o = Outcome(Handed(Claim(b, i, t), i), Claim(b, i, t))
  BY <1>1 DEF NextOutcomes, FirstClaimable, Outcome, Drained
<1>3. o.reply.step = i /\ o.file = Claim(b, i, t) /\ i \in StepIds /\ b.steps[i].status \notin Terminal
  BY <1>2 DEF Outcome, Handed, Claimable, StaleRunning, Waiting, Terminal
<1>4. \A j \in StepIds : j # i => Claim(b, i, t).steps[j] = b.steps[j]
  BY <1>3 DEF Claim, Bundles
<1> QED
  BY <1>3, <1>4

\* A record leaves its step no longer running, and changes no other step.
LEMMA RecordIsOfOneStep ==
  ASSUME NEW b \in Bundles, NEW t \in Nat, NEW i \in StepIds,
         NEW s \in {"succeeded", "failed", "retry_wait"}, NEW v \in Payloads,
         NEW o \in Outcomes([op |-> "record", step |-> i, status |-> s, payload |-> v], b, t)
  PROVE  /\ o.file.steps[i].status # "running"
         /\ \A j \in StepIds : j # i => o.file.steps[j] = b.steps[j]
<1> DEFINE r == [op |-> "record", step |-> i, status |-> s, payload |-> v]
<1>1. o \in RecordOutcomes(r, b)
  BY FileKinds DEF Outcomes
<1>2. CASE b.steps[i].status \in Terminal
  BY <1>1, <1>2 DEF RecordOutcomes, Outcome, Terminal
<1>3. CASE b.steps[i].status \notin Terminal
  <2>1. o.file = Record(b, i, s, v)
    BY <1>1, <1>3 DEF RecordOutcomes, Outcome
  <2>2. s \in Status
    BY DEF Status, Terminal, Waiting
  <2>3. Record(b, i, s, v).steps = [b.steps EXCEPT ![i] = [status |-> s, payload |-> v, at |-> 0]]
    BY <2>2, RecordType
  <2> QED
    BY <2>1, <2>3 DEF Bundles
<1> QED
  BY <1>2, <1>3

\* One worker moves: where the others are does not change.
Moves(w) == Start(w) \/ Proceed(w) \/ Interrupt(w) \/ StoreError(w) \/ Kill(w)

LEMMA OthersStay ==
  ASSUME IInv, NEW w \in Workers, Moves(w), NEW u \in Workers \ {w}
  PROVE  pc'[u] = pc[u] /\ step'[u] = step[u] /\ prev'[u] = prev[u] /\ status'[u] = status[u]
<1>. USE DEF loopVars, taskVars, Go, Finish
<1>0. TypeOK
  BY DEF IInv
<1>1. CASE Start(w) \/ LeaveLoop(w) \/ Attempt(w) \/ Answer(w) \/ Interrupt(w) \/ Kill(w)
  BY <1>0, <1>1 DEF TypeOK, Start, LeaveLoop, Attempt, Answer, Interrupt, Kill
<1>2. CASE Succeed(w) \/ FailStep(w) \/ Release(w) \/ Brief(w) \/ Briefed(w) \/ StoreError(w)
  BY <1>0, <1>2 DEF TypeOK, Succeed, FailStep, Recording, Release, Brief, Briefed, StoreError
<1>3. CASE Claims(w)
  BY <1>0, <1>3 DEF TypeOK, Claims
<1> QED
  BY <1>1, <1>2, <1>3 DEF Moves, Proceed

\* A step on which the store is not written, or written to record a result of it: every
\* running step was running before, untouched, and if it was the mover's, then either the
\* mover is still on it or it ended uncleanly.
LEMMA KeptByMover ==
  ASSUME HInv, NEW w \in Workers, Moves(w), UNCHANGED holder,
         \A i \in StepIds : disk'.steps[i].status = "running" =>
           /\ disk.steps[i].status = "running"
           /\ pc[w] \in OnStep /\ step[w] = i =>
                \/ pc'[w] \in OnStep /\ step'[w] = i
                \/ pc'[w] = "idle" /\ status'[w] \in Unclean,
         pc[w] # "idle"
  PROVE  NoOrphan'
<1> SUFFICES ASSUME NEW i \in StepIds, disk'.steps[i].status = "running", holder[i] # Nobody
             PROVE  \/ pc'[holder[i]] \in OnStep /\ step'[holder[i]] = i
                    \/ pc'[holder[i]] = "idle" /\ status'[holder[i]] \in Unclean
  BY DEF NoOrphan
<1>1. holder[i] \in Workers
  BY DEF HInv, IInv, TypeOK
<1>2. \/ pc[holder[i]] \in OnStep /\ step[holder[i]] = i
      \/ pc[holder[i]] = "idle" /\ status[holder[i]] \in Unclean
  BY DEF HInv, NoOrphan
<1>3. CASE holder[i] = w
  BY <1>2, <1>3
<1>4. CASE holder[i] # w
  BY <1>1, <1>2, <1>4, OthersStay DEF HInv
<1> QED
  BY <1>3, <1>4

\* PrevIsDone for the others, as a finished step stays finished.
LEMMA PrevOfOthers ==
  ASSUME HInv, NEW w \in Workers, Moves(w), KeepsFinal(disk, disk'),
         pc'[w] \in OnStep => prev'[w][2] = step'[w],
         pc'[w] = "claim" => prev'[w][2] = 0 \/ disk'.steps[prev'[w][2]].status \in Terminal
  PROVE  PrevIsDone'
<1> SUFFICES ASSUME NEW u \in Workers, u # w
             PROVE  /\ pc'[u] \in OnStep => prev'[u][2] = step'[u]
                    /\ pc'[u] = "claim" => prev'[u][2] = 0 \/ disk'.steps[prev'[u][2]].status \in Terminal
  BY DEF PrevIsDone
<1>1. prev[u][2] \in StepIds \cup {0}
  BY DEF HInv, IInv, TypeOK
<1>2. \A i \in StepIds : disk.steps[i].status \in Terminal => disk'.steps[i].status \in Terminal
  BY WholeStays DEF HInv, IInv, TypeOK
<1> QED
  BY <1>1, <1>2, OthersStay DEF HInv, PrevIsDone

\* The actions that leave the store alone.
LEMMA NoWrite ==
  ASSUME HInv, NEW w \in Workers, UNCHANGED <<disk, holder>>,
         \/ LeaveLoop(w) \/ Attempt(w) \/ Answer(w) \/ Brief(w) \/ Briefed(w)
         \/ Interrupt(w) \/ Kill(w) \/ StoreError(w)
  PROVE  AlwaysProgress' /\ PrevIsDone' /\ NoOrphan'
<1>. USE DEF loopVars, taskVars
<1>0. TypeOK /\ Moves(w)
  BY DEF HInv, IInv, Moves, Proceed
<1>1. UNCHANGED <<step, prev>>
  BY DEF LeaveLoop, Attempt, Answer, Brief, Briefed, Interrupt, Kill, StoreError
<1>2. /\ pc[w] # "idle" /\ pc'[w] # "claim" /\ (pc'[w] \in OnStep => pc[w] \in OnStep)
      /\ status'[w] # "no_progress"
      /\ pc[w] \in OnStep => pc'[w] \in OnStep \/ (pc'[w] = "idle" /\ status'[w] \in Unclean)
  <2>1. CASE LeaveLoop(w) \/ Attempt(w) \/ Answer(w) \/ Interrupt(w)
    BY <1>0, <2>1 DEF TypeOK, LeaveLoop, Attempt, Answer, Interrupt, Go, OnStep, HInv, AlwaysProgress
  <2>2. CASE Brief(w) \/ Briefed(w)
    BY <1>0, <2>2 DEF TypeOK, Brief, Briefed, Go, Finish, OnStep, HInv, AlwaysProgress
  <2>3. CASE Kill(w) \/ StoreError(w)
    BY <1>0, <2>3 DEF TypeOK, Kill, StoreError, Finish, OnStep, Unclean
  <2> QED
    BY <2>1, <2>2, <2>3
<1>3. NoOrphan'
  BY <1>0, <1>1, <1>2, KeptByMover
<1>4. PrevIsDone'
  <2>1. KeepsFinal(disk, disk')
    BY <1>0 DEF KeepsFinal, TypeOK
  <2> QED
    BY <1>0, <1>1, <1>2, <2>1, PrevOfOthers DEF HInv, PrevIsDone
<1>5. AlwaysProgress'
  BY <1>0, <1>2, OthersStay DEF HInv, AlwaysProgress
<1> QED
  BY <1>3, <1>4, <1>5

\* The actions that record a result, or fail to.
LEMMA Records ==
  ASSUME HInv, NEW w \in Workers, Succeed(w) \/ FailStep(w) \/ Release(w)
  PROVE  AlwaysProgress' /\ PrevIsDone' /\ NoOrphan'
<1>. USE DEF loopVars, taskVars
<1>0. TypeOK /\ Moves(w) /\ disk \in Bundles /\ now \in Nat
  BY DEF HInv, IInv, TypeOK, Moves, Proceed
<1>1. step[w] \in StepIds /\ pc[w] \in OnStep /\ pc[w] # "idle" /\ UNCHANGED <<step, prev, holder>>
  BY DEF HInv, IInv, OnAStep, OnStep, Succeed, FailStep, Release
<1>2. PICK s \in {"succeeded", "failed", "retry_wait"}, v \in Payloads :
        \E o \in Outcomes([op |-> "record", step |-> step[w], status |-> s, payload |-> v], disk, now) :
          \/ /\ disk' = o.file
             /\ (Go(w, "claim") /\ s = "succeeded") \/ Finish(w, "segment_failed") \/ Finish(w, "loop_error")
          \/ disk' \in {disk, o.file} /\ (Go(w, "release") \/ Finish(w, "error"))
  <2>1. CASE Succeed(w)
    BY <2>1 DEF Succeed, Recording
  <2>2. CASE FailStep(w)
    BY <2>2 DEF FailStep, Recording
  <2>3. CASE Release(w)
    BY <2>3 DEF Release
  <2> QED
    BY <2>1, <2>2, <2>3
<1>3. PICK o \in Outcomes([op |-> "record", step |-> step[w], status |-> s, payload |-> v], disk, now) :
        \/ /\ disk' = o.file
           /\ (Go(w, "claim") /\ s = "succeeded") \/ Finish(w, "segment_failed") \/ Finish(w, "loop_error")
        \/ disk' \in {disk, o.file} /\ (Go(w, "release") \/ Finish(w, "error"))
  BY <1>2
<1>4. /\ o.file.steps[step[w]].status # "running"
      /\ \A j \in StepIds : j # step[w] => o.file.steps[j] = disk.steps[j]
  BY <1>0, <1>1, RecordIsOfOneStep
<1>5. KeepsFinal(disk, disk')
  BY <1>0, DiskStep DEF HInv, Next, Moves
<1>6. /\ pc'[w] \in OnStep \/ pc'[w] \in {"claim", "idle"}
      /\ status'[w] # "no_progress"
      /\ disk' = o.file \/ (disk' = disk /\ (pc'[w] \in OnStep \/ (pc'[w] = "idle" /\ status'[w] = "error")))
      /\ pc'[w] = "claim" => disk' = o.file /\ s = "succeeded"
  BY <1>0, <1>3 DEF TypeOK, Go, Finish, OnStep, HInv, AlwaysProgress
<1>7. NoOrphan'
  <2>1. ASSUME NEW i \in StepIds, disk'.steps[i].status = "running"
        PROVE  /\ disk.steps[i].status = "running"
               /\ pc[w] \in OnStep /\ step[w] = i =>
                    \/ pc'[w] \in OnStep /\ step'[w] = i
                    \/ pc'[w] = "idle" /\ status'[w] \in Unclean
    BY <1>1, <1>4, <1>6, <2>1 DEF Unclean
  <2> QED
    BY <1>0, <1>1, <2>1, KeptByMover
<1>8. PrevIsDone'
  <2>1. prev'[w][2] = step'[w]
    BY <1>1 DEF HInv, PrevIsDone
  <2>2. pc'[w] = "claim" => disk'.steps[step[w]].status \in Terminal
    BY <1>0, <1>1, <1>6, RecordIsFinal DEF Terminal
  <2> QED
    BY <1>0, <1>1, <1>5, <2>1, <2>2, PrevOfOthers
<1>9. AlwaysProgress'
  BY <1>0, <1>6, OthersStay DEF HInv, AlwaysProgress
<1> QED
  BY <1>7, <1>8, <1>9

\* The actions that claim a step.
LEMMA ClaimsHeld ==
  ASSUME HInv, NEW w \in Workers, Claims(w) \/ StoreError(w)
  PROVE  AlwaysProgress' /\ PrevIsDone' /\ NoOrphan'
<1>. USE DEF loopVars, taskVars
<1>0. TypeOK /\ Moves(w) /\ disk \in Bundles /\ now \in Nat
  BY DEF HInv, IInv, TypeOK, Moves, Proceed
<1>1. CASE StoreError(w) /\ UNCHANGED <<disk, holder>>
  BY <1>1, NoWrite
<1>2. CASE ~ (StoreError(w) /\ UNCHANGED <<disk, holder>>)
  <2>1. PICK o \in Outcomes([op |-> "next", at |-> now], disk, now) :
          /\ o.reply.kind = "handed"
          /\ disk' = o.file
          /\ holder' = [holder EXCEPT ![o.reply.step] = w]
          /\ pc[w] = "claim"
          /\ \/ Finish(w, "dispatch_error") \/ Finish(w, "iteration_cap_exceeded")
             \/ Signature(o.reply) = prev[w]
             \/ /\ prev' = [prev EXCEPT ![w] = Signature(o.reply)]
                /\ step' = [step EXCEPT ![w] = o.reply.step]
                /\ Go(w, "attempt")
    BY <1>2 DEF Claims, StoreError
  <2> DEFINE i == o.reply.step
  <2>2. /\ i \in StepIds /\ disk.steps[i].status \notin Terminal
        /\ \A j \in StepIds : j # i => disk'.steps[j] = disk.steps[j]
    BY <1>0, <2>1, ClaimIsOfOneStep
  <2>3. KeepsFinal(disk, disk')
    BY <1>0, DiskStep DEF HInv, Next, Moves
  <2>4. Signature(o.reply) # prev[w]
    <3>1. prev[w][2] = 0 \/ disk.steps[prev[w][2]].status \in Terminal
      BY <2>1 DEF HInv, PrevIsDone
    <3>2. prev[w][2] # i
      BY <2>2, <3>1 DEF StepIds
    <3> QED
      BY <3>2 DEF Signature
  <2>5. \/ pc'[w] = "idle" /\ status'[w] \in {"dispatch_error", "iteration_cap_exceeded"}
        \/ pc'[w] = "attempt" /\ step'[w] = i /\ prev'[w][2] = i /\ status'[w] = status[w]
    BY <1>0, <2>1, <2>4 DEF TypeOK, Finish, Go, Signature
  <2> HIDE DEF i
  <2>6. AlwaysProgress'
    BY <1>0, <2>5, OthersStay DEF HInv, AlwaysProgress
  <2>7. PrevIsDone'
    BY <1>0, <2>3, <2>5, PrevOfOthers DEF OnStep
  <2>8. ASSUME NEW j \in StepIds, disk'.steps[j].status = "running", holder'[j] # Nobody
        PROVE  \/ pc'[holder'[j]] \in OnStep /\ step'[holder'[j]] = j
               \/ pc'[holder'[j]] = "idle" /\ status'[holder'[j]] \in Unclean
    <3>1. CASE j = i
      BY <1>0, <2>1, <2>5, <3>1 DEF i, TypeOK, OnStep, Unclean
    <3>2. CASE j # i
      <4>1. holder'[j] = holder[j] /\ disk.steps[j].status = "running" /\ holder[j] \in Workers
        BY <1>0, <2>1, <2>2, <2>8, <3>2 DEF i, TypeOK
      <4>2. \/ pc[holder[j]] \in OnStep /\ step[holder[j]] = j
            \/ pc[holder[j]] = "idle" /\ status[holder[j]] \in Unclean
        BY <2>8, <4>1 DEF HInv, NoOrphan
      <4>3. holder[j] # w
        BY <2>1, <4>2 DEF OnStep
      <4> QED
        BY <1>0, <4>1, <4>2, <4>3, OthersStay DEF HInv
    <3> QED
      BY <3>1, <3>2
  <2> QED
    BY <2>6, <2>7, <2>8 DEF NoOrphan
<1> QED
  BY <1>1, <1>2

LEMMA StartHolds ==
  ASSUME HInv, NEW w \in Workers, Start(w)
  PROVE  AlwaysProgress' /\ PrevIsDone' /\ NoOrphan'
<1>0. TypeOK /\ Moves(w) /\ UNCHANGED disk
  BY DEF HInv, IInv, TypeOK, Moves, Start
<1>1. pc'[w] = "claim" /\ prev'[w] = <<0, 0>> /\ status'[w] = "none"
  BY <1>0 DEF Start, TypeOK
<1>2. AlwaysProgress'
  BY <1>0, <1>1, OthersStay DEF HInv, AlwaysProgress
<1>3. PrevIsDone'
  <2>1. KeepsFinal(disk, disk')
    BY <1>0 DEF KeepsFinal, TypeOK
  <2> QED
    BY <1>0, <1>1, <2>1, PrevOfOthers DEF OnStep
<1>4. ASSUME NEW i \in StepIds, disk'.steps[i].status = "running", holder'[i] # Nobody
      PROVE  \/ pc'[holder'[i]] \in OnStep /\ step'[holder'[i]] = i
             \/ pc'[holder'[i]] = "idle" /\ status'[holder'[i]] \in Unclean
  <2>1. holder'[i] = holder[i] /\ holder[i] # w /\ holder[i] \in Workers
    BY <1>0, <1>4 DEF Start, TypeOK
  <2>2. \/ pc[holder[i]] \in OnStep /\ step[holder[i]] = i
        \/ pc[holder[i]] = "idle" /\ status[holder[i]] \in Unclean
    BY <1>0, <1>4, <2>1 DEF HInv, NoOrphan
  <2> QED
    BY <1>0, <2>1, <2>2, OthersStay DEF HInv
<1> QED
  BY <1>2, <1>3, <1>4 DEF NoOrphan

LEMMA InitHeld == Init => HInv
  BY InitInv DEF Init, HInv, AlwaysProgress, PrevIsDone, NoOrphan, OnStep

LEMMA NextHeld == HInv /\ [Next]_vars => HInv'
<1> SUFFICES ASSUME HInv, [Next]_vars PROVE AlwaysProgress' /\ PrevIsDone' /\ NoOrphan'
  BY NextInv DEF HInv
<1>1. CASE Tick \/ UNCHANGED vars
  <2>1. UNCHANGED <<disk, pc, step, prev, status, holder>>
    BY <1>1 DEF Tick, vars, loopVars, taskVars
  <2> QED
    BY <2>1 DEF HInv, AlwaysProgress, PrevIsDone, NoOrphan
<1>2. ASSUME NEW w \in Workers, Moves(w)
      PROVE  AlwaysProgress' /\ PrevIsDone' /\ NoOrphan'
  <2>1. CASE LeaveLoop(w) \/ Attempt(w) \/ Answer(w) \/ Brief(w) \/ Briefed(w) \/ Interrupt(w) \/ Kill(w)
    <3>1. UNCHANGED <<disk, holder>>
      BY <2>1 DEF LeaveLoop, Attempt, Answer, Brief, Briefed, Interrupt, Kill
    <3> QED
      BY <2>1, <3>1, NoWrite
  <2> QED
    BY <1>2, <2>1, Records, ClaimsHeld, StartHolds DEF Moves, Proceed
<1> QED
  BY <1>1, <1>2 DEF Next, Moves

-----------------------------------------------------------------------------
(* Theorems. *)

LEMMA Inductive == Spec => []IInv
<1>1. QED
  BY InitInv, NextInv, PTL DEF Spec

\* Every variable keeps its type: the clock and the counters stay within their limits, a
\* claimed step is one of the bundle's, and the bundle's statuses are the five known ones.
THEOREM TypeCorrect == Spec => []TypeOK
<1>1. IInv => TypeOK
  BY DEF IInv
<1>2. QED
  BY <1>1, Inductive, PTL

\* run_loop_auto briefs, and reports a bundle complete, only when every segment of it has
\* succeeded, and that stays true.
THEOREM CompleteBundlesAreWhole == Spec => []CompleteIsWhole
<1>1. IInv => CompleteIsWhole
  BY DEF IInv
<1>2. QED
  BY <1>1, Inductive, PTL

\* Every segment that a run reports as succeeded or failed has a final result in the store.
THEOREM ReportsAreFinal == Spec => []ReportedIsFinal
<1>1. IInv => ReportedIsFinal
  BY DEF IInv
<1>2. QED
  BY <1>1, Inductive, PTL

\* The guard against a queue that makes no progress never fires on the real store.
THEOREM GuardNeverFires == Spec => []AlwaysProgress
<1>1. HInv => AlwaysProgress
  BY DEF HInv
<1>2. QED
  BY InitHeld, NextHeld, <1>1, PTL DEF Spec

\* A step is left running without a worker only by the worker's own unclean end: by no
\* exception that the loop handles, and by no other worker.
THEOREM NothingOrphaned == Spec => []NoOrphan
<1>1. HInv => NoOrphan
  BY DEF HInv
<1>2. QED
  BY InitHeld, NextHeld, <1>1, PTL DEF Spec
=============================================================================
