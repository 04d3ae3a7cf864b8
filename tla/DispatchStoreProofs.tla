------------------------ MODULE DispatchStoreProofs -------------------------
(***************************************************************************)
(* Theorems about DispatchStore for any set of processes, calls, plans,    *)
(* payloads and owners, any number of steps, any lease and any clock       *)
(* bound.  Everything rests on one inductive invariant, IInv: types, the   *)
(* agreement of each process's request and reply with its pc (Control),    *)
(* NoLostUpdate, and the truth of every answer given (Answers).            *)
(***************************************************************************)
EXTENDS DispatchStore, DispatchBundleProofs

Control ==
  \A p \in Procs :
    /\ pc[p] = "idle" <=> req[p] = NoReq
    /\ pc[p] \in {"flock", "load", "replace", "read"} => reply[p] = NoReply
    /\ pc[p] \in {"unlock", "return"} => reply[p] # NoReply
    /\ pc[p] = "read" => req[p].op = "brief"
    /\ pc[p] = "replace" => temp[p] # NoTemp
    /\ req[p].op = "next" => req[p].at <= now

Answers == AnswerStands /\ BriefingStands

IInv == TypeOK /\ Control /\ NoLostUpdate /\ Answers

-----------------------------------------------------------------------------
(* Requests and replies. *)

\* The placeholders are no requests and no replies.
LEMMA Placeholders == /\ NoReq \notin Requests /\ NoReply \notin Replies
                      /\ NoReq.op # "next" /\ NoReq.op # "brief"
                      /\ NoTemp \notin [reply : Replies, file : Bundles]
  BY DEF NoReq, NoReply, NoTemp, Requests, PersistRequests, NextRequests, RecordRequests,
         BriefRequests, Replies, Raised

\* A call is a request once its time is noted.
LEMMA AtType ==
  ASSUME NEW r \in Calls, NEW t \in Nat
  PROVE  /\ D!At(r, t) \in Requests
         /\ D!At(r, t).op = r.op
         /\ D!At(r, t).op = "next" => D!At(r, t).at = t
  BY CallsType DEF D!At, CallRequests, Requests, PersistRequests, NextRequests, RecordRequests,
         BriefRequests

\* A placeholder answers nothing.
LEMMA NoReplyAnswers == ASSUME NEW f PROVE AnswerIn(NoReply, f) /\ BriefingIn(NoReply, f)
  BY DEF NoReply, AnswerIn, ResultIn, BundleIn, BriefingIn

\* Neither does an error.
LEMMA RaisedAnswers == ASSUME NEW f PROVE AnswerIn(Raised, f) /\ BriefingIn(Raised, f) /\ Raised \in Replies
  BY DEF Raised, AnswerIn, ResultIn, BundleIn, BriefingIn, Replies

-----------------------------------------------------------------------------
(* The steps that the store takes on the file. *)

\* A working process has a request and, before it answers, the time of its call has come.
LEMMA Working ==
  ASSUME IInv, NEW p \in Procs, pc[p] # "idle"
  PROVE  /\ req[p] \in Requests
         /\ req[p].op = "next" => req[p].at <= now
         /\ now \in D!Since(req[p])
  BY DEF IInv, TypeOK, Control, D!Since

\* An outcome computed by Load or Read.
LEMMA LoadOutcome ==
  ASSUME IInv, NEW p \in Procs, pc[p] \in {"load", "read"}, NEW o \in Outcomes(req[p], disk, now)
  PROVE  /\ o = [reply |-> o.reply, file |-> o.file]
         /\ o.reply \in Replies
         /\ o.file # disk => o.file \in Bundles
         /\ pc[p] = "read" => o.file = disk
         /\ AnswerIn(o.reply, o.file) /\ BriefingIn(o.reply, o.file)
<1>1. req[p] \in Requests /\ disk \in Files /\ now \in Nat
  BY Working DEF IInv, TypeOK
<1>2. pc[p] = "read" => req[p].op = "brief"
  BY DEF IInv, Control
<1>3. QED
  BY <1>1, <1>2, OutcomesType, OutcomesAnswer

\* The file about to be renamed into place, whenever its outcome was computed.
LEMMA ReplaceOutcome ==
  ASSUME IInv, NEW p \in Procs, pc[p] = "replace"
  PROVE  /\ temp[p].file \in Bundles /\ temp[p].reply \in Replies
         /\ AnswerIn(temp[p].reply, temp[p].file) /\ BriefingIn(temp[p].reply, temp[p].file)
         /\ KeepsFinal(disk, temp[p].file) /\ KeepsIdentity(disk, temp[p].file)
         /\ KeepsLease(disk, temp[p].file, now)
<1>1. req[p] \in Requests /\ disk \in Files /\ now \in Nat
      /\ (req[p].op = "next" => req[p].at <= now)
  BY Working DEF IInv, TypeOK
<1>2. PICK t \in D!Since(req[p]) : temp[p] \in Outcomes(req[p], disk, t)
  BY DEF IInv, NoLostUpdate
<1>3. t \in Nat
  BY <1>1 DEF D!Since
<1>4. temp[p] \in [reply : Replies, file : Bundles]
  BY DEF IInv, TypeOK, Control
<1>5. QED
  BY <1>1, <1>2, <1>3, <1>4, OutcomesAnswer, OutcomesKeepFinal, OutcomesKeepIdentity, OutcomesKeepLease

-----------------------------------------------------------------------------
(* IInv is inductive. *)

\* It holds when no process has called yet.
LEMMA InitInv == Init => IInv
<1>. SUFFICES ASSUME Init PROVE IInv
  OBVIOUS
<1>1. TypeOK
  BY LegacyType DEF Init, TypeOK, PCs
<1>2. Control
  BY Placeholders DEF Init, Control
<1>3. NoLostUpdate
  BY FreeIsNoProcess DEF Init, NoLostUpdate, InSection
<1>4. Answers
  BY NoReplyAnswers DEF Init, Answers, AnswerStands, BriefingStands
<1>5. QED
  BY <1>1, <1>2, <1>3, <1>4 DEF IInv

\* Answers survive a step that keeps finished steps and gives one process a true answer.
LEMMA AnswersStep ==
  ASSUME IInv, disk' \in Files, KeepsFinal(disk, disk'), KeepsIdentity(disk, disk'),
         NEW p \in Procs, NEW a, AnswerIn(a, disk'), BriefingIn(a, disk'),
         reply' = [reply EXCEPT ![p] = a]
  PROVE  Answers'
<1>1. ASSUME NEW q \in Procs
      PROVE  AnswerIn(reply'[q], disk') /\ BriefingIn(reply'[q], disk')
  <2>1. CASE q = p
    BY <2>1 DEF IInv, TypeOK
  <2>2. CASE q # p /\ reply[q] \in Replies
    <3>1. reply'[q] = reply[q]
      BY <2>2 DEF IInv, TypeOK
    <3>2. AnswerIn(reply[q], disk) /\ BriefingIn(reply[q], disk) /\ disk \in Files
      BY DEF IInv, TypeOK, Answers, AnswerStands, BriefingStands
    <3>3. QED
      BY <2>2, <3>1, <3>2, AnswerKept
  <2>3. CASE q # p /\ reply[q] = NoReply
    BY <2>3, NoReplyAnswers DEF IInv, TypeOK
  <2>4. QED
    BY <2>1, <2>2, <2>3 DEF IInv, TypeOK
<1>2. QED
  BY <1>1 DEF Answers, AnswerStands, BriefingStands

\* A file left alone keeps everything.
LEMMA SameFile == ASSUME disk' = disk, IInv
                  PROVE  /\ disk' \in Files /\ KeepsFinal(disk, disk') /\ KeepsIdentity(disk, disk')
                         /\ KeepsLease(disk, disk', now)
  BY FileKinds DEF KeepsFinal, KeepsIdentity, KeepsLease, IInv, TypeOK

\* Calling: only the caller's request, reply and pc change.
LEMMA CallInv == ASSUME IInv, NEW p \in Procs, NEW r \in Calls, Call(p, r) PROVE IInv'
<1>. USE DEF Call
<1>1. TypeOK'
  BY AtType DEF IInv, TypeOK, PCs
<1>2. Control'
  <2>1. D!At(r, now) # NoReq /\ D!At(r, now).op = r.op
        /\ (r.op = "next" => D!At(r, now).at = now)
    BY AtType, Placeholders DEF IInv, TypeOK
  <2>2. QED
    BY <2>1 DEF IInv, TypeOK, Control
<1>3. NoLostUpdate'
  BY DEF IInv, TypeOK, NoLostUpdate, InSection, D!Since
<1>4. Answers'
  BY SameFile, AnswersStep, NoReplyAnswers
<1>5. QED
  BY <1>1, <1>2, <1>3, <1>4 DEF IInv

\* Taking the lock: there is no other process in the critical section.
LEMMA FlockInv == ASSUME IInv, NEW p \in Procs, Flock(p) PROVE IInv'
<1>. USE DEF Flock
<1>1. TypeOK'
  BY DEF IInv, TypeOK, PCs
<1>2. Control'
  BY DEF IInv, TypeOK, Control
<1>3. NoLostUpdate'
  BY FreeIsNoProcess DEF IInv, TypeOK, NoLostUpdate, InSection, D!Since
<1>4. Answers'
  BY DEF IInv, Answers, AnswerStands, BriefingStands
<1>5. QED
  BY <1>1, <1>2, <1>3, <1>4 DEF IInv

\* Deciding on the copy in memory.
LEMMA LoadInv == ASSUME IInv, NEW p \in Procs, Load(p) PROVE IInv'
<1>. USE DEF Load
<1>. PICK o \in Outcomes(req[p], disk, now) :
       IF o.file = disk
       THEN /\ reply' = [reply EXCEPT ![p] = o.reply]
            /\ pc' = [pc EXCEPT ![p] = "unlock"]
            /\ UNCHANGED temp
       ELSE /\ temp' = [temp EXCEPT ![p] = o]
            /\ pc' = [pc EXCEPT ![p] = "replace"]
            /\ UNCHANGED reply
  OBVIOUS
<1>0. /\ o = [reply |-> o.reply, file |-> o.file]
      /\ o.reply \in Replies
      /\ o.file # disk => o.file \in Bundles
      /\ AnswerIn(o.reply, o.file) /\ BriefingIn(o.reply, o.file)
  BY LoadOutcome
<1>1. CASE o.file = disk
  <2>1. TypeOK'
    BY <1>0, <1>1 DEF IInv, TypeOK, PCs
  <2>2. Control'
    BY <1>0, <1>1, Placeholders DEF IInv, TypeOK, Control
  <2>3. NoLostUpdate'
    BY <1>1 DEF IInv, TypeOK, NoLostUpdate, InSection, D!Since
  <2>4. Answers'
    BY <1>0, <1>1, SameFile, AnswersStep
  <2>5. QED
    BY <2>1, <2>2, <2>3, <2>4 DEF IInv
<1>2. CASE o.file # disk
  <2>1. o \in [reply : Replies, file : Bundles]
    BY <1>0, <1>2
  <2>2. TypeOK'
    BY <1>2, <2>1 DEF IInv, TypeOK, PCs
  <2>3. Control'
    BY <1>2, <2>1, Placeholders DEF IInv, TypeOK, Control
  <2>4. NoLostUpdate'
    <3>1. now \in D!Since(req[p])
      BY Working
    <3>2. QED
      BY <1>2, <3>1 DEF IInv, TypeOK, NoLostUpdate, InSection, D!Since
  <2>5. Answers'
    BY <1>2 DEF IInv, Answers, AnswerStands, BriefingStands
  <2>6. QED
    BY <2>2, <2>3, <2>4, <2>5 DEF IInv
<1>3. QED
  BY <1>1, <1>2

\* Renaming: the only step that writes the bundle.
LEMMA ReplaceInv == ASSUME IInv, NEW p \in Procs, Replace(p) PROVE IInv'
<1>. USE DEF Replace
<1>. PICK a \in {temp[p].reply, Raised} : reply' = [reply EXCEPT ![p] = a]
  OBVIOUS
<1>0. /\ disk' \in Bundles /\ a \in Replies
      /\ AnswerIn(a, disk') /\ BriefingIn(a, disk')
      /\ KeepsFinal(disk, disk') /\ KeepsIdentity(disk, disk')
  BY ReplaceOutcome, RaisedAnswers
<1>1. TypeOK'
  BY <1>0, FileKinds DEF IInv, TypeOK, PCs
<1>2. Control'
  BY <1>0, Placeholders DEF IInv, TypeOK, Control
<1>3. NoLostUpdate'
  BY DEF IInv, TypeOK, NoLostUpdate, InSection, D!Since
<1>4. Answers'
  BY <1>0, FileKinds, AnswersStep
<1>5. QED
  BY <1>1, <1>2, <1>3, <1>4 DEF IInv

\* Failing before the rename.
LEMMA OSErrorInv == ASSUME IInv, NEW p \in Procs, OSError(p) PROVE IInv'
<1>. USE DEF OSError
<1>1. TypeOK'
  BY RaisedAnswers DEF IInv, TypeOK, PCs
<1>2. Control'
  BY RaisedAnswers, Placeholders DEF IInv, TypeOK, Control, InSection
<1>3. NoLostUpdate'
  BY DEF IInv, TypeOK, NoLostUpdate, InSection, D!Since
<1>4. Answers'
  BY RaisedAnswers, SameFile, AnswersStep
<1>5. QED
  BY <1>1, <1>2, <1>3, <1>4 DEF IInv

\* Releasing the lock.
LEMMA UnlockInv == ASSUME IInv, NEW p \in Procs, Unlock(p) PROVE IInv'
<1>. USE DEF Unlock
<1>1. TypeOK'
  BY DEF IInv, TypeOK, PCs
<1>2. Control'
  BY DEF IInv, TypeOK, Control
<1>3. NoLostUpdate'
  BY FreeIsNoProcess DEF IInv, TypeOK, NoLostUpdate, InSection, D!Since
<1>4. Answers'
  BY DEF IInv, Answers, AnswerStands, BriefingStands
<1>5. QED
  BY <1>1, <1>2, <1>3, <1>4 DEF IInv

\* Reading a briefing without the lock.
LEMMA ReadInv == ASSUME IInv, NEW p \in Procs, Read(p) PROVE IInv'
<1>. USE DEF Read
<1>. PICK o \in Outcomes(req[p], disk, now) : reply' = [reply EXCEPT ![p] = o.reply]
  OBVIOUS
<1>0. o.reply \in Replies /\ AnswerIn(o.reply, disk) /\ BriefingIn(o.reply, disk)
  BY LoadOutcome
<1>1. TypeOK'
  BY <1>0 DEF IInv, TypeOK, PCs
<1>2. Control'
  BY <1>0, Placeholders DEF IInv, TypeOK, Control
<1>3. NoLostUpdate'
  BY DEF IInv, TypeOK, NoLostUpdate, InSection, D!Since
<1>4. Answers'
  BY <1>0, SameFile, AnswersStep
<1>5. QED
  BY <1>1, <1>2, <1>3, <1>4 DEF IInv

\* Returning: the answer stays what it was.
LEMMA ReturnInv == ASSUME IInv, NEW p \in Procs, Return(p) PROVE IInv'
<1>. USE DEF Return
<1>1. TypeOK'
  BY DEF IInv, TypeOK, PCs
<1>2. Control'
  BY Placeholders DEF IInv, TypeOK, Control
<1>3. NoLostUpdate'
  BY DEF IInv, TypeOK, NoLostUpdate, InSection, D!Since
<1>4. Answers'
  BY DEF IInv, Answers, AnswerStands, BriefingStands
<1>5. QED
  BY <1>1, <1>2, <1>3, <1>4 DEF IInv

\* Being killed: the kernel drops the lock.
LEMMA CrashInv == ASSUME IInv, NEW p \in Procs, Crash(p) PROVE IInv'
<1>. USE DEF Crash
<1>1. TypeOK'
  BY DEF IInv, TypeOK, PCs
<1>2. Control'
  BY Placeholders DEF IInv, TypeOK, Control
<1>3. NoLostUpdate'
  BY FreeIsNoProcess DEF IInv, TypeOK, NoLostUpdate, InSection, D!Since
<1>4. Answers'
  BY NoReplyAnswers, SameFile, AnswersStep
<1>5. QED
  BY <1>1, <1>2, <1>3, <1>4 DEF IInv

\* Time passing widens the times since a call.
LEMMA TickInv == ASSUME IInv, Tick PROVE IInv'
<1>. USE DEF Tick
<1>1. TypeOK'
  BY DEF IInv, TypeOK
<1>2. Control'
  <2>1. ASSUME NEW p \in Procs, req[p].op = "next"
        PROVE  req[p].at <= now + 1
    <3>1. req[p] \in NextRequests /\ req[p].at <= now
      BY <2>1, Placeholders DEF IInv, TypeOK, Control, Requests, PersistRequests, RecordRequests, BriefRequests
    <3>2. QED
      BY <3>1 DEF IInv, TypeOK, NextRequests
  <2>2. QED
    BY <2>1 DEF IInv, Control
<1>3. NoLostUpdate'
  <2>1. ASSUME NEW p \in Procs
        PROVE  D!Since(req[p]) \subseteq D!Since(req[p])'
    BY DEF IInv, TypeOK, D!Since
  <2>2. QED
    BY <2>1 DEF IInv, NoLostUpdate, InSection
<1>4. Answers'
  BY DEF IInv, Answers, AnswerStands, BriefingStands
<1>5. QED
  BY <1>1, <1>2, <1>3, <1>4 DEF IInv

\* Every step keeps it.
LEMMA NextInv == IInv /\ [Next]_vars => IInv'
<1>. SUFFICES ASSUME IInv, [Next]_vars PROVE IInv'
  OBVIOUS
<1>1. CASE UNCHANGED vars
  BY <1>1 DEF vars, IInv, TypeOK, Control, NoLostUpdate, InSection, D!Since, Answers,
              AnswerStands, BriefingStands
<1>2. CASE Tick
  BY <1>2, TickInv
<1>3. ASSUME NEW p \in Procs, NEW r \in Calls, Call(p, r) PROVE IInv'
  BY <1>3, CallInv
<1>4. ASSUME NEW p \in Procs, Proceed(p) \/ OSError(p) \/ Crash(p) PROVE IInv'
  BY <1>4, FlockInv, LoadInv, ReplaceInv, OSErrorInv, UnlockInv, ReadInv, ReturnInv, CrashInv
     DEF Proceed
<1>5. QED
  BY <1>1, <1>2, <1>3, <1>4 DEF Next

\* The invariant holds in every reachable state.
LEMMA Invariance == Spec => []IInv
  BY InitInv, NextInv, PTL DEF Spec

-----------------------------------------------------------------------------
(* Safety. *)

\* Every variable keeps its type.
THEOREM TypeCorrect == Spec => []TypeOK
<1>1. IInv => TypeOK
  BY DEF IInv
<1>2. QED
  BY Invariance, <1>1, PTL

\* No read-modify-write of the bundle loses another's, whoever is killed when.
THEOREM NoUpdateIsLost == Spec => []NoLostUpdate
<1>1. IInv => NoLostUpdate
  BY DEF IInv
<1>2. QED
  BY Invariance, <1>1, PTL

\* What a caller was told about a final result stays true.
THEOREM EveryAnswerStands == Spec => []AnswerStands
<1>1. IInv => AnswerStands
  BY DEF IInv, Answers
<1>2. QED
  BY Invariance, <1>1, PTL

\* So does what a briefing, or a drained queue's synthesis_ready, told its caller.
THEOREM EveryBriefingStands == Spec => []BriefingStands
<1>1. IInv => BriefingStands
  BY DEF IInv, Answers
<1>2. QED
  BY Invariance, <1>1, PTL

-----------------------------------------------------------------------------
(* What steps do to the file. *)

\* One step of the store keeps what no operation may change.
LEMMA StepKeeps ==
  ASSUME IInv, [Next]_vars
  PROVE  KeepsFinal(disk, disk') /\ KeepsIdentity(disk, disk') /\ KeepsLease(disk, disk', now)
<1>1. CASE disk' = disk
  BY <1>1, SameFile
<1>2. ASSUME NEW p \in Procs, Replace(p)
      PROVE  KeepsFinal(disk, disk') /\ KeepsIdentity(disk, disk') /\ KeepsLease(disk, disk', now)
  BY <1>2, ReplaceOutcome DEF Replace
<1>3. disk' = disk \/ \E p \in Procs : Replace(p)
  BY DEF Next, vars, Proceed, Call, Flock, Load, OSError, Unlock, Read, Return, Crash, Tick
<1>4. QED
  BY <1>1, <1>2, <1>3

\* A finished segment's result never changes.
THEOREM FinalStays == Spec => TerminalFinal
<1>1. IInv /\ [Next]_vars => [KeepsFinal(disk, disk')]_vars
  BY StepKeeps
<1>2. QED
  BY Invariance, <1>1, PTL DEF Spec, TerminalFinal

\* A stored bundle keeps its owner and segments, and unreadable bytes are not replaced.
THEOREM FirstBundleStays == Spec => FirstBundleWins
<1>1. IInv /\ [Next]_vars => [KeepsIdentity(disk, disk')]_vars
  BY StepKeeps
<1>2. QED
  BY Invariance, <1>1, PTL DEF Spec, FirstBundleWins

\* A running step changes hands only after a whole lease.
THEOREM LeaseIsRespected == Spec => LeaseRespected
<1>1. IInv /\ [Next]_vars => [KeepsLease(disk, disk', now)]_vars
  BY StepKeeps
<1>2. QED
  BY Invariance, <1>1, PTL DEF Spec, LeaseRespected

-----------------------------------------------------------------------------
(* The store implements the atomic store of Dispatch: the operation takes  *)
(* effect at the rename, or at the read when nothing is to be written.     *)

\* Both modules compute the same outcomes.
LEMMA SameOutcomes == ASSUME NEW r, NEW f, NEW t PROVE D!Outcomes(r, f, t) = Outcomes(r, f, t)
<1>1. /\ D!Absent = Absent /\ D!Corrupt = Corrupt /\ D!StepIds = StepIds
      /\ D!Terminal = Terminal /\ D!Waiting = Waiting
      /\ D!Raised = Raised /\ D!Stored(r) = Stored(r) /\ D!Idempotent(r) = Idempotent(r)
  BY DEF Absent, Corrupt, StepIds, Terminal, Waiting, Raised, Stored, Idempotent, D!Absent,
         D!Corrupt, D!StepIds, D!Terminal, D!Waiting, D!Raised, D!Stored, D!Idempotent
<1>2. /\ \A why : D!Refused(why, r) = Refused(why, r)
      /\ \A a, g : D!Outcome(a, g) = Outcome(a, g)
      /\ \A b, i : D!Claim(b, i, t) = Claim(b, i, t)
      /\ \A b, i, s, v : D!Record(b, i, s, v) = Record(b, i, s, v)
      /\ \A b : D!Remaining(b) = Remaining(b)
      /\ \A b : D!Missing(b) = Missing(b)
      /\ \A b : D!Results(b) = Results(b)
  <2>1. \A why : D!Refused(why, r) = Refused(why, r)
    BY DEF Refused, D!Refused
  <2>2. \A a, g : D!Outcome(a, g) = Outcome(a, g)
    BY DEF Outcome, D!Outcome
  <2>3. \A b, i : D!Claim(b, i, t) = Claim(b, i, t)
    BY DEF Claim, D!Claim
  <2>4. \A b, i, s, v : D!Record(b, i, s, v) = Record(b, i, s, v)
    BY DEF Record, D!Record
  <2>5. \A b : D!Remaining(b) = Remaining(b)
    <3>1. \A S : D!Cardinality(S) = Cardinality(S)
      BY DEF Cardinality, D!Cardinality
    <3>2. QED
      BY <1>1, <3>1 DEF Remaining, D!Remaining
  <2>6. \A b : D!Missing(b) = Missing(b)
    BY <1>1 DEF Missing, D!Missing
  <2>7. \A b : D!Results(b) = Results(b)
    BY <1>1 DEF Results, D!Results
  <2>8. QED
    BY <2>1, <2>2, <2>3, <2>4, <2>5, <2>6, <2>7
<1>3. D!PersistOutcomes(r, f) = PersistOutcomes(r, f)
  <2>1. D!PersistReply(r, f) = PersistReply(r, f)
    BY <1>1, <1>2 DEF PersistReply, D!PersistReply
  <2>2. D!FreshBundle(r.owner, r.plan) = FreshBundle(r.owner, r.plan)
    BY <1>1 DEF FreshBundle, D!FreshBundle
  <2>3. QED
    BY <1>1, <1>2, <2>1, <2>2 DEF PersistOutcomes, D!PersistOutcomes
<1>4. D!NextOutcomes(r, f, t) = NextOutcomes(r, f, t)
  <2>1. \A s : D!StaleRunning(s, r.at) = StaleRunning(s, r.at)
    BY DEF StaleRunning, D!StaleRunning
  <2>2. D!Claimable(f, r.at) = Claimable(f, r.at)
    BY <1>1, <2>1 DEF Claimable, D!Claimable
  <2>3. D!FirstClaimable(f, r.at) = FirstClaimable(f, r.at)
    BY <2>2 DEF FirstClaimable, D!FirstClaimable
  <2>4. D!Drained(f) = Drained(f)
    BY <1>2 DEF Drained, D!Drained
  <2>5. \A b, i : D!Handed(b, i) = Handed(b, i)
    BY <1>2 DEF Handed, D!Handed
  <2>6. QED
    BY <1>2, <2>2, <2>3, <2>4, <2>5 DEF NextOutcomes, D!NextOutcomes
<1>5. D!RecordOutcomes(r, f) = RecordOutcomes(r, f)
  <2>1. \A i, s, v : D!Recorded(i, s, v) = Recorded(i, s, v)
    BY DEF Recorded, D!Recorded
  <2>2. \A i, s : D!AlreadyRecorded(i, s) = AlreadyRecorded(i, s)
    BY DEF AlreadyRecorded, D!AlreadyRecorded
  <2>3. QED
    BY <1>1, <1>2, <2>1, <2>2 DEF RecordOutcomes, D!RecordOutcomes
<1>6. D!BriefOutcomes(f) = BriefOutcomes(f)
  BY <1>2 DEF BriefOutcomes, D!BriefOutcomes, Briefing, D!Briefing, NotReady, D!NotReady
<1>7. QED
  BY <1>1, <1>2, <1>3, <1>4, <1>5, <1>6 DEF Outcomes, D!Outcomes

\* Both modules have the same placeholders.
LEMMA SamePlaceholders == D!NoReq = NoReq /\ D!NoReply = NoReply /\ D!Raised = Raised
  BY DEF NoReq, NoReply, Raised, D!NoReq, D!NoReply, D!Raised

\* Initial states are initial states.
LEMMA InitRefines == Init => D!Init
  BY SamePlaceholders DEF Init, D!Init

\* A process that works on the file, and so has not answered yet, has a request.
LEMMA Unanswered ==
  ASSUME IInv, NEW p \in Procs, pc[p] \in {"flock", "load", "replace", "read"}
  PROVE  req[p] # NoReq /\ reply[p] = NoReply
  BY DEF IInv, Control

\* Steps that read or write the file are the operation, at the time its outcome was computed.
LEMMA PerformStep ==
  ASSUME IInv, NEW p \in Procs, pc[p] \in {"load", "replace", "read"},
         NEW t \in D!Since(req[p]), NEW o \in Outcomes(req[p], disk, t), NEW a \in {o.reply, Raised},
         disk' = o.file, reply' = [reply EXCEPT ![p] = a], UNCHANGED <<now, req>>
  PROVE  D!Perform(p)
<1>1. req[p] # D!NoReq /\ reply[p] = D!NoReply
  BY Unanswered, SamePlaceholders
<1>2. o \in D!Outcomes(req[p], disk, t) /\ a \in {o.reply, D!Raised}
  BY SameOutcomes, SamePlaceholders
<1>3. QED
  BY <1>1, <1>2 DEF D!Perform

\* Every step is a step of the atomic store, or none.
LEMMA NextRefines == IInv /\ [Next]_vars => [D!Next]_(D!vars)
<1>. SUFFICES ASSUME IInv, [Next]_vars PROVE [D!Next]_(D!vars)
  OBVIOUS
<1>1. CASE UNCHANGED vars
  BY <1>1 DEF vars, D!vars
<1>2. CASE Tick
  BY <1>2 DEF Tick, D!Tick, D!Next
<1>3. ASSUME NEW p \in Procs, NEW r \in Calls, Call(p, r) PROVE D!Call(p, r)
  BY <1>3, SamePlaceholders DEF Call, D!Call, IInv, Control
<1>4. ASSUME NEW p \in Procs, Flock(p) \/ Unlock(p) PROVE UNCHANGED D!vars
  BY <1>4 DEF Flock, Unlock, D!vars
<1>5. ASSUME NEW p \in Procs, Load(p) PROVE D!Perform(p) \/ UNCHANGED D!vars
  <2>. USE <1>5 DEF Load
  <2>1. PICK o \in Outcomes(req[p], disk, now) :
          IF o.file = disk THEN reply' = [reply EXCEPT ![p] = o.reply] ELSE UNCHANGED reply
    OBVIOUS
  <2>2. CASE o.file = disk
    <3>1. now \in D!Since(req[p])
      BY Working
    <3>2. disk' = o.file /\ reply' = [reply EXCEPT ![p] = o.reply] /\ UNCHANGED <<now, req>>
      BY <2>1, <2>2
    <3>3. QED
      BY <3>1, <3>2, PerformStep
  <2>3. CASE o.file # disk
    BY <2>1, <2>3 DEF D!vars
  <2>4. QED
    BY <2>2, <2>3
<1>6. ASSUME NEW p \in Procs, Replace(p) PROVE D!Perform(p)
  <2>. USE <1>6 DEF Replace
  <2>1. PICK t \in D!Since(req[p]) : temp[p] \in Outcomes(req[p], disk, t)
    BY DEF IInv, NoLostUpdate
  <2>2. PICK a \in {temp[p].reply, Raised} : reply' = [reply EXCEPT ![p] = a]
    OBVIOUS
  <2>3. QED
    BY <2>1, <2>2, PerformStep
<1>7. ASSUME NEW p \in Procs, Read(p) PROVE D!Perform(p)
  <2>. USE <1>7 DEF Read
  <2>1. PICK o \in Outcomes(req[p], disk, now) : reply' = [reply EXCEPT ![p] = o.reply]
    OBVIOUS
  <2>2. now \in D!Since(req[p]) /\ o.file = disk
    BY Working, LoadOutcome
  <2>3. QED
    BY <2>1, <2>2, PerformStep
<1>8. ASSUME NEW p \in Procs, OSError(p) PROVE D!Fail(p)
  BY <1>8, Unanswered, SamePlaceholders DEF OSError, D!Fail
<1>9. ASSUME NEW p \in Procs, Return(p) PROVE D!Return(p)
  BY <1>9, SamePlaceholders DEF Return, D!Return, IInv, Control
<1>10. ASSUME NEW p \in Procs, Crash(p) PROVE D!Crash(p)
  BY <1>10, SamePlaceholders DEF Crash, D!Crash, IInv, Control
<1>11. QED
  BY <1>1, <1>2, <1>3, <1>4, <1>5, <1>6, <1>7, <1>8, <1>9, <1>10 DEF Next, Proceed, D!Next

\* Every operation takes effect at one instant between its call and its return, or not
\* at all, whatever the interleaving, the errors and the kills.
THEOREM StoreIsLinearizable == Spec => Linearizable
  BY InitRefines, NextRefines, Invariance, PTL DEF Spec, D!Spec, Linearizable
=============================================================================
