------------------------ MODULE DispatchBundleProofs ------------------------
(***************************************************************************)
(* Lemmas about the pure operations of DispatchBundle: what type of reply  *)
(* and file they yield, and what they never do to the file.                *)
(***************************************************************************)
EXTENDS DispatchBundle, FiniteSetTheorems, TLAPS

\* The count of open steps in a hand-out is a natural number.
LEMMA RemainingNat == ASSUME NEW b PROVE Remaining(b) \in Nat
<1>. DEFINE open == {i \in StepIds : b.steps[i].status \notin Terminal}
<1>1. IsFiniteSet(StepIds)
  BY NumStepsType, FS_Interval DEF StepIds
<1>2. IsFiniteSet(open)
  BY <1>1, FS_Subset
<1>3. QED
  BY <1>2, FS_CardinalityType DEF Remaining

\* The three kinds of file are told apart by `kind`.
LEMMA FileKinds == /\ Absent # Corrupt /\ Absent \notin Bundles /\ Corrupt \notin Bundles
                   /\ Bundles \subseteq Files
  BY DEF Absent, Corrupt, Bundles, Files

\* What a producer stores is a bundle.
LEMMA FreshType == ASSUME NEW o \in BundleOwners, NEW p \in Plans
                   PROVE FreshBundle(o, p) \in Bundles
  BY BlankIsPayload DEF FreshBundle, Bundles, StepRecords, Status, Waiting

\* Marking a step running touches the status and the stamp of that step only.
LEMMA ClaimType ==
  ASSUME NEW b \in Bundles, NEW i \in StepIds, NEW t \in Nat
  PROVE  /\ Claim(b, i, t) \in Bundles
         /\ Claim(b, i, t).steps = [b.steps EXCEPT ![i].status = "running", ![i].at = t]
<1>1. Claim(b, i, t) = [b EXCEPT !.steps = [b.steps EXCEPT ![i].status = "running", ![i].at = t]]
  BY DEF Claim, Bundles, StepRecords
<1>2. [b.steps EXCEPT ![i].status = "running", ![i].at = t] \in [StepIds -> StepRecords]
  BY DEF Bundles, StepRecords, Status
<1>3. QED
  BY <1>1, <1>2 DEF Bundles

\* Recording a step replaces that step only.
LEMMA RecordType ==
  ASSUME NEW b \in Bundles, NEW i \in StepIds, NEW s \in Status, NEW v \in Payloads
  PROVE  /\ Record(b, i, s, v) \in Bundles
         /\ Record(b, i, s, v).steps = [b.steps EXCEPT ![i] = [status |-> s, payload |-> v, at |-> 0]]
  BY DEF Record, Bundles, StepRecords

\* Neither changes whose bundle it is or what its segments are.
LEMMA ClaimIdentity ==
  ASSUME NEW b \in Bundles, NEW i \in StepIds, NEW t \in Nat
  PROVE  KeepsIdentity(b, Claim(b, i, t))
<1>1. Claim(b, i, t) = [b EXCEPT !.steps = [b.steps EXCEPT ![i].status = "running", ![i].at = t]]
  BY DEF Claim, Bundles, StepRecords
<1>2. Claim(b, i, t).owner = b.owner /\ Claim(b, i, t).plan = b.plan
  BY <1>1 DEF Bundles
<1>3. QED
  BY <1>2, ClaimType, FileKinds DEF KeepsIdentity

\* A record changes neither the owner nor the plan.
LEMMA RecordIdentity ==
  ASSUME NEW b \in Bundles, NEW i \in StepIds, NEW s \in Status, NEW v \in Payloads
  PROVE  KeepsIdentity(b, Record(b, i, s, v))
<1>1. Record(b, i, s, v).owner = b.owner /\ Record(b, i, s, v).plan = b.plan
  BY DEF Record, Bundles
<1>2. Record(b, i, s, v) \in Bundles
  BY RecordType
<1>3. QED
  BY <1>1, <1>2, FileKinds DEF KeepsIdentity

\* persist writes only where there was no file.
LEMMA StoredWhereAbsent ==
  ASSUME NEW r, NEW f, PersistReply(r, f) = Stored(r)
  PROVE  f = Absent
  BY DEF PersistReply, Stored, Refused, Raised, Idempotent

\* persist's answer is one of the replies, and no answer of another operation.
LEMMA PersistReplyType ==
  ASSUME NEW r \in PersistRequests, NEW f
  PROVE  /\ PersistReply(r, f) \in Replies
         /\ PersistReply(r, f).kind \in {"raised", "refused", "stored", "idempotent"}
<1>1. r.owner \in BundleOwners /\ r.plan \in Plans
  BY DEF PersistRequests
<1>2. /\ \A why \in {"invalid_owner", "owner_conflict", "bundle_conflict"} :
           Refused(why, r) \in Replies /\ Refused(why, r).kind = "refused"
      /\ Stored(r) \in Replies /\ Stored(r).kind = "stored"
      /\ Idempotent(r) \in Replies /\ Idempotent(r).kind = "idempotent"
      /\ Raised \in Replies /\ Raised.kind = "raised"
  BY <1>1 DEF Replies, Stored, Refused, Raised, Idempotent
<1>3. QED
  BY <1>2 DEF PersistReply

\* What persist answers of a file that it leaves as it is, is so.
LEMMA PersistAnswers ==
  ASSUME NEW r \in PersistRequests, NEW f \in Files, PersistReply(r, f) # Stored(r)
  PROVE  AnswerIn(PersistReply(r, f), f) /\ BriefingIn(PersistReply(r, f), f)
<1>1. CASE r.owner = BadOwner
  BY <1>1 DEF PersistReply, AnswerIn, ResultIn, BundleIn, BriefingIn, Refused
<1>2. CASE r.owner # BadOwner /\ f \notin Bundles
  BY <1>2 DEF PersistReply, AnswerIn, ResultIn, BundleIn, BriefingIn, Raised, Files
<1>3. CASE r.owner # BadOwner /\ f \in Bundles
  <2>1. f \notin {Absent, Corrupt}
    BY <1>3, FileKinds
  <2>2. CASE f.owner = BadOwner
    BY <1>3, <2>1, <2>2 DEF PersistReply, AnswerIn, ResultIn, BundleIn, BriefingIn, Refused
  <2>3. CASE f.owner # BadOwner /\ (f.owner = NoOwner \/ f.owner # r.owner)
    BY <1>3, <2>1, <2>3 DEF PersistReply, AnswerIn, ResultIn, BundleIn, BriefingIn, Refused
  <2>4. CASE f.owner \notin {BadOwner, NoOwner} /\ f.owner = r.owner
    BY <1>3, <2>1, <2>4
    DEF PersistReply, AnswerIn, ResultIn, BundleIn, BriefingIn, Refused, Idempotent
  <2>5. QED
    BY <2>2, <2>3, <2>4
<1>4. QED
  BY <1>1, <1>2, <1>3

-----------------------------------------------------------------------------
(* The outcomes. *)

\* The request r of an operation that reads the bundle b, and what can come of it: an
\* answer that writes nothing, the claim of a claimable step, or the record of an open one.
LEMMA BundleOutcomes ==
  ASSUME NEW r \in Requests, NEW b \in Bundles, NEW t \in Nat, NEW o \in Outcomes(r, b, t),
         r.op # "persist"
  PROVE  \/ o = Outcome(Raised, b)
         \/ o = Outcome(Drained(b), b)
         \/ o = Outcome(NotReady(b), b)
         \/ o = Outcome(Briefing(b), b) /\ Missing(b) = {}
         \/ \E i \in Claimable(b, r.at) :
              /\ r \in NextRequests
              /\ o = Outcome(Handed(Claim(b, i, t), i), Claim(b, i, t))
         \/ /\ r \in RecordRequests /\ r.step \in StepIds
            /\ \/ /\ b.steps[r.step].status \notin Terminal
                  /\ o = Outcome(Recorded(r.step, r.status, r.payload),
                                 Record(b, r.step, r.status, r.payload))
               \/ /\ b.steps[r.step].status = r.status /\ b.steps[r.step].payload = r.payload
                  /\ o = Outcome(Recorded(r.step, r.status, r.payload), b)
               \/ /\ b.steps[r.step].status \in Terminal
                  /\ o = Outcome(AlreadyRecorded(r.step, b.steps[r.step]), b)
<1>. b \notin {Absent, Corrupt}
  BY FileKinds
<1>1. CASE r \in NextRequests
  <2>1. o \in NextOutcomes(r, b, t)
    BY <1>1 DEF Outcomes, NextRequests
  <2>2. CASE Claimable(b, r.at) = {}
    BY <2>1, <2>2 DEF NextOutcomes
  <2>3. CASE Claimable(b, r.at) # {}
    <3>1. PICK i \in FirstClaimable(b, r.at) :
             o = Outcome(Handed(Claim(b, i, t), i), Claim(b, i, t))
      BY <2>1, <2>3 DEF NextOutcomes
    <3>2. i \in Claimable(b, r.at)
      BY DEF FirstClaimable
    <3>3. QED
      BY <1>1, <3>1, <3>2
  <2>4. QED
    BY <2>2, <2>3
<1>2. CASE r \in RecordRequests
  <2>1. o \in RecordOutcomes(r, b)
    BY <1>2 DEF Outcomes, RecordRequests
  <2>2. QED
    BY <1>2, <2>1 DEF RecordOutcomes
<1>3. CASE r \in BriefRequests
  <2>1. o \in BriefOutcomes(b)
    BY <1>3 DEF Outcomes, BriefRequests
  <2>2. QED
    BY <2>1 DEF BriefOutcomes
<1>4. QED
  BY <1>1, <1>2, <1>3 DEF Requests, PersistRequests

\* The same for the requests that do not find a bundle, and for persist.
LEMMA OtherOutcomes ==
  ASSUME NEW r \in Requests, NEW f \in Files, NEW t \in Nat, NEW o \in Outcomes(r, f, t),
         r.op = "persist" \/ f \notin Bundles
  PROVE  \/ o = Outcome(Raised, f)
         \/ /\ r \in PersistRequests
            /\ \/ PersistReply(r, f) # Stored(r) /\ o = Outcome(PersistReply(r, f), f)
               \/ /\ f = Absent /\ PersistReply(r, f) = Stored(r)
                  /\ o = Outcome(Stored(r), FreshBundle(r.owner, r.plan))
<1>1. CASE r.op = "persist"
  <2>1. o \in PersistOutcomes(r, f)
    BY <1>1 DEF Outcomes
  <2>2. r \in PersistRequests
    BY <1>1 DEF Requests, NextRequests, RecordRequests, BriefRequests
  <2>3. QED
    BY <2>1, <2>2, StoredWhereAbsent DEF PersistOutcomes
<1>2. CASE r.op # "persist"
  <2>1. f \in {Absent, Corrupt}
    BY <1>2 DEF Files
  <2>2. QED
    BY <1>2, <2>1 DEF Outcomes
<1>3. QED
  BY <1>1, <1>2

-----------------------------------------------------------------------------
(* What the outcomes have in common. *)

\* Every outcome has a reply of its type, and writes either nothing or a bundle.
LEMMA OutcomesType ==
  ASSUME NEW r \in Requests, NEW f \in Files, NEW t \in Nat, NEW o \in Outcomes(r, f, t)
  PROVE  /\ o = [reply |-> o.reply, file |-> o.file]
         /\ o.reply \in Replies
         /\ o.file # f => o.file \in Bundles
         /\ r.op = "brief" => o.file = f
<1>1. CASE r.op = "persist" \/ f \notin Bundles
  <2>1. CASE o = Outcome(Raised, f)
    BY <2>1 DEF Outcome, Replies
  <2>2. CASE r \in PersistRequests /\ o = Outcome(PersistReply(r, f), f)
    BY <2>2, PersistReplyType DEF Outcome
  <2>3. CASE r \in PersistRequests /\ o = Outcome(Stored(r), FreshBundle(r.owner, r.plan))
    <3>1. r.owner \in BundleOwners /\ r.plan \in Plans /\ r.op # "brief"
      BY <2>3 DEF PersistRequests
    <3>2. FreshBundle(r.owner, r.plan) \in Bundles
      BY <3>1, FreshType
    <3>3. Stored(r) \in Replies
      BY <3>1 DEF Stored, Replies
    <3>4. QED
      BY <2>3, <3>1, <3>2, <3>3 DEF Outcome
  <2>4. QED
    BY <1>1, <2>1, <2>2, <2>3, OtherOutcomes
<1>2. CASE r.op # "persist" /\ f \in Bundles
  <2>1. CASE o \in {Outcome(Raised, f), Outcome(Drained(f), f), Outcome(NotReady(f), f), Outcome(Briefing(f), f)}
    <3>1. Drained(f) \in Replies
      BY RemainingNat DEF Drained, Replies
    <3>2. NotReady(f) \in Replies
      BY DEF NotReady, Missing, Replies
    <3>3. Briefing(f) \in Replies
      BY <1>2 DEF Briefing, Results, Replies, Bundles, StepRecords
    <3>4. QED
      BY <2>1, <3>1, <3>2, <3>3 DEF Outcome, Replies
  <2>2. ASSUME NEW i \in Claimable(f, r.at), r \in NextRequests,
               o = Outcome(Handed(Claim(f, i, t), i), Claim(f, i, t))
        PROVE  o.file \in Bundles /\ o.reply \in Replies /\ o = [reply |-> o.reply, file |-> o.file] /\ r.op # "brief"
    <3>1. i \in StepIds /\ r.op # "brief"
      BY <2>2 DEF Claimable, NextRequests
    <3>2. Claim(f, i, t) \in Bundles
      BY <1>2, <3>1, ClaimType
    <3>3. Handed(Claim(f, i, t), i) \in Replies
      BY <3>1, RemainingNat DEF Handed, Replies
    <3>4. QED
      BY <2>2, <3>1, <3>2, <3>3 DEF Outcome
  <2>3. ASSUME r \in RecordRequests, r.step \in StepIds,
               o \in {Outcome(Recorded(r.step, r.status, r.payload), Record(f, r.step, r.status, r.payload)),
                      Outcome(Recorded(r.step, r.status, r.payload), f),
                      Outcome(AlreadyRecorded(r.step, f.steps[r.step]), f)}
        PROVE  o.file \in Bundles /\ o.reply \in Replies /\ o = [reply |-> o.reply, file |-> o.file] /\ r.op # "brief"
    <3>1. r.status \in Status /\ r.payload \in Payloads /\ r.op # "brief"
      BY <2>3 DEF RecordRequests, Status, Waiting
    <3>2. Record(f, r.step, r.status, r.payload) \in Bundles
      BY <1>2, <2>3, <3>1, RecordType
    <3>3. Recorded(r.step, r.status, r.payload) \in Replies
      BY <2>3, <3>1 DEF Recorded, Replies
    <3>4. AlreadyRecorded(r.step, f.steps[r.step]) \in Replies
      BY <1>2, <2>3 DEF AlreadyRecorded, Replies, Bundles, StepRecords
    <3>5. QED
      BY <1>2, <2>3, <3>1, <3>2, <3>3, <3>4 DEF Outcome
  <2>4. QED
    BY <1>2, <2>1, <2>2, <2>3, BundleOutcomes DEF Outcome
<1>3. QED
  BY <1>1, <1>2

\* No outcome touches a finished step.
LEMMA OutcomesKeepFinal ==
  ASSUME NEW r \in Requests, NEW f \in Files, NEW t \in Nat, NEW o \in Outcomes(r, f, t)
  PROVE  KeepsFinal(f, o.file)
<1>1. CASE o.file = f
  BY <1>1 DEF KeepsFinal
<1>2. CASE f \notin Bundles
  BY <1>2 DEF KeepsFinal
<1>3. CASE f \in Bundles /\ r.op = "persist"
  BY <1>3, OtherOutcomes, FileKinds DEF KeepsFinal, Outcome
<1>4. CASE f \in Bundles /\ r.op # "persist" /\ o.file # f
  <2>1. ASSUME NEW i \in Claimable(f, r.at), o.file = Claim(f, i, t)
        PROVE  KeepsFinal(f, o.file)
    <3>1. i \in StepIds /\ f.steps[i].status \notin Terminal
      BY <2>1 DEF Claimable, StaleRunning, Terminal, Waiting
    <3>2. o.file \in Bundles /\ o.file.steps = [f.steps EXCEPT ![i].status = "running", ![i].at = t]
      BY <1>4, <2>1, <3>1, ClaimType
    <3>3. QED
      BY <1>4, <3>1, <3>2 DEF KeepsFinal, Bundles
  <2>2. ASSUME r \in RecordRequests, r.step \in StepIds, f.steps[r.step].status \notin Terminal,
               o.file = Record(f, r.step, r.status, r.payload)
        PROVE  KeepsFinal(f, o.file)
    <3>1. r.status \in Status /\ r.payload \in Payloads
      BY <2>2 DEF RecordRequests, Status, Waiting
    <3>2. /\ o.file \in Bundles
          /\ o.file.steps = [f.steps EXCEPT ![r.step] = [status |-> r.status, payload |-> r.payload, at |-> 0]]
      BY <1>4, <2>2, <3>1, RecordType
    <3>3. QED
      BY <1>4, <2>2, <3>2 DEF KeepsFinal, Bundles
  <2>3. QED
    BY <1>4, <2>1, <2>2, BundleOutcomes DEF Outcome
<1>5. QED
  BY <1>1, <1>2, <1>3, <1>4

\* No outcome changes the owner or the segments of a bundle, or replaces unreadable bytes.
LEMMA OutcomesKeepIdentity ==
  ASSUME NEW r \in Requests, NEW f \in Files, NEW t \in Nat, NEW o \in Outcomes(r, f, t)
  PROVE  KeepsIdentity(f, o.file)
<1>1. CASE o.file = f
  BY <1>1, FileKinds DEF KeepsIdentity
<1>2. CASE o.file # f /\ (r.op = "persist" \/ f \notin Bundles)
  BY <1>2, OtherOutcomes, FileKinds DEF KeepsIdentity, Outcome
<1>3. CASE f \in Bundles /\ r.op # "persist" /\ o.file # f
  <2>1. ASSUME NEW i \in Claimable(f, r.at), o.file = Claim(f, i, t)
        PROVE  KeepsIdentity(f, o.file)
    <3>1. i \in StepIds
      BY DEF Claimable
    <3>2. KeepsIdentity(f, Claim(f, i, t))
      BY <1>3, <3>1, ClaimIdentity
    <3>3. QED
      BY <2>1, <3>2
  <2>2. ASSUME r \in RecordRequests, r.step \in StepIds,
               o.file = Record(f, r.step, r.status, r.payload)
        PROVE  KeepsIdentity(f, o.file)
    <3>1. r.status \in Status /\ r.payload \in Payloads
      BY <2>2 DEF RecordRequests, Status, Waiting
    <3>2. KeepsIdentity(f, Record(f, r.step, r.status, r.payload))
      BY <1>3, <2>2, <3>1, RecordIdentity
    <3>3. QED
      BY <2>2, <3>2
  <2>3. QED
    BY <1>3, <2>1, <2>2, BundleOutcomes DEF Outcome
<1>4. QED
  BY <1>1, <1>2, <1>3

\* A running step is claimed again only when its lease had expired at the time of the
\* call, so also at any later time.
LEMMA OutcomesKeepLease ==
  ASSUME NEW r \in Requests, NEW f \in Files, NEW t \in Nat, NEW o \in Outcomes(r, f, t),
         NEW n \in Nat, r.op = "next" => r.at <= n
  PROVE  KeepsLease(f, o.file, n)
<1>1. CASE o.file = f
  BY <1>1 DEF KeepsLease
<1>2. CASE f \notin Bundles
  BY <1>2 DEF KeepsLease
<1>3. CASE f \in Bundles /\ r.op = "persist"
  BY <1>3, OtherOutcomes, FileKinds DEF KeepsLease, Outcome
<1>4. CASE f \in Bundles /\ r.op # "persist" /\ o.file # f
  <2>1. ASSUME NEW i \in Claimable(f, r.at), r \in NextRequests, o.file = Claim(f, i, t)
        PROVE  KeepsLease(f, o.file, n)
    <3>1. i \in StepIds
      BY DEF Claimable
    <3>2. r.at \in Nat /\ r.at <= n
      BY <2>1 DEF NextRequests
    <3>3. f.steps[i].at \in Nat
      BY <1>4, <3>1 DEF Bundles, StepRecords
    <3>4. f.steps[i].status = "running" => n - f.steps[i].at > Lease
      BY <3>2, <3>3, LeaseType DEF Claimable, StaleRunning, Waiting
    <3>5. o.file.steps = [f.steps EXCEPT ![i].status = "running", ![i].at = t]
      BY <1>4, <2>1, <3>1, ClaimType
    <3>6. ASSUME NEW j \in StepIds, o.file.steps[j].at # f.steps[j].at
          PROVE  j = i
      BY <1>4, <3>5, <3>6 DEF Bundles
    <3>7. QED
      BY <3>4, <3>6 DEF KeepsLease
  <2>2. ASSUME r \in RecordRequests, r.step \in StepIds,
               o.file = Record(f, r.step, r.status, r.payload)
        PROVE  KeepsLease(f, o.file, n)
    <3>1. r.status \in Status /\ r.payload \in Payloads /\ r.status # "running"
      BY <2>2 DEF RecordRequests, Status, Waiting, Terminal
    <3>2. o.file.steps = [f.steps EXCEPT ![r.step] = [status |-> r.status, payload |-> r.payload, at |-> 0]]
      BY <1>4, <2>2, <3>1, RecordType
    <3>3. QED
      BY <1>4, <2>2, <3>1, <3>2 DEF KeepsLease, Bundles
  <2>3. QED
    BY <1>4, <2>1, <2>2, BundleOutcomes DEF Outcome
<1>5. QED
  BY <1>1, <1>2, <1>3, <1>4

\* What an outcome's reply says of finished steps and of the bundle is so in the file it leaves.
LEMMA OutcomesAnswer ==
  ASSUME NEW r \in Requests, NEW f \in Files, NEW t \in Nat, NEW o \in Outcomes(r, f, t)
  PROVE  AnswerIn(o.reply, o.file) /\ BriefingIn(o.reply, o.file)
<1>1. CASE r.op = "persist" \/ f \notin Bundles
  <2>1. CASE o = Outcome(Raised, f)
    BY <2>1 DEF AnswerIn, ResultIn, BundleIn, BriefingIn, Outcome, Raised
  <2>2. CASE r \in PersistRequests /\ PersistReply(r, f) # Stored(r) /\ o = Outcome(PersistReply(r, f), f)
    BY <2>2, PersistAnswers DEF Outcome
  <2>3. CASE r \in PersistRequests /\ o = Outcome(Stored(r), FreshBundle(r.owner, r.plan))
    <3>1. r.owner \in BundleOwners /\ r.plan \in Plans
      BY <2>3 DEF PersistRequests
    <3>2. /\ FreshBundle(r.owner, r.plan) \in Bundles
          /\ FreshBundle(r.owner, r.plan).owner = r.owner /\ FreshBundle(r.owner, r.plan).plan = r.plan
      BY <3>1, FreshType DEF FreshBundle
    <3>3. QED
      BY <2>3, <3>2 DEF AnswerIn, ResultIn, BundleIn, BriefingIn, Outcome, Stored
  <2>4. QED
    BY <1>1, <2>1, <2>2, <2>3, OtherOutcomes
<1>2. CASE r.op # "persist" /\ f \in Bundles
  <2>1. CASE o \in {Outcome(Raised, f), Outcome(NotReady(f), f)}
    BY <2>1 DEF AnswerIn, ResultIn, BundleIn, BriefingIn, Outcome, Raised, NotReady
  <2>2. CASE o = Outcome(Drained(f), f)
    BY <1>2, <2>2 DEF AnswerIn, ResultIn, BundleIn, BriefingIn, Outcome, Drained, Missing
  <2>3. CASE o = Outcome(Briefing(f), f) /\ Missing(f) = {}
    BY <1>2, <2>3 DEF AnswerIn, ResultIn, BundleIn, BriefingIn, Outcome, Briefing, Missing, Results
  <2>4. ASSUME NEW i, o = Outcome(Handed(Claim(f, i, t), i), Claim(f, i, t))
        PROVE  AnswerIn(o.reply, o.file) /\ BriefingIn(o.reply, o.file)
    BY <2>4 DEF AnswerIn, ResultIn, BundleIn, BriefingIn, Outcome, Handed
  <2>5. ASSUME r \in RecordRequests, r.step \in StepIds,
               o = Outcome(Recorded(r.step, r.status, r.payload), Record(f, r.step, r.status, r.payload))
        PROVE  AnswerIn(o.reply, o.file) /\ BriefingIn(o.reply, o.file)
    <3>1. r.status \in Status /\ r.payload \in Payloads
      BY <2>5 DEF RecordRequests, Status, Waiting
    <3>2. /\ o.file \in Bundles
          /\ o.file.steps = [f.steps EXCEPT ![r.step] = [status |-> r.status, payload |-> r.payload, at |-> 0]]
      BY <1>2, <2>5, <3>1, RecordType DEF Outcome
    <3>3. o.file.steps[r.step] = [status |-> r.status, payload |-> r.payload, at |-> 0]
      BY <1>2, <2>5, <3>2 DEF Bundles
    <3>4. o.reply = Recorded(r.step, r.status, r.payload)
      BY <2>5 DEF Outcome
    <3>5. QED
      BY <3>2, <3>3, <3>4 DEF AnswerIn, ResultIn, BundleIn, BriefingIn, Recorded
  <2>6. ASSUME r.step \in StepIds, f.steps[r.step].status = r.status, f.steps[r.step].payload = r.payload,
               o = Outcome(Recorded(r.step, r.status, r.payload), f)
        PROVE  AnswerIn(o.reply, o.file) /\ BriefingIn(o.reply, o.file)
    BY <1>2, <2>6 DEF AnswerIn, ResultIn, BundleIn, BriefingIn, Outcome, Recorded
  <2>7. CASE o = Outcome(AlreadyRecorded(r.step, f.steps[r.step]), f)
    BY <1>2, <2>7 DEF AnswerIn, ResultIn, BundleIn, BriefingIn, Outcome, AlreadyRecorded
  <2>8. QED
    BY <1>2, <2>1, <2>2, <2>3, <2>4, <2>5, <2>6, <2>7, BundleOutcomes
<1>3. QED
  BY <1>1, <1>2

\* What a reply says stays so while finished steps are kept, and whose bundle it is.
LEMMA AnswerKept ==
  ASSUME NEW a \in Replies, NEW f \in Files, NEW g \in Files,
         KeepsFinal(f, g), KeepsIdentity(f, g), AnswerIn(a, f), BriefingIn(a, f)
  PROVE  AnswerIn(a, g) /\ BriefingIn(a, g)
<1>1. ResultIn(a, g)
  <2>1. SUFFICES ASSUME a.kind \in {"recorded", "already_recorded"}, a.status \in Terminal
                 PROVE  g \in Bundles /\ g.steps[a.step].status = a.status
                                      /\ g.steps[a.step].payload = a.payload
    BY DEF ResultIn
  <2>2. a.step \in StepIds
    BY <2>1 DEF Replies, Raised
  <2>3. /\ f \in Bundles /\ f.steps[a.step].status \in Terminal
        /\ f.steps[a.step].status = a.status /\ f.steps[a.step].payload = a.payload
    BY <2>1 DEF AnswerIn, ResultIn
  <2>4. QED
    BY <2>2, <2>3 DEF KeepsFinal
<1>4. BundleIn(a, g)
  BY DEF AnswerIn, BundleIn, KeepsIdentity
<1>2. BriefingIn(a, g)
  <2>1. ASSUME f \in Bundles, \A i \in StepIds : f.steps[i].status = "succeeded"
        PROVE  g \in Bundles /\ \A i \in StepIds : g.steps[i] = f.steps[i]
    BY <2>1 DEF KeepsFinal, KeepsIdentity, Terminal
  <2>2. QED
    BY <2>1 DEF BriefingIn
<1>3. QED
  BY <1>1, <1>2, <1>4 DEF AnswerIn
=============================================================================
