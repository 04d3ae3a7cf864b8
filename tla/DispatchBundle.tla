--------------------------- MODULE DispatchBundle ---------------------------
(***************************************************************************)
(* One dispatch bundle: the JSON file that holds the ordered segment steps *)
(* of one work item, and what each store operation computes from it.       *)
(*                                                                         *)
(* Three interchangeable back ends read and write the file: the core       *)
(* store, the pure-Python queue and the Rust engine.  This module is what  *)
(* they share: pure operators, no state.  A bundle's identity, its ordered *)
(* (step_id, checksum) pairs, is a member of Plans, and its k-th step has  *)
(* step_id k.  Only one bundle is ever stored for a work item, so nothing  *)
(* is lost by giving every plan the same number of steps.  A result string *)
(* and an error string together are one payload.                           *)
(***************************************************************************)
EXTENDS Integers, FiniteSets

CONSTANTS
  Owners,     \* validated owners, triples (cwd, session_id, scope)
  NoOwner,    \* a schema-v1 bundle, which names no owner
  BadOwner,   \* an owner object that validation rejects
  Plans,      \* ordered (step_id, checksum) identities
  NumSteps,   \* how many steps a bundle has
  Payloads,   \* what a worker may record: result and error text
  Blank,      \* the empty result and error of a step nobody recorded
  Lease       \* RUNNING_LEASE_SECONDS

ASSUME OwnersDistinct == NoOwner \notin Owners /\ BadOwner \notin Owners /\ NoOwner # BadOwner
ASSUME NumStepsType == NumSteps \in Nat
ASSUME BlankIsPayload == Blank \in Payloads
ASSUME LeaseType == Lease \in Nat

-----------------------------------------------------------------------------
(* The file. *)

Terminal == {"succeeded", "failed"}
Waiting == {"queued", "retry_wait"}
Status == Terminal \cup Waiting \cup {"running"}

BundleOwners == Owners \cup {NoOwner, BadOwner}
StepRecords == [status : Status, payload : Payloads, at : Nat]
StepIds == 1 .. NumSteps
Bundles == [kind : {"bundle"}, owner : BundleOwners, plan : Plans, steps : [StepIds -> StepRecords]]

\* No file at the path.
Absent == [kind |-> "absent"]
\* Bytes every reader rejects: a symlink, invalid JSON, a malformed steps array.
Corrupt == [kind |-> "corrupt"]
Files == {Absent, Corrupt} \cup Bundles

\* A bundle as its producer builds it.  Only the time stamp of a running step is ever
\* read, so `at` is kept 0 in every other status.
FreshBundle(o, p) ==
  [kind |-> "bundle", owner |-> o, plan |-> p,
   steps |-> [i \in StepIds |-> [status |-> "queued", payload |-> Blank, at |-> 0]]]

-----------------------------------------------------------------------------
(* The parts of the operations. *)

\* A definition whose name starts with Bug is not part of the model: it is a slip the
\* code could have had, kept to show that a property notices it.

Remaining(b) == Cardinality({i \in StepIds : b.steps[i].status \notin Terminal})
BugMissing(b) == {i \in StepIds : b.steps[i].status \in Waiting \cup {"running"}}
Missing(b) == {i \in StepIds : b.steps[i].status # "succeeded"}
Results(b) == [i \in StepIds |-> b.steps[i].payload]

BugStaleRunning(s, t) == s.status = "running" /\ t - s.at >= Lease
StaleRunning(s, t) == s.status = "running" /\ t - s.at > Lease

\* A step once handed out is never handed out again.
BugClaimable(b, t) == {i \in StepIds : b.steps[i].status \in Waiting}

Claimable(b, t) ==
  {i \in StepIds : b.steps[i].status \in Waiting \/ StaleRunning(b.steps[i], t)}

\* The scan stops at the first claimable step of the array.
FirstClaimable(b, t) == {i \in Claimable(b, t) : \A j \in Claimable(b, t) : i <= j}

BugClaim(b, i, t) == [b EXCEPT !.steps[i].status = "claimed", !.steps[i].at = t]
\* A claim keeps the payload an earlier failed attempt left.
Claim(b, i, t) == [b EXCEPT !.steps[i].status = "running", !.steps[i].at = t]
Record(b, i, s, v) == [b EXCEPT !.steps[i] = [status |-> s, payload |-> v, at |-> 0]]

-----------------------------------------------------------------------------
(* Requests and replies.  next_dispatch_step reads its clock, `at`, when   *)
(* it is called, before it waits for the lock.                             *)

PersistRequests == [op : {"persist"}, owner : BundleOwners, plan : Plans]
NextRequests == [op : {"next"}, at : Nat]
RecordRequests ==
  [op : {"record"}, step : Nat \ {0}, status : Terminal \cup {"retry_wait"}, payload : Payloads]
BriefRequests == [op : {"brief"}]
\* What a caller asks for; the time of the call is added to it.
CallRequests == PersistRequests \cup RecordRequests \cup {[op |-> "next"], [op |-> "brief"]}
Requests == PersistRequests \cup NextRequests \cup RecordRequests \cup BriefRequests

Raised == [kind |-> "raised"]
\* The answers to persist, with the owner and the plan that were asked for.
Refused(why, r) == [kind |-> "refused", why |-> why, owner |-> r.owner, plan |-> r.plan]
Stored(r) == [kind |-> "stored", owner |-> r.owner, plan |-> r.plan]
Idempotent(r) == [kind |-> "idempotent", owner |-> r.owner, plan |-> r.plan]
Handed(b, i) == [kind |-> "handed", step |-> i, remaining |-> Remaining(b)]
Drained(b) == [kind |-> "drained", remaining |-> Remaining(b), synthesis |-> Missing(b) = {}]
Recorded(i, s, v) == [kind |-> "recorded", step |-> i, status |-> s, payload |-> v]
AlreadyRecorded(i, s) ==
  [kind |-> "already_recorded", step |-> i, status |-> s.status, payload |-> s.payload]
NotReady(b) == [kind |-> "not_ready", missing |-> Missing(b)]
Briefing(b) == [kind |-> "briefing", results |-> Results(b)]

Replies ==
  {Raised}
  \cup [kind : {"stored", "idempotent"}, owner : BundleOwners, plan : Plans]
  \cup [kind : {"refused"}, why : {"invalid_owner", "owner_conflict", "bundle_conflict"},
         owner : BundleOwners, plan : Plans]
  \cup [kind : {"handed"}, step : StepIds, remaining : Nat]
  \cup [kind : {"drained"}, remaining : Nat, synthesis : BOOLEAN]
  \cup [kind : {"recorded", "already_recorded"}, step : StepIds, status : Status, payload : Payloads]
  \cup [kind : {"not_ready"}, missing : SUBSET StepIds]
  \cup [kind : {"briefing"}, results : [StepIds -> Payloads]]

-----------------------------------------------------------------------------
(* The operations: the file f and the time t at which the operation works  *)
(* on it give a reply and the file to leave behind.  An outcome whose file *)
(* is f itself writes nothing.                                             *)

Outcome(r, f) == [reply |-> r, file |-> f]

\* Unreadable bytes are taken for a free path.
BugPersistReply(r, f) ==
  IF r.owner = BadOwner THEN Refused("invalid_owner", r)
  ELSE IF f \in {Absent, Corrupt} THEN Stored(r)
  ELSE IF f.owner = r.owner THEN Idempotent(r) ELSE Refused("owner_conflict", r)

\* A bundle that is there already is a conflict, whatever its segments.
BugReplan(r, f) ==
  IF r.owner = BadOwner THEN Refused("invalid_owner", r)
  ELSE IF f = Absent THEN Stored(r)
  ELSE IF f = Corrupt THEN Raised
  ELSE IF f.owner = BadOwner THEN Refused("invalid_owner", r)
  ELSE IF f.owner = NoOwner \/ f.owner # r.owner THEN Refused("owner_conflict", r)
  ELSE Refused("bundle_conflict", r)

PersistReply(r, f) ==
  IF r.owner = BadOwner THEN Refused("invalid_owner", r)
  ELSE IF f = Absent THEN Stored(r)
  ELSE IF f = Corrupt THEN Raised
  ELSE IF f.owner = BadOwner THEN Refused("invalid_owner", r)
  ELSE IF f.owner = NoOwner \/ f.owner # r.owner THEN Refused("owner_conflict", r)
  ELSE IF f.plan = r.plan THEN Idempotent(r)
  ELSE Refused("bundle_conflict", r)

PersistOutcomes(r, f) ==
  {Outcome(PersistReply(r, f),
           IF PersistReply(r, f) = Stored(r) THEN FreshBundle(r.owner, r.plan) ELSE f)}

\* Staleness is judged by the clock of the call, the claim is stamped with the clock of the work.
NextOutcomes(r, b, t) ==
  IF Claimable(b, r.at) = {}
  THEN {Outcome(Drained(b), b)}
  ELSE {Outcome(Handed(Claim(b, i, t), i), Claim(b, i, t)) : i \in FirstClaimable(b, r.at)}

\* A late record overwrites a finished step.
BugRecordOutcomes(r, b) ==
  IF r.step \notin StepIds THEN {Outcome(Raised, b)}
  ELSE {Outcome(Recorded(r.step, r.status, r.payload), Record(b, r.step, r.status, r.payload))}

RecordOutcomes(r, b) ==
  LET s == b.steps[r.step] IN
  IF r.step \notin StepIds THEN {Outcome(Raised, b)}
  ELSE IF s.status \notin Terminal
  THEN {Outcome(Recorded(r.step, r.status, r.payload), Record(b, r.step, r.status, r.payload))}
  ELSE IF s.status = r.status /\ s.payload = r.payload
  THEN {Outcome(Recorded(r.step, r.status, r.payload), b)}
  ELSE {Outcome(AlreadyRecorded(r.step, s), b)}

BriefOutcomes(b) == {Outcome(IF Missing(b) = {} THEN Briefing(b) ELSE NotReady(b), b)}

Outcomes(r, f, t) ==
  IF r.op = "persist" THEN PersistOutcomes(r, f)
  ELSE IF f \in {Absent, Corrupt} THEN {Outcome(Raised, f)}
  ELSE IF r.op = "next" THEN NextOutcomes(r, f, t)
  ELSE IF r.op = "record" THEN RecordOutcomes(r, f)
  ELSE BriefOutcomes(f)

-----------------------------------------------------------------------------
(* What no operation may do to the file, whoever runs it and whenever: f   *)
(* before, g after.                                                        *)

KeepsFinal(f, g) ==
  f \in Bundles =>
    \A i \in StepIds :
      f.steps[i].status \in Terminal => g \in Bundles /\ g.steps[i] = f.steps[i]

KeepsIdentity(f, g) ==
  /\ f = Corrupt => g = Corrupt
  /\ f \in Bundles => g \in Bundles /\ g.owner = f.owner /\ g.plan = f.plan

KeepsLease(f, g, t) ==
  f \in Bundles =>
    \A i \in StepIds :
      (/\ f.steps[i].status = "running"
       /\ g.steps[i].status = "running"
       /\ g.steps[i].at # f.steps[i].at) => t - f.steps[i].at > Lease

(* What a reply says of the file g. *)

ResultIn(a, g) ==
  a.kind \in {"recorded", "already_recorded"} /\ a.status \in Terminal =>
    /\ g \in Bundles
    /\ g.steps[a.step].status = a.status
    /\ g.steps[a.step].payload = a.payload

BundleIn(a, g) ==
  /\ a.kind \in {"stored", "idempotent"} => g \in Bundles /\ g.owner = a.owner /\ g.plan = a.plan
  /\ a.kind = "refused" =>
       /\ a.why = "bundle_conflict" => g \in Bundles /\ g.owner = a.owner /\ g.plan # a.plan
       /\ a.why = "owner_conflict" => g \in Bundles /\ (g.owner = a.owner => g.owner = NoOwner)
       /\ a.why = "invalid_owner" => a.owner = BadOwner \/ (g \in Bundles /\ g.owner = BadOwner)

AnswerIn(a, g) == ResultIn(a, g) /\ BundleIn(a, g)

BriefingIn(a, g) ==
  /\ a.kind = "briefing" =>
       /\ g \in Bundles
       /\ \A i \in StepIds : /\ g.steps[i].status = "succeeded"
                             /\ g.steps[i].payload = a.results[i]
  /\ a.kind = "drained" /\ a.synthesis =>
       g \in Bundles /\ \A i \in StepIds : g.steps[i].status = "succeeded"
=============================================================================
