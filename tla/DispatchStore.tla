--------------------------- MODULE DispatchStore ----------------------------
(***************************************************************************)
(* The dispatch store at the grain of its system calls.  An operation      *)
(* notes the time, waits for the directory-wide flock on .dispatch.lock,   *)
(* reads the bundle, works on the copy in memory, writes a temporary file  *)
(* and renames it over the bundle, then unlocks.  A briefing reads without *)
(* the lock.  Any process may be killed between two of these steps: the    *)
(* kernel drops its flock, and a temporary file it leaves is never read.   *)
(***************************************************************************)
EXTENDS DispatchBundle

CONSTANTS Procs, Calls, Legacy, MaxTime, Free

VARIABLES
  disk, now, req, reply,  \* as in Dispatch
  pc,         \* where each process is
  lock,       \* the holder of .dispatch.lock, or Free
  temp        \* the outcome in the process's memory and temporary file

vars == <<disk, now, req, reply, pc, lock, temp>>

D == INSTANCE Dispatch

NoReq == [op |-> "none"]
NoReply == [kind |-> "none"]
NoTemp == [reply |-> NoReply, file |-> Absent]

ASSUME FreeIsNoProcess == Free \notin Procs
ASSUME CallsType == Calls \subseteq CallRequests
ASSUME LegacyType == Legacy \subseteq Files
ASSUME MaxTimeType == MaxTime \in Nat

PCs == {"idle", "flock", "load", "replace", "unlock", "read", "return"}
InSection(p) == pc[p] \in {"load", "replace", "unlock"}

TypeOK ==
  /\ disk \in Files
  /\ now \in Nat
  /\ req \in [Procs -> Requests \cup {NoReq}]
  /\ reply \in [Procs -> Replies \cup {NoReply}]
  /\ pc \in [Procs -> PCs]
  /\ lock \in Procs \cup {Free}
  /\ temp \in [Procs -> {NoTemp} \cup [reply : Replies, file : Bundles]]

-----------------------------------------------------------------------------
Init ==
  /\ disk \in Legacy
  /\ now = 0
  /\ req = [p \in Procs |-> NoReq]
  /\ reply = [p \in Procs |-> NoReply]
  /\ pc = [p \in Procs |-> "idle"]
  /\ lock = Free
  /\ temp = [p \in Procs |-> NoTemp]

Call(p, r) ==
  /\ pc[p] = "idle"
  /\ req' = [req EXCEPT ![p] = D!At(r, now)]
  /\ reply' = [reply EXCEPT ![p] = NoReply]
  /\ pc' = [pc EXCEPT ![p] = IF r.op = "brief" THEN "read" ELSE "flock"]
  /\ UNCHANGED <<disk, now, lock, temp>>

\* Locking is skipped, as where there is no fcntl.
BugFlock(p) ==
  /\ pc[p] = "flock"
  /\ lock' = p
  /\ pc' = [pc EXCEPT ![p] = "load"]
  /\ UNCHANGED <<disk, now, req, reply, temp>>

\* _exclusive_bundle_lock enters.
Flock(p) ==
  /\ pc[p] = "flock" /\ lock = Free
  /\ lock' = p
  /\ pc' = [pc EXCEPT ![p] = "load"]
  /\ UNCHANGED <<disk, now, req, reply, temp>>

\* The answer goes out before the rename.
BugLoad(p) ==
  /\ pc[p] = "load"
  /\ \E o \in Outcomes(req[p], disk, now) :
       /\ reply' = [reply EXCEPT ![p] = o.reply]
       /\ temp' = [temp EXCEPT ![p] = o]
       /\ pc' = [pc EXCEPT ![p] = IF o.file = disk THEN "unlock" ELSE "replace"]
  /\ UNCHANGED <<disk, now, req, lock>>

\* The bundle is read and the operation decided on the copy in memory.
Load(p) ==
  /\ pc[p] = "load"
  /\ \E o \in Outcomes(req[p], disk, now) :
       IF o.file = disk
       THEN /\ reply' = [reply EXCEPT ![p] = o.reply]
            /\ pc' = [pc EXCEPT ![p] = "unlock"]
            /\ UNCHANGED temp
       ELSE /\ temp' = [temp EXCEPT ![p] = o]
            /\ pc' = [pc EXCEPT ![p] = "replace"]
            /\ UNCHANGED reply
  /\ UNCHANGED <<disk, now, req, lock>>

\* os.replace puts the fsynced temporary file in the bundle's place; tightening the
\* mode of the new file may still raise.
Replace(p) ==
  /\ pc[p] = "replace"
  /\ disk' = temp[p].file
  /\ \E a \in {temp[p].reply, Raised} : reply' = [reply EXCEPT ![p] = a]
  /\ temp' = [temp EXCEPT ![p] = NoTemp]
  /\ pc' = [pc EXCEPT ![p] = "unlock"]
  /\ UNCHANGED <<now, req, lock>>

\* An error leaves the critical section without unlocking.
BugOSError(p) ==
  /\ pc[p] \in {"flock", "load", "replace", "read"}
  /\ reply' = [reply EXCEPT ![p] = Raised]
  /\ temp' = [temp EXCEPT ![p] = NoTemp]
  /\ pc' = [pc EXCEPT ![p] = "return"]
  /\ UNCHANGED <<disk, now, req, lock>>

\* A system call before the rename fails: the temporary file goes and the error is raised.
OSError(p) ==
  /\ pc[p] \in {"flock", "load", "replace", "read"}
  /\ reply' = [reply EXCEPT ![p] = Raised]
  /\ temp' = [temp EXCEPT ![p] = NoTemp]
  /\ pc' = [pc EXCEPT ![p] = IF InSection(p) THEN "unlock" ELSE "return"]
  /\ UNCHANGED <<disk, now, req, lock>>

Unlock(p) ==
  /\ pc[p] = "unlock"
  /\ lock' = Free
  /\ pc' = [pc EXCEPT ![p] = "return"]
  /\ UNCHANGED <<disk, now, req, reply, temp>>

\* build_briefing_payload reads one version of the file, without the lock.
Read(p) ==
  /\ pc[p] = "read"
  /\ \E o \in Outcomes(req[p], disk, now) : reply' = [reply EXCEPT ![p] = o.reply]
  /\ pc' = [pc EXCEPT ![p] = "return"]
  /\ UNCHANGED <<disk, now, req, lock, temp>>

Return(p) ==
  /\ pc[p] = "return"
  /\ req' = [req EXCEPT ![p] = NoReq]
  /\ pc' = [pc EXCEPT ![p] = "idle"]
  /\ UNCHANGED <<disk, now, reply, lock, temp>>

\* The bundle is written in place, and the kill leaves half of it.
BugTornCrash(p) ==
  /\ pc[p] # "idle"
  /\ disk' = IF pc[p] = "replace" THEN Corrupt ELSE disk
  /\ req' = [req EXCEPT ![p] = NoReq]
  /\ reply' = [reply EXCEPT ![p] = NoReply]
  /\ temp' = [temp EXCEPT ![p] = NoTemp]
  /\ pc' = [pc EXCEPT ![p] = "idle"]
  /\ lock' = IF lock = p THEN Free ELSE lock
  /\ UNCHANGED now

\* The lock is the existence of a file, which outlives its creator.
BugLockOutlivesCrash(p) ==
  /\ pc[p] # "idle"
  /\ req' = [req EXCEPT ![p] = NoReq]
  /\ reply' = [reply EXCEPT ![p] = NoReply]
  /\ temp' = [temp EXCEPT ![p] = NoTemp]
  /\ pc' = [pc EXCEPT ![p] = "idle"]
  /\ UNCHANGED <<disk, now, lock>>

\* The process is killed; another may take its place and call again.
Crash(p) ==
  /\ pc[p] # "idle"
  /\ req' = [req EXCEPT ![p] = NoReq]
  /\ reply' = [reply EXCEPT ![p] = NoReply]
  /\ temp' = [temp EXCEPT ![p] = NoTemp]
  /\ pc' = [pc EXCEPT ![p] = "idle"]
  /\ lock' = IF lock = p THEN Free ELSE lock
  /\ UNCHANGED <<disk, now>>

Tick ==
  /\ now < MaxTime
  /\ now' = now + 1
  /\ UNCHANGED <<disk, req, reply, pc, lock, temp>>

Proceed(p) == Flock(p) \/ Load(p) \/ Replace(p) \/ Unlock(p) \/ Read(p) \/ Return(p)

Next ==
  \/ \E p \in Procs : (\E r \in Calls : Call(p, r)) \/ Proceed(p) \/ OSError(p) \/ Crash(p)
  \/ Tick

Spec == Init /\ [][Next]_vars

\* A process that is not killed keeps going, and the kernel serves the waiters of a
\* flock; nothing makes a system call fail.
FairSpec == Spec /\ \A p \in Procs : WF_vars(Proceed(p)) /\ SF_vars(Flock(p))

-----------------------------------------------------------------------------
(* Properties. *)

\* Whatever is about to be renamed over the bundle was computed, by the lock's
\* holder, from the bytes that are there now: no read-modify-write loses another's.
NoLostUpdate ==
  \A p \in Procs :
    /\ InSection(p) <=> lock = p
    /\ pc[p] = "replace" =>
         \E t \in D!Since(req[p]) : temp[p] \in Outcomes(req[p], disk, t)

\* Every operation takes effect at one instant between call and return, or not at
\* all, although it is a dozen system calls in a process that may be killed.
Linearizable == D!Spec

\* No step, of any number of callers and crashes, changes the result of a finished
\* segment: a late or repeated record_dispatch_result never replaces the first one.
TerminalFinal == [][KeepsFinal(disk, disk')]_vars

\* The first bundle stored for a work item keeps its owner and its segments; bytes
\* that cannot be read are never replaced by a bundle (persist fails closed).
FirstBundleWins == [][KeepsIdentity(disk, disk')]_vars

\* A running step changes hands without being released only after a whole lease,
\* even for a caller that read its clock long before it got the lock.
LeaseRespected == [][KeepsLease(disk, disk', now)]_vars

\* What a caller was told is what the file says, and will say from then on: that its final
\* result is recorded, or what final result is already there; that its bundle is stored, now
\* or before, whoever has worked on it since; or that another's is, or one with other segments.
AnswerStands == \A p \in Procs : AnswerIn(reply[p], disk)

\* A briefing handed out, and a synthesis_ready reported by a drained queue, hold the
\* final results of every segment, although the briefing is read without the lock.
BriefingStands == \A p \in Procs : BriefingIn(reply[p], disk)

\* Nobody keeps the lock for ever: a holder finishes, raises or is killed, and each
\* of these frees it for the others.
LockReleased == \A p \in Procs : lock = p ~> lock # p

\* Every call comes back (or its process is killed), however many compete for the lock.
CallReturns == \A p \in Procs : pc[p] # "idle" ~> pc[p] = "idle"
=============================================================================
