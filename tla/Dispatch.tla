------------------------------ MODULE Dispatch ------------------------------
(***************************************************************************)
(* What the dispatch store promises: every operation takes effect at one   *)
(* instant between its call and its return, or not at all.  Callers are    *)
(* processes that may be killed at any moment, before or after their       *)
(* operation took effect.  DispatchStore, with its lock file, its copy in  *)
(* memory and its temporary file, is checked and proved to implement this. *)
(***************************************************************************)
EXTENDS DispatchBundle

CONSTANTS
  Procs,      \* operating-system processes that use the store
  Calls,      \* the requests, without their time, that they make
  Legacy,     \* files an earlier run may have left at the path
  MaxTime     \* bound on the clock

VARIABLES
  disk,       \* the file
  now,        \* time.time(), taken to be the same for all and never to go back
  req,        \* the request each process is executing, or NoReq
  reply       \* what it was answered, kept until its next call, or NoReply

vars == <<disk, now, req, reply>>

NoReq == [op |-> "none"]
NoReply == [kind |-> "none"]

\* The request r, called at time t.
At(r, t) == IF r.op = "next" THEN [op |-> "next", at |-> t] ELSE r

\* The times since the call of the request r.
Since(r) == {t \in 0 .. now : r.op = "next" => r.at <= t}

Init ==
  /\ disk \in Legacy
  /\ now = 0
  /\ req = [p \in Procs |-> NoReq]
  /\ reply = [p \in Procs |-> NoReply]

Call(p, r) ==
  /\ req[p] = NoReq
  /\ req' = [req EXCEPT ![p] = At(r, now)]
  /\ reply' = [reply EXCEPT ![p] = NoReply]
  /\ UNCHANGED <<disk, now>>

\* The operation happens, stamped with some time since the call.  The caller may
\* see an error all the same: it does not mean that nothing happened.
Perform(p) ==
  /\ req[p] # NoReq /\ reply[p] = NoReply
  /\ \E t \in Since(req[p]) : \E o \in Outcomes(req[p], disk, t) :
       /\ disk' = o.file
       /\ \E a \in {o.reply, Raised} : reply' = [reply EXCEPT ![p] = a]
  /\ UNCHANGED <<now, req>>

\* The operating system refuses a step of it: the operation raises and changes nothing.
Fail(p) ==
  /\ req[p] # NoReq /\ reply[p] = NoReply
  /\ reply' = [reply EXCEPT ![p] = Raised]
  /\ UNCHANGED <<disk, now, req>>

Return(p) ==
  /\ req[p] # NoReq /\ reply[p] # NoReply
  /\ req' = [req EXCEPT ![p] = NoReq]
  /\ UNCHANGED <<disk, now, reply>>

Crash(p) ==
  /\ req[p] # NoReq
  /\ req' = [req EXCEPT ![p] = NoReq]
  /\ reply' = [reply EXCEPT ![p] = NoReply]
  /\ UNCHANGED <<disk, now>>

Tick ==
  /\ now < MaxTime
  /\ now' = now + 1
  /\ UNCHANGED <<disk, req, reply>>

Next ==
  \/ \E p \in Procs : \/ \E r \in Calls : Call(p, r)
                      \/ Perform(p) \/ Fail(p) \/ Return(p) \/ Crash(p)
  \/ Tick

Spec == Init /\ [][Next]_vars
=============================================================================
