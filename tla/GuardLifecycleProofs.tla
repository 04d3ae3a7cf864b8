------------------------ MODULE GuardLifecycleProofs ------------------------
(***************************************************************************)
(* Theorems about GuardLifecycle, for any number of sessions and pids.     *)
(***************************************************************************)
EXTENDS GuardLifecycle, TLAPS

\* The lifecycle lock is held exactly by the session that is inside a start or a stop.
LockHeld == \A c \in Clients : pc[c] \in Critical <=> lock = c

ChildKnown == \A c \in Clients : IF pc[c] \in Starting THEN child[c] \in Pids ELSE child[c] = None

\* What a stop has verified stays a daemon until the stop is told of its death.
SeenIsOurs ==
  \A c \in Clients : seen[c] # None => pc[c] \in {"term", "wait"} /\ IsOurDaemon(seen[c])

\* Which daemons can be alive while somebody holds the lock.
AloneIn(c) ==
  \A p \in Pids : proc[p] \in Live =>
    /\ pc[c] \notin {"spawn", "rollback", "wait"}
    /\ pc[c] \in {"publish", "beat"} => p = child[c]
    /\ pc[c] = "term" => p = seen[c]
Alone == ~torn => \A c \in Clients : AloneIn(c)

IInv == TypeOK /\ LockHeld /\ ChildKnown /\ SeenIsOurs /\ Alone /\ Tracked

-----------------------------------------------------------------------------
\* Two daemons would both be in the pidfile, or be the child of one start.
LEMMA TrackedIsOne == IInv => OneDaemon
<1> SUFFICES ASSUME IInv, ~torn, NEW p \in Pids, NEW q \in Pids, proc[p] \in Live, proc[q] \in Live
             PROVE  p = q
    BY DEF OneDaemon
<1>1. CASE \E c \in Clients : pc[c] = "publish"
    BY <1>1 DEF IInv, Alone, AloneIn
<1>2. CASE ~ \E c \in Clients : pc[c] = "publish"
    BY <1>2 DEF IInv, Tracked
<1> QED  BY <1>1, <1>2

LEMMA InitInv == Init => IInv
<1> SUFFICES ASSUME Init PROVE IInv  OBVIOUS
<1> USE DEF Init, Live, Starting, Critical
<1>1. TypeOK
  <2>1. age \in [Pids -> Ages] /\ beat \in Ages \cup {None}  BY TtlType, BeatsType DEF Ages
  <2>2. faults \in 0 .. MaxFaults                            BY MaxFaultsType
  <2> QED  BY <2>1, <2>2 DEF TypeOK, PCs
<1>2. LockHeld
    BY NoneIsNoPid DEF LockHeld
<1>3. ChildKnown /\ SeenIsOurs /\ Alone /\ Tracked
    BY DEF ChildKnown, SeenIsOurs, Alone, AloneIn, Tracked
<1> QED  BY <1>1, <1>2, <1>3 DEF IInv

\* The type invariant is kept by every step.
LEMMA TypeKept == IInv /\ [Next]_vars => TypeOK'
<1> SUFFICES ASSUME IInv, [Next]_vars PROVE TypeOK'  OBVIOUS
<1> USE NoneIsNoPid, TtlType, MaxFaultsType
        DEF IInv, TypeOK, PCs, Critical, Starting, Live, Ages, procVars, clientVars
<1>1. ASSUME NEW c \in Clients, Session(c) PROVE TypeOK'
  <2> USE DEF Go, Fault, Become
  <2>1. CASE Start(c)          BY <2>1 DEF Start
  <2>2. CASE Status(c)         BY <2>2 DEF Status
  <2>3. CASE Spawn(c)          BY <2>3 DEF Spawn, FreePids
  <2>4. CASE WritePidfile(c)   BY <2>4 DEF WritePidfile, ChildKnown
  <2>5. CASE FirstBeat(c)      BY <2>5 DEF FirstBeat
  <2>6. CASE PublishFails(c)   BY <2>6 DEF PublishFails, ChildKnown
  <2>7. CASE Rollback(c)       BY <2>7 DEF Rollback
  <2>8. CASE Touch(c)          BY <2>8 DEF Touch
  <2>9. CASE End(c)            BY <2>9 DEF End
  <2>10. CASE Verify(c)        BY <2>10 DEF Verify
  <2>11. CASE Terminate(c)     BY <2>11 DEF Terminate
  <2>12. CASE Stopped(c)       BY <2>12 DEF Stopped
  <2>13. CASE Kill(c)          BY <2>13 DEF Kill
  <2> QED  BY <1>1, <2>1, <2>2, <2>3, <2>4, <2>5, <2>6, <2>7, <2>8, <2>9, <2>10, <2>11, <2>12,
              <2>13 DEF Session
<1>2. ASSUME NEW p \in Pids, Daemon(p) \/ OtherStarts(p) \/ OtherExits(p) PROVE TypeOK'
  <2> USE DEF Become, Forget, Fault
  <2>1. CASE Idle(p)           BY <2>1 DEF Idle
  <2>2. CASE Leave(p)          BY <2>2 DEF Leave
  <2>3. CASE DaemonFails(p)    BY <2>3 DEF DaemonFails
  <2>4. CASE Die(p)            BY <2>4 DEF Die
  <2>5. CASE OtherStarts(p)    BY <2>5 DEF OtherStarts
  <2>6. CASE OtherExits(p)     BY <2>6 DEF OtherExits
  <2> QED  BY <1>2, <2>1, <2>2, <2>3, <2>4, <2>5, <2>6 DEF Daemon
<1>3. CASE Tick                BY <1>3 DEF Tick, Older
<1>4. CASE UNCHANGED vars      BY <1>4 DEF vars
<1> QED  BY <1>1, <1>2, <1>3, <1>4 DEF Next

-----------------------------------------------------------------------------
\* What a session's step does to the rest of the invariant.
LEMMA SessionKeeps ==
  ASSUME IInv, NEW s \in Clients, Session(s)
  PROVE  LockHeld' /\ ChildKnown' /\ SeenIsOurs' /\ Alone' /\ Tracked'
<1> DEFINE Rest == LockHeld' /\ ChildKnown' /\ SeenIsOurs' /\ Alone' /\ Tracked'
<1> USE NoneIsNoPid DEF IInv, TypeOK, LockHeld, ChildKnown, SeenIsOurs, Alone, AloneIn, Tracked,
        IsOurDaemon, Live, Starting, Critical, PCs, Go, Become, Fault, procVars, clientVars
<1>1. CASE Start(s)          BY <1>1 DEF Start
<1>2. CASE Status(s)         BY <1>2 DEF Status
<1>3. CASE Spawn(s)          BY <1>3 DEF Spawn, FreePids
<1>4. CASE WritePidfile(s)   BY <1>4 DEF WritePidfile
<1>5. CASE FirstBeat(s)      BY <1>5 DEF FirstBeat
<1>6. CASE PublishFails(s)
  <2> USE <1>6 DEF PublishFails
  <2>1. LockHeld'    OBVIOUS
  <2>2. ChildKnown'  OBVIOUS
  <2>3. SeenIsOurs'  OBVIOUS
  <2>4. Alone'
    <3>1. ASSUME ~torn, NEW p \in Pids, proc'[p] \in Live PROVE FALSE  BY <3>1
    <3> QED  BY <3>1
  <2>5. Tracked'     OBVIOUS
  <2> QED  BY <2>1, <2>2, <2>3, <2>4, <2>5
<1>7. CASE Rollback(s)       BY <1>7 DEF Rollback
<1>8. CASE Touch(s)          BY <1>8 DEF Touch
<1>9. CASE End(s)            BY <1>9 DEF End
<1>10. CASE Verify(s)        BY <1>10 DEF Verify
<1>11. CASE Terminate(s)     BY <1>11 DEF Terminate
<1>12. CASE Stopped(s)       BY <1>12 DEF Stopped
<1>13. CASE Kill(s)
  <2> USE <1>13 DEF Kill
  <2>1. LockHeld'    OBVIOUS
  <2>2. ChildKnown'  OBVIOUS
  <2>3. SeenIsOurs'  OBVIOUS
  <2>4. Alone'       OBVIOUS
  <2>5. Tracked'     OBVIOUS
  <2> QED  BY <2>1, <2>2, <2>3, <2>4, <2>5
<1> QED  BY <1>1, <1>2, <1>3, <1>4, <1>5, <1>6, <1>7, <1>8, <1>9, <1>10, <1>11, <1>12, <1>13
         DEF Session

\* The same for the step of a daemon or of another process.
LEMMA ProcessKeeps ==
  ASSUME IInv, OneDaemon, NEW r \in Pids, Daemon(r) \/ OtherStarts(r) \/ OtherExits(r)
  PROVE  LockHeld' /\ ChildKnown' /\ SeenIsOurs' /\ Alone' /\ Tracked'
<1> USE NoneIsNoPid DEF IInv, TypeOK, LockHeld, ChildKnown, SeenIsOurs, Alone, AloneIn, Tracked,
        IsOurDaemon, Live, Starting, Critical, PCs, Become, Forget, Fault, procVars, clientVars
<1>1. CASE Idle(r)           BY <1>1 DEF Idle
<1>2. CASE Leave(r)          BY <1>2 DEF Leave, OneDaemon
<1>3. CASE DaemonFails(r)    BY <1>3 DEF DaemonFails, OneDaemon
<1>4. CASE Die(r)            BY <1>4 DEF Die
<1>5. CASE OtherStarts(r)    BY <1>5 DEF OtherStarts, FreePids
<1>6. CASE OtherExits(r)     BY <1>6 DEF OtherExits
<1> QED  BY <1>1, <1>2, <1>3, <1>4, <1>5, <1>6 DEF Daemon

LEMMA StepInv == IInv /\ [Next]_vars => IInv'
<1> SUFFICES ASSUME IInv, [Next]_vars PROVE IInv'  OBVIOUS
<1>1. TypeOK'  BY TypeKept
<1>2. LockHeld' /\ ChildKnown' /\ SeenIsOurs' /\ Alone' /\ Tracked'
  <2>1. CASE \E c \in Clients : Session(c)  BY <2>1, SessionKeeps
  <2>2. CASE \E p \in Pids : Daemon(p) \/ OtherStarts(p) \/ OtherExits(p)
      BY <2>2, TrackedIsOne, ProcessKeeps
  <2>3. CASE Tick
      BY <2>3 DEF Tick, IInv, LockHeld, ChildKnown, SeenIsOurs, Alone, AloneIn, Tracked, IsOurDaemon,
                  clientVars
  <2>4. CASE UNCHANGED vars
      BY <2>4 DEF vars, IInv, LockHeld, ChildKnown, SeenIsOurs, Alone, AloneIn, Tracked, IsOurDaemon
  <2> QED  BY <2>1, <2>2, <2>3, <2>4 DEF Next
<1> QED  BY <1>1, <1>2 DEF IInv

LEMMA Invariant == Spec => []IInv
<1>1. Init => IInv  BY InitInv
<1>2. IInv /\ [Next]_vars => IInv'  BY StepInv
<1> QED  BY <1>1, <1>2, PTL DEF Spec

-----------------------------------------------------------------------------
\* The type invariant of the sessions, the daemons and their files holds.
THEOREM TypeCorrect == Spec => []TypeOK
<1>1. IInv => TypeOK  BY DEF IInv
<1> QED  BY <1>1, Invariant, PTL

\* Unless a starter was killed before it wrote the pidfile, a live daemon is named there,
\* or is about to be.
THEOREM DaemonsAreTracked == Spec => []Tracked
<1>1. IInv => Tracked  BY DEF IInv
<1> QED  BY <1>1, Invariant, PTL

\* Unless a starter was killed before it wrote the pidfile, there is one daemon at most,
\* however many sessions start and stop it at the same time.
THEOREM ThereIsOneDaemon == Spec => []OneDaemon
<1>1. IInv => OneDaemon  BY TrackedIsOne
<1> QED  BY <1>1, Invariant, PTL

\* No process but a guard daemon is ever signalled, whatever becomes of the pids.
THEOREM OthersAreSafe == Spec => SignalsOnlyDaemons
<1> DEFINE Safe == \A p \in Pids : proc[p] = "other" => proc'[p] # "dying"
<1>1. IInv /\ [Next]_vars => [Safe]_vars
  <2> SUFFICES ASSUME IInv, Next PROVE Safe  OBVIOUS
  <2> USE DEF IInv, TypeOK, Live, procVars
  <2>1. ASSUME NEW c \in Clients, Session(c) PROVE Safe
    <3>1. CASE Spawn(c)          BY <3>1 DEF Spawn, FreePids
    <3>2. CASE PublishFails(c)   BY <3>2, NoneIsNoPid DEF PublishFails, Become, ChildKnown, Starting
    <3>3. CASE Terminate(c)      BY <3>3 DEF Terminate, Become, SeenIsOurs, IsOurDaemon
    <3>4. CASE UNCHANGED proc    BY <3>4
    <3> QED  BY <2>1, <3>1, <3>2, <3>3, <3>4
             DEF Session, Start, Status, WritePidfile, FirstBeat, Rollback, Touch, End, Verify,
                 Stopped, Kill
  <2>2. ASSUME NEW r \in Pids, Daemon(r) \/ OtherStarts(r) \/ OtherExits(r) PROVE Safe
      BY <2>2 DEF Daemon, Idle, Leave, DaemonFails, Die, OtherStarts, OtherExits, Become
  <2>3. CASE Tick  BY <2>3 DEF Tick
  <2> QED  BY <2>1, <2>2, <2>3 DEF Next
<1> QED  BY <1>1, Invariant, PTL DEF Spec, SignalsOnlyDaemons
=============================================================================
