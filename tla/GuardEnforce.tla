----------------------------- MODULE GuardEnforce -----------------------------
(***************************************************************************)
(* The guard ends runaway processes below a registered root: it scans the  *)
(* processes, sends SIGTERM to the candidates, waits, and sends SIGKILL to *)
(* those that are still there.  Between the scan and the signals processes *)
(* end, pids are reused, and children lose their parents.                  *)
(***************************************************************************)
EXTENDS Integers, FiniteSets

CONSTANTS
  Procs,       \* pids, all but that of the root
  RootPid,        \* the pid of the agent, which runs all the time
  Outside,     \* init and everything below it that is not the agent's
  Protected,   \* the caller's own pids and that of the guard daemon
  MaxBirths    \* bound: processes started

ASSUME BirthsBound == MaxBirths \in Nat

VARIABLES
  table,     \* of processes
  births,
  phase,
  rows,      \* what the scan has seen of each pid, if it has kept that
  handles,   \* whether a process is known by its start time since the scan, or only by its pid
  todo,      \* the candidates that have not been looked at
  waiting,   \* what has had SIGTERM
  hits       \* every signal: [signal, pid, born]

procVars == <<table, births>>
enforceVars == <<procVars, phase, rows, handles, todo, waiting, hits>>

Free == [born |-> 0, parent |-> Outside, hot |-> FALSE, zombie |-> FALSE]
Alive(t, p) == t[p].born # 0

\* The root is among the ancestors of p; the walk is bounded in the code, too.
Descends(t, p) ==
  LET below[n \in 0 .. Cardinality(Procs) + 1] ==
        IF n = 0 THEN {}
        ELSE {q \in Procs : t[q].parent = RootPid \/ t[q].parent \in below[n - 1]}
  IN  p \in below[Cardinality(Procs) + 1]

\* p is gone; its children belong to init.
Without(t, p) ==
  [q \in Procs |-> IF q = p THEN Free
                   ELSE [t[q] EXCEPT !.parent = IF t[q].parent = p THEN Outside ELSE t[q].parent]]

-----------------------------------------------------------------------------
EnforceInit ==
  /\ table = [p \in Procs |-> Free]
  /\ births = 0
  /\ phase = "idle"
  /\ rows = table
  /\ handles = FALSE
  /\ todo = {} /\ waiting = {} /\ hits = {}

Fork ==
  /\ births < MaxBirths
  /\ births' = births + 1
  /\ \E p \in {q \in Procs : ~Alive(table, q)}, hot \in BOOLEAN,
       parent \in {RootPid, Outside} \cup {q \in Procs : Alive(table, q) /\ ~table[q].zombie} :
       table' = [table EXCEPT ![p] = [born |-> births', parent |-> parent, hot |-> hot, zombie |-> FALSE]]
  /\ UNCHANGED <<phase, rows, handles, todo, waiting, hits>>

Exit ==
  /\ \E p \in Procs :
       /\ Alive(table, p)
       /\ \/ table' = Without(table, p)
          \/ /\ ~table[p].zombie   \* until its parent asks for its status
             /\ table' = [Without(table, p) EXCEPT ![p] = [table[p] EXCEPT !.zombie = TRUE]]
  /\ UNCHANGED <<births, phase, rows, handles, todo, waiting, hits>>

WindowStates == {"missing", "stale", "warming_up", "calm", "pressure"}

\* The window of the guard daemon must show that there is pressure; a state that is missing,
\* stale, or not yet over enough samples says nothing, and nothing is done.
AutoEnforce ==
  /\ phase = "idle"
  /\ \E state \in WindowStates :
       phase' = (IF state = "pressure" THEN "scan" ELSE "done")
  /\ UNCHANGED <<procVars, rows, handles, todo, waiting, hits>>

IsOwned(seen, p) == Descends(seen, p)
Runaways(seen) ==
  {p \in Procs : Alive(seen, p) /\ IsOwned(seen, p) /\ ~seen[p].zombie /\ seen[p].hot /\ p \notin Protected}

\* With ps there are rows only, and the process of a pid is looked up when it is its turn.
\* A dry run ends here.
Scan ==
  /\ phase = "scan"
  /\ \/ handles' = TRUE /\ rows' = table
     \/ UNCHANGED <<handles, rows>>
  /\ todo' = Runaways(table)
  /\ phase' \in {"term", "done"}
  /\ UNCHANGED <<procVars, waiting, hits>>

BugStillOwnedAndSame(p, born) == Alive(table, p) /\ table[p].born = born
StillOwnedAndSame(p, born) ==
  /\ Alive(table, p) /\ table[p].born = born
  /\ Descends(table, p)

\* The identity that the check is made against.
Identity(p) == IF handles THEN rows[p].born ELSE table[p].born

Terminate ==
  /\ phase = "term"
  /\ \E p \in todo :
       /\ todo' = todo \ {p}
       /\ IF StillOwnedAndSame(p, Identity(p))
          THEN \/ /\ waiting' = waiting \cup {[pid |-> p, born |-> Identity(p)]}
                  /\ hits' = hits \cup {[signal |-> "TERM", pid |-> p, born |-> table[p].born]}
               \/ UNCHANGED <<waiting, hits>>   \* gone or denied
          ELSE UNCHANGED <<waiting, hits>>
  /\ UNCHANGED <<procVars, phase, rows, handles>>

\* The grace period is over.
Waited ==
  /\ phase = "term"
  /\ todo = {}
  /\ waiting' = {w \in waiting : Alive(table, w.pid) /\ table[w.pid].born = w.born}
  /\ phase' = "kill"
  /\ UNCHANGED <<procVars, rows, handles, todo, hits>>

Kill ==
  /\ phase = "kill"
  /\ \E w \in waiting :
       /\ waiting' = waiting \ {w}
       /\ IF StillOwnedAndSame(w.pid, w.born)
          THEN \/ /\ hits' = hits \cup {[signal |-> "KILL", pid |-> w.pid, born |-> table[w.pid].born]}
                  /\ table' = Without(table, w.pid)
               \/ UNCHANGED <<hits, table>>
          ELSE UNCHANGED <<hits, table>>
  /\ UNCHANGED <<births, phase, rows, handles, todo>>

Enforced ==
  /\ phase = "kill" /\ waiting = {}
  /\ phase' = "done"
  /\ UNCHANGED <<procVars, rows, handles, todo, waiting, hits>>

EnforceNext == Fork \/ Exit \/ AutoEnforce \/ Scan \/ Terminate \/ Waited \/ Kill \/ Enforced
EnforceSpec == EnforceInit /\ [][EnforceNext]_enforceVars

-----------------------------------------------------------------------------
EnforceTypeOK ==
  /\ \A p \in Procs : table[p].born \in 0 .. MaxBirths
  /\ phase \in {"idle", "scan", "term", "kill", "done"}
  /\ todo \subseteq Procs

\* A signal reaches only a process that descends from the root at that moment and is not
\* protected; SIGKILL only the very process that has had SIGTERM, however often pids were
\* reused; and with handles, SIGTERM only what the scan found to be too hot.
SignalsOnlyOwned ==
  [][\A h \in hits' \ hits :
       /\ Descends(table, h.pid) /\ h.pid \notin Protected
       /\ h.signal = "KILL" => [h EXCEPT !.signal = "TERM"] \in hits
       /\ handles => rows[h.pid].born = h.born /\ rows[h.pid].hot]_enforceVars
=============================================================================
