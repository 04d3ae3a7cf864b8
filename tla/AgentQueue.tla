------------------------------ MODULE AgentQueue ------------------------------
(***************************************************************************)
(* The in-memory work queue: a heap of bounded size, ordered by priority   *)
(* (the smaller the more urgent), then by arrival.  A full queue gives up  *)
(* its worst entry, but only for a more urgent one.                        *)
(***************************************************************************)
EXTENDS Integers, FiniteSets

CONSTANTS
  Priorities,
  MaxSize,
  MaxArrivals   \* bound: items offered

VARIABLES
  heap,       \* the entries that wait: [priority, sequence]
  sequence,   \* how many were offered
  taken,      \* what the last call has handed out
  refused     \* what it has turned away

queueVars == <<heap, sequence, taken, refused>>

ASSUME QueueSizes == MaxSize \in Nat \ {0}
ASSUME PrioritiesType == Priorities \subseteq Int

Before(e, f) ==
  e.priority < f.priority \/ (e.priority = f.priority /\ e.sequence < f.sequence)

QueueInit == heap = {} /\ sequence = 0 /\ taken = {} /\ refused = {}

\* The oldest of the least urgent, in the place of the youngest.
BugWorst ==
  CHOOSE e \in heap : \A f \in heap \ {e} :
    f.priority < e.priority \/ (f.priority = e.priority /\ e.sequence < f.sequence)
Worst == CHOOSE e \in heap : \A f \in heap \ {e} : Before(f, e)

Offer ==
  /\ sequence < MaxArrivals
  /\ sequence' = sequence + 1
  /\ taken' = {}
  /\ \E p \in Priorities :
       LET entry == [priority |-> p, sequence |-> sequence]
       IN  \/ Cardinality(heap) < MaxSize /\ heap' = heap \cup {entry} /\ refused' = {}
           \/ /\ Cardinality(heap) = MaxSize /\ p >= Worst.priority
              /\ refused' = {entry} /\ UNCHANGED heap
           \/ /\ Cardinality(heap) = MaxSize /\ p < Worst.priority
              /\ heap' = (heap \ {Worst}) \cup {entry} /\ refused' = {Worst}

Dequeue ==
  /\ taken' = {e \in heap : \A f \in heap \ {e} : Before(e, f)}
  /\ heap' = heap \ taken'
  /\ refused' = {}
  /\ UNCHANGED sequence

QueueNext == Offer \/ Dequeue
QueueSpec == QueueInit /\ [][QueueNext]_queueVars

-----------------------------------------------------------------------------
QueueTypeOK ==
  /\ heap \subseteq [priority : Priorities, sequence : 0 .. sequence - 1]
  /\ Cardinality(heap) <= MaxSize

\* What is handed out goes before everything that still waits, and what is turned away, the
\* item offered or an older one, comes behind everything that stays, so that of two items of
\* the same priority the first one offered is never the one to go.
WorstGoes ==
  /\ \A e \in taken, f \in heap : Before(e, f)
  /\ \A e \in refused, f \in heap : Before(f, e)
=============================================================================
