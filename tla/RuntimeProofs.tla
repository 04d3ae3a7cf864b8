--------------------------- MODULE RuntimeProofs ---------------------------
(***************************************************************************)
(* Proofs about the smaller parts of the runtime, for any number of        *)
(* servers, threads, pids, callers and queue entries: the model            *)
(* supervisor, the in-memory queue, the guard's enforcement, the browser   *)
(* session and the queue bridge; and about all parts together, as MCParts  *)
(* checks them.                                                            *)
(***************************************************************************)
EXTENDS MCParts, PreprocessProofs, LedgerProofs, DispatchBundleProofs

-----------------------------------------------------------------------------
(* The model supervisor.                                                   *)
(*                                                                         *)
(* Between the look at the endpoint and the spawn there is no server of    *)
(* its own that runs: nobody else can start one for it, and one that has   *)
(* died stays dead.                                                        *)

NoneBeforeSpawn == serving = "spawn" => RunningServers \subseteq left

SuperInv ==
  /\ SuperTypeOK /\ OneKnownServer /\ NoneBeforeSpawn
  /\ server \in [Servers -> {"new", "live", "dying", "killed", "dead"}]

LEMMA SuperStep == SuperInv /\ [SuperNext]_superVars => SuperInv'
<1> SUFFICES ASSUME SuperInv, [SuperNext]_superVars PROVE SuperInv'
  OBVIOUS
<1> USE NoServerIsNone DEF SuperInv, SuperTypeOK, OneKnownServer, NoneBeforeSpawn, RunningServers,
                           IsRunning, Proceed, Answer
<1>1. CASE Serve
  BY <1>1 DEF Serve
<1>2. CASE Setup
  BY <1>2 DEF Setup
<1>3. CASE Install
  BY <1>3 DEF Install
<1>4. CASE Start
  BY <1>4 DEF Start
<1>5. CASE Spawn
  BY <1>5 DEF Spawn
<1>6. CASE Observe
  BY <1>6 DEF Observe
<1>7. CASE Stop
  BY <1>7 DEF Stop
<1>8. CASE WaitTerm
  BY <1>8 DEF WaitTerm
<1>9. CASE WaitKill
  BY <1>9 DEF WaitKill
<1>10. CASE SupervisorLeaves
  BY <1>10 DEF SupervisorLeaves
<1>11. CASE ServerDies
  BY <1>11 DEF ServerDies
<1>12. CASE Listen
  BY <1>12 DEF Listen
<1>13. CASE Remove
  BY <1>13 DEF Remove
<1>14. CASE UNCHANGED superVars
  BY <1>14 DEF superVars
<1> QED
  BY <1>1, <1>2, <1>3, <1>4, <1>5, <1>6, <1>7, <1>8, <1>9, <1>10, <1>11, <1>12, <1>13, <1>14
     DEF SuperNext

LEMMA SuperStarts == SuperInit => SuperInv
BY NoServerIsNone DEF SuperInit, SuperInv, SuperTypeOK, OneKnownServer, NoneBeforeSpawn, RunningServers

LEMMA SuperInvariance == SuperSpec => []SuperInv
BY SuperStarts, SuperStep, PTL DEF SuperSpec

\* A supervisor never runs a second server beside one it has spawned, and says "stopped" only
\* of a server that has ended (supervisor.py), however many servers there are.
THEOREM OneServer == SuperSpec => []OneKnownServer
<1>1. SuperInv => OneKnownServer
  BY DEF SuperInv
<1> QED
  BY <1>1, SuperInvariance, PTL

-----------------------------------------------------------------------------
(* The in-memory queue. *)

QueueEntries == [priority : Priorities, sequence : Nat]
Distinct(S) == \A e, f \in S : e.sequence = f.sequence => e = f
HasWorst(S) == \E e \in S : \A f \in S \ {e} : Before(f, e)

\* QueueEntries with different sequence numbers are ordered.
LEMMA BeforeIsTotal ==
  ASSUME NEW e \in QueueEntries, NEW f \in QueueEntries, e.sequence # f.sequence
  PROVE  Before(e, f) \/ Before(f, e)
<1>1. \A g \in QueueEntries : g.priority \in Int /\ g.sequence \in Nat
  BY PrioritiesType DEF QueueEntries
<1> QED
  BY <1>1 DEF Before

LEMMA BeforeIsTransitive ==
  ASSUME NEW e \in QueueEntries, NEW f \in QueueEntries, NEW g \in QueueEntries, Before(e, f), Before(f, g)
  PROVE  Before(e, g)
<1>1. \A h \in QueueEntries : h.priority \in Int /\ h.sequence \in Nat
  BY PrioritiesType DEF QueueEntries
<1> QED
  BY <1>1 DEF Before

\* A finite set of entries, one for each sequence number, has a worst one.  (A set without is
\* none of the smallest: without any one of its members it has a worst one, and that one or the
\* member is the worst of all.)
LEMMA WorstExists ==
  ASSUME NEW H, H \subseteq QueueEntries, IsFiniteSet(H), Distinct(H), H # {}
  PROVE  HasWorst(H)
<1> DEFINE Lacking == {S \in SUBSET H : S # {} /\ ~ HasWorst(S)}
           Sizes == {Cardinality(S) : S \in Lacking}
<1> SUFFICES ASSUME ~ HasWorst(H) PROVE FALSE
  OBVIOUS
<1>1. \A S \in SUBSET H : IsFiniteSet(S) /\ Cardinality(S) \in Nat
  BY FS_Subset, FS_CardinalityType
<1>2. Sizes \subseteq Nat /\ Sizes # {}
  BY <1>1
<1>3. PICK n \in Sizes : \A m \in Sizes : n <= m
  BY <1>2, LeastElement
<1>4. PICK S \in Lacking : Cardinality(S) = n
  BY <1>3
<1>5. PICK e \in S : TRUE
  BY <1>4
<1> DEFINE R == S \ {e}
<1>6. Cardinality(R) = Cardinality(S) - 1 /\ R \in SUBSET H /\ Cardinality(S) \in Nat
  BY <1>1, <1>4, <1>5, FS_RemoveElement
<1>7. CASE R = {}
  <2>1. S = {e}
    BY <1>5, <1>7
  <2> QED
    BY <1>4, <2>1 DEF HasWorst
<1>8. CASE R # {}
  <2>1. R \notin Lacking
    <3>1. ~ (n <= Cardinality(R))
      BY <1>4, <1>6
    <3> QED
      BY <1>3, <3>1
  <2>2. HasWorst(R)
    BY <1>6, <1>8, <2>1
  <2>3. PICK w \in R : \A f \in R \ {w} : Before(f, w)
    BY <2>2 DEF HasWorst
  <2>4. e \in QueueEntries /\ w \in QueueEntries /\ e \in H /\ w \in H /\ e # w /\ e \in S /\ w \in S
    BY <1>4, <1>5, <2>3
  <2>5. CASE Before(e, w)
    <3>1. \A f \in S \ {w} : Before(f, w)
      BY <2>3, <2>5
    <3> QED
      BY <1>4, <2>4, <3>1 DEF HasWorst
  <2>6. CASE Before(w, e)
    <3>1. ASSUME NEW f \in S \ {e} PROVE Before(f, e)
      <4>1. f \in QueueEntries /\ (f = w \/ Before(f, w))
        BY <1>4, <2>3
      <4> QED
        BY <2>4, <2>6, <4>1, BeforeIsTransitive
    <3> QED
      BY <1>4, <2>4, <3>1 DEF HasWorst
  <2> QED
    BY <2>4, <2>5, <2>6, BeforeIsTotal DEF Distinct
<1> QED
  BY <1>7, <1>8

\* The invariant: sequence numbers are used once.
QueueInv ==
  /\ QueueTypeOK /\ WorstGoes
  /\ sequence \in Nat
  /\ IsFiniteSet(heap)
  /\ Distinct(heap)

LEMMA WorstIsWorst ==
  ASSUME QueueInv, heap # {}
  PROVE  Worst \in heap /\ \A f \in heap \ {Worst} : Before(f, Worst)
<1>1. heap \subseteq QueueEntries
  BY DEF QueueInv, QueueTypeOK, QueueEntries
<1>2. HasWorst(heap)
  BY <1>1, WorstExists DEF QueueInv
<1> QED
  BY <1>2, Zenon DEF HasWorst, Worst

LEMMA OfferStep == QueueInv /\ Offer => QueueInv'
<1> SUFFICES ASSUME QueueInv, Offer PROVE QueueInv'
  OBVIOUS
<1> USE PrioritiesType, QueueSizes
<1>1. PICK p \in Priorities :
       LET entry == [priority |-> p, sequence |-> sequence]
       IN  \/ Cardinality(heap) < MaxSize /\ heap' = heap \cup {entry} /\ refused' = {}
           \/ /\ Cardinality(heap) = MaxSize /\ p >= Worst.priority
              /\ refused' = {entry} /\ UNCHANGED heap
           \/ /\ Cardinality(heap) = MaxSize /\ p < Worst.priority
              /\ heap' = (heap \ {Worst}) \cup {entry} /\ refused' = {Worst}
  BY DEF Offer
<1> DEFINE entry == [priority |-> p, sequence |-> sequence]
<1>2. /\ sequence \in Nat /\ sequence' = sequence + 1 /\ taken' = {}
      /\ heap \subseteq [priority : Priorities, sequence : 0 .. sequence - 1]
      /\ IsFiniteSet(heap) /\ Distinct(heap) /\ Cardinality(heap) \in Nat
      /\ Cardinality(heap) <= MaxSize
  BY FS_CardinalityType DEF QueueInv, QueueTypeOK, Offer
<1>3. entry \notin heap /\ \A f \in heap : f.sequence < sequence /\ f.priority \in Int
  <2>1. \A f \in heap : f.sequence \in 0 .. sequence - 1 /\ f.priority \in Int
    BY <1>2
  <2> QED
    BY <1>2, <2>1
<1>4. CASE Cardinality(heap) < MaxSize /\ heap' = heap \cup {entry} /\ refused' = {}
  <2>1. IsFiniteSet(heap') /\ Cardinality(heap') = Cardinality(heap) + 1
    BY <1>2, <1>3, <1>4, FS_AddElement
  <2>2. QueueTypeOK'
    BY <1>2, <1>4, <2>1 DEF QueueTypeOK
  <2>3. Distinct(heap')
    BY <1>2, <1>3, <1>4 DEF Distinct
  <2> QED
    BY <1>2, <1>4, <2>1, <2>2, <2>3 DEF QueueInv, WorstGoes
<1>5. CASE Cardinality(heap) = MaxSize
  <2>1. heap # {}
    BY <1>2, <1>5, FS_EmptySet
  <2>2. Worst \in heap /\ \A f \in heap \ {Worst} : Before(f, Worst)
    BY <2>1, WorstIsWorst
  <2> DEFINE w == Worst
  <2> HIDE DEF w
  <2>3. w \in heap /\ (\A f \in heap \ {w} : Before(f, w)) /\ w.priority \in Int
    BY <1>3, <2>2 DEF w
  <2>4. CASE p >= w.priority /\ refused' = {entry} /\ UNCHANGED heap
    <3>1. \A f \in heap' : Before(f, entry)
      BY <1>3, <2>3, <2>4 DEF Before
    <3>2. QueueTypeOK'
      BY <1>2, <2>4 DEF QueueTypeOK
    <3> QED
      BY <1>2, <2>4, <3>1, <3>2 DEF QueueInv, WorstGoes, Distinct
  <2>5. CASE p < w.priority /\ heap' = (heap \ {w}) \cup {entry} /\ refused' = {w}
    <3>1. IsFiniteSet(heap \ {w}) /\ Cardinality(heap \ {w}) = Cardinality(heap) - 1
      BY <1>2, <2>3, FS_RemoveElement
    <3>2. IsFiniteSet(heap') /\ Cardinality(heap') = Cardinality(heap)
      <4> DEFINE R == heap \ {w}
      <4>1. IsFiniteSet(R \cup {entry}) /\ Cardinality(R \cup {entry}) = Cardinality(R) + 1
        <5>1. entry \notin R
          BY <1>3
        <5> HIDE DEF entry, R
        <5> QED
          BY <3>1, <5>1, FS_AddElement DEF R
      <4> QED
        BY <1>2, <2>5, <3>1, <4>1
    <3>3. QueueTypeOK'
      BY <1>2, <2>5, <3>2 DEF QueueTypeOK
    <3>4. Distinct(heap')
      BY <1>2, <1>3, <2>5 DEF Distinct
    <3>5. \A f \in heap' : Before(f, w)
      BY <2>3, <2>5 DEF Before
    <3> QED
      BY <1>2, <2>5, <3>2, <3>3, <3>4, <3>5 DEF QueueInv, WorstGoes
  <2> QED
    BY <1>1, <1>5, <2>4, <2>5, <1>2 DEF w
<1> QED
  BY <1>1, <1>2, <1>4, <1>5

LEMMA DequeueStep == QueueInv /\ Dequeue => QueueInv'
<1> SUFFICES ASSUME QueueInv, Dequeue PROVE QueueInv'
  OBVIOUS
<1>1. /\ taken' = {e \in heap : \A f \in heap \ {e} : Before(e, f)}
      /\ heap' = heap \ taken' /\ refused' = {} /\ sequence' = sequence
  BY DEF Dequeue
<1>2. heap' \subseteq heap /\ IsFiniteSet(heap')
  BY <1>1, FS_Subset DEF QueueInv
<1>3. Cardinality(heap') <= Cardinality(heap) /\ Cardinality(heap') \in Nat /\ Cardinality(heap) \in Nat
  BY <1>2, FS_Subset, FS_CardinalityType DEF QueueInv
<1>4. QueueTypeOK'
  BY <1>1, <1>2, <1>3, QueueSizes DEF QueueInv, QueueTypeOK
<1>5. WorstGoes'
  BY <1>1 DEF WorstGoes
<1> QED
  BY <1>1, <1>2, <1>4, <1>5 DEF QueueInv, Distinct

LEMMA QueueStarts == QueueInit => QueueInv
BY FS_EmptySet, QueueSizes DEF QueueInit, QueueInv, QueueTypeOK, WorstGoes, Distinct

LEMMA QueueStep == QueueInv /\ [QueueNext]_queueVars => QueueInv'
<1>1. QueueInv /\ UNCHANGED queueVars => QueueInv'
  BY DEF QueueInv, QueueTypeOK, WorstGoes, Distinct, queueVars, Before
<1> QED
  BY <1>1, OfferStep, DequeueStep DEF QueueNext

LEMMA QueueInvariance == QueueSpec => []QueueInv
BY QueueStarts, QueueStep, PTL DEF QueueSpec

\* The queue never holds more than its bound, and the sequence numbers are those it has given out.
THEOREM QueueBounded == QueueSpec => []QueueTypeOK
<1>1. QueueInv => QueueTypeOK
  BY DEF QueueInv
<1> QED
  BY <1>1, QueueInvariance, PTL

\* What is handed out goes before all that still waits, and what is turned away, the item that
\* was offered or an older one, would have come behind all that stays (work_queue.py), for every
\* capacity and every set of priorities.
THEOREM WorstEntryGoes == QueueSpec => []WorstGoes
<1>1. QueueInv => WorstGoes
  BY DEF QueueInv
<1> QED
  BY <1>1, QueueInvariance, PTL

-----------------------------------------------------------------------------
(* The guard's enforcement.                                                *)
(*                                                                         *)
(* What the scan has found is what the signals are sent to: the candidates *)
(* are unprotected and, with handles, as hot as the scan has seen them, and *)
(* whatever waits has had its SIGTERM under the very same start time.      *)

TableOK ==
  /\ births \in 0 .. MaxBirths
  /\ table \in [Procs -> [born : 0 .. births, parent : Procs \cup {RootPid, Outside},
                           hot : BOOLEAN, zombie : BOOLEAN]]

\* Before the scan there is nothing that could have a signal.
NothingBeforeScan == phase \in {"idle", "scan"} => waiting = {} /\ ~ handles

CandidatesAreSeen ==
  \A p \in todo : p \notin Protected /\ (handles => rows[p].hot)

WaitingHadTerm ==
  \A w \in waiting :
    /\ w = [pid |-> w.pid, born |-> w.born]
    /\ w.pid \in Procs \ Protected
    /\ [signal |-> "TERM", pid |-> w.pid, born |-> w.born] \in hits
    /\ handles => rows[w.pid].born = w.born /\ rows[w.pid].hot

EnforceInv ==
  EnforceTypeOK /\ TableOK /\ NothingBeforeScan /\ CandidatesAreSeen /\ WaitingHadTerm

\* What a step of the guard may do to the signals.
SignalStep ==
  \A h \in hits' \ hits :
    /\ Descends(table, h.pid) /\ h.pid \notin Protected
    /\ h.signal = "KILL" => [h EXCEPT !.signal = "TERM"] \in hits
    /\ handles => rows[h.pid].born = h.born /\ rows[h.pid].hot

LEMMA WithoutType ==
  ASSUME TableOK, NEW p \in Procs
  PROVE  Without(table, p) \in [Procs -> [born : 0 .. births, parent : Procs \cup {RootPid, Outside},
                                          hot : BOOLEAN, zombie : BOOLEAN]]
BY BirthsBound DEF TableOK, Without, Free

LEMMA EnforceStep == EnforceInv /\ [EnforceNext]_enforceVars => EnforceInv'
<1> SUFFICES ASSUME EnforceInv, [EnforceNext]_enforceVars PROVE EnforceInv'
  OBVIOUS
<1> USE DEF EnforceInv, NothingBeforeScan, CandidatesAreSeen, WaitingHadTerm, procVars
<1>1. CASE Fork
  <2>1. TableOK'
    BY <1>1, BirthsBound DEF Fork, TableOK, Alive
  <2>2. EnforceTypeOK'
    BY <1>1, <2>1, BirthsBound DEF Fork, EnforceTypeOK, TableOK
  <2> QED
    BY <1>1, <2>1, <2>2 DEF Fork
<1>2. CASE Exit
  <2>1. PICK p \in Procs :
          \/ table' = Without(table, p)
          \/ table' = [Without(table, p) EXCEPT ![p] = [table[p] EXCEPT !.zombie = TRUE]]
    BY <1>2 DEF Exit
  <2>2. TableOK'
    <3> DEFINE Rows == [born : 0 .. births, parent : Procs \cup {RootPid, Outside},
                        hot : BOOLEAN, zombie : BOOLEAN]
    <3>1. Without(table, p) \in [Procs -> Rows] /\ table \in [Procs -> Rows]
      BY WithoutType DEF TableOK
    <3>2. [table[p] EXCEPT !.zombie = TRUE] \in Rows
      BY <3>1
    <3>3. table' \in [Procs -> Rows]
      <4> HIDE DEF Rows
      <4> QED
        BY <2>1, <3>1, <3>2
    <3> QED
      BY <1>2, <3>3 DEF Exit, TableOK
  <2>3. EnforceTypeOK'
    BY <1>2, <2>2, BirthsBound DEF Exit, EnforceTypeOK, TableOK
  <2> QED
    BY <1>2, <2>2, <2>3 DEF Exit
<1>3. CASE AutoEnforce
  BY <1>3 DEF AutoEnforce, TableOK, EnforceTypeOK
<1>4. CASE Scan
  <2>1. todo' = Runaways(table) /\ waiting' = {} /\ (handles' => rows' = table)
    BY <1>4 DEF Scan
  <2>2. todo' \subseteq Procs /\ CandidatesAreSeen'
    BY <2>1 DEF Runaways
  <2> QED
    BY <1>4, <2>1, <2>2 DEF Scan, TableOK, EnforceTypeOK
<1>5. CASE Terminate
  <2>1. PICK p \in todo :
       /\ todo' = todo \ {p}
       /\ \/ /\ StillOwnedAndSame(p, Identity(p))
             /\ waiting' = waiting \cup {[pid |-> p, born |-> Identity(p)]}
             /\ hits' = hits \cup {[signal |-> "TERM", pid |-> p, born |-> table[p].born]}
          \/ UNCHANGED <<waiting, hits>>
    BY <1>5 DEF Terminate
  <2>2. UNCHANGED <<table, births, phase, rows, handles>> /\ phase = "term"
    BY <1>5 DEF Terminate
  <2>3. WaitingHadTerm'
    <3>1. CASE UNCHANGED <<waiting, hits>>
      BY <2>2, <3>1
    <3>2. CASE /\ StillOwnedAndSame(p, Identity(p))
               /\ waiting' = waiting \cup {[pid |-> p, born |-> Identity(p)]}
               /\ hits' = hits \cup {[signal |-> "TERM", pid |-> p, born |-> table[p].born]}
      <4>1. Identity(p) = table[p].born /\ (handles => Identity(p) = rows[p].born)
        BY <3>2 DEF StillOwnedAndSame, Identity
      <4>2. p \in Procs \ Protected /\ (handles => rows[p].hot)
        BY DEF EnforceTypeOK
      <4> DEFINE new == [pid |-> p, born |-> Identity(p)]
      <4>3. /\ new = [pid |-> new.pid, born |-> new.born]
            /\ new.pid \in Procs \ Protected
            /\ [signal |-> "TERM", pid |-> new.pid, born |-> new.born] \in hits'
            /\ handles' => rows'[new.pid].born = new.born /\ rows'[new.pid].hot
        BY <2>2, <3>2, <4>1, <4>2
      <4> HIDE DEF new
      <4>4. ASSUME NEW w \in waiting'
            PROVE  /\ w = [pid |-> w.pid, born |-> w.born]
                   /\ w.pid \in Procs \ Protected
                   /\ [signal |-> "TERM", pid |-> w.pid, born |-> w.born] \in hits'
                   /\ handles' => rows'[w.pid].born = w.born /\ rows'[w.pid].hot
        <5>1. w \in waiting \/ w = new
          BY <3>2, <4>4 DEF new
        <5>2. CASE w = new
          BY <4>3, <5>2
        <5>3. CASE w \in waiting
          BY <2>2, <3>2, <5>3
        <5> QED
          BY <5>1, <5>2, <5>3
      <4> QED
        BY <4>4
    <3> QED
      BY <2>1, <3>1, <3>2
  <2> QED
    BY <2>1, <2>2, <2>3 DEF TableOK, EnforceTypeOK
<1>6. CASE Waited
  BY <1>6 DEF Waited, TableOK, EnforceTypeOK
<1>7. CASE Kill
  <2>1. PICK w \in waiting :
       /\ waiting' = waiting \ {w}
       /\ table' = Without(table, w.pid) \/ table' = table
       /\ hits \subseteq hits'
    BY <1>7 DEF Kill
  <2>2. TableOK'
    <3>1. /\ births' = births /\ TableOK
          /\ Without(table, w.pid) \in [Procs -> [born : 0 .. births, parent : Procs \cup {RootPid, Outside},
                                                  hot : BOOLEAN, zombie : BOOLEAN]]
      BY <1>7, WithoutType DEF Kill
    <3> QED
      BY <2>1, <3>1 DEF TableOK
  <2>3. EnforceTypeOK'
    BY <1>7, <2>2, BirthsBound DEF Kill, EnforceTypeOK, TableOK
  <2> QED
    BY <1>7, <2>1, <2>2, <2>3 DEF Kill
<1>8. CASE Enforced
  BY <1>8 DEF Enforced, TableOK, EnforceTypeOK
<1>9. CASE UNCHANGED enforceVars
  BY <1>9 DEF enforceVars, TableOK, EnforceTypeOK
<1> QED
  BY <1>1, <1>2, <1>3, <1>4, <1>5, <1>6, <1>7, <1>8, <1>9 DEF EnforceNext

LEMMA SignalsStep == EnforceInv /\ [EnforceNext]_enforceVars => SignalStep
<1> SUFFICES ASSUME EnforceInv, [EnforceNext]_enforceVars, NEW h \in hits' \ hits
             PROVE  /\ Descends(table, h.pid) /\ h.pid \notin Protected
                    /\ h.signal = "KILL" => [h EXCEPT !.signal = "TERM"] \in hits
                    /\ handles => rows[h.pid].born = h.born /\ rows[h.pid].hot
  BY DEF SignalStep
<1>1. Terminate \/ Kill
  BY DEF EnforceNext, Fork, Exit, AutoEnforce, Scan, Waited, Enforced, enforceVars
<1>2. CASE Terminate
  <2>1. PICK p \in todo :
          /\ StillOwnedAndSame(p, Identity(p))
          /\ h = [signal |-> "TERM", pid |-> p, born |-> table[p].born]
    BY <1>2 DEF Terminate
  <2>2. Descends(table, p) /\ p \notin Protected /\ table[p].born = Identity(p) /\ (handles => rows[p].hot)
    BY <2>1 DEF StillOwnedAndSame, EnforceInv, CandidatesAreSeen
  <2> QED
    BY <2>1, <2>2 DEF Identity
<1>3. CASE Kill
  <2>1. PICK w \in waiting :
          /\ StillOwnedAndSame(w.pid, w.born)
          /\ h = [signal |-> "KILL", pid |-> w.pid, born |-> table[w.pid].born]
    BY <1>3 DEF Kill
  <2>2. /\ Descends(table, w.pid) /\ table[w.pid].born = w.born
        /\ w.pid \notin Protected
        /\ [signal |-> "TERM", pid |-> w.pid, born |-> w.born] \in hits
        /\ handles => rows[w.pid].born = w.born /\ rows[w.pid].hot
    BY <2>1 DEF StillOwnedAndSame, EnforceInv, WaitingHadTerm
  <2>3. [h EXCEPT !.signal = "TERM"] = [signal |-> "TERM", pid |-> w.pid, born |-> w.born]
    BY <2>1, <2>2
  <2> QED
    BY <2>1, <2>2, <2>3
<1> QED
  BY <1>1, <1>2, <1>3

LEMMA EnforceStarts == EnforceInit => EnforceInv
BY BirthsBound DEF EnforceInit, EnforceInv, EnforceTypeOK, TableOK, Free, NothingBeforeScan,
                   CandidatesAreSeen, WaitingHadTerm

LEMMA EnforceInvariance == EnforceSpec => []EnforceInv
BY EnforceStarts, EnforceStep, PTL DEF EnforceSpec

\* Every signal of the guard goes to a process below a registered root that is not protected,
\* and SIGKILL only to what has had SIGTERM (guard_bridge.py), however many processes there
\* are and however they are born, end and reuse pids between the scan and the signals.
THEOREM SignalsAreOwned == EnforceSpec => SignalsOnlyOwned
<1>1. EnforceInv /\ [EnforceNext]_enforceVars => [SignalStep]_enforceVars
  BY SignalsStep
<1> QED
  BY <1>1, EnforceInvariance, PTL DEF EnforceSpec, SignalsOnlyOwned, SignalStep

-----------------------------------------------------------------------------
(* The browser session.                                                    *)
(*                                                                         *)
(* Only the owner of the lock works with a driver.  While it opens the     *)
(* session there is no mode, and once it has put its driver there the      *)
(* session has that one or, when the handler came in between, none, and    *)
(* then the driver does not run any more.                                  *)

Places == {"idle", "ensure", "started", "open", "opened", "page", "use", "exit"}

ThreadsOK ==
  /\ threadAt \in [Threads -> Places] /\ works \in [Threads -> Nat]
  /\ started \in 0 .. MaxDrivers /\ drivers \subseteq 1 .. started
  /\ owner \in Threads \cup {Unlocked}
  /\ session \in [driver : Nat, mode : BrowserModes \cup {"none"}, page : BOOLEAN, up : BOOLEAN]

OwnerWorks == \A t \in Threads : threadAt[t] \in {"idle", "ensure", "exit"} => works[t] = 0
OpeningHasNoMode ==
  \A t \in Threads : threadAt[t] \in {"started", "open", "opened"} => session.mode = "none"
SessionHasDriver ==
  \A t \in Threads :
    threadAt[t] \in {"open", "opened", "page", "use"} /\ works[t] \in drivers => works[t] = session.driver
ClosedHasNone ==
  \/ interrupted
  \/ session.mode # "none"
  \/ \E t \in Threads : threadAt[t] \in {"open", "opened"}
  \/ session.driver = 0
NoneOrphaned ==
  \/ interrupted
  \/ \A d \in drivers : d = session.driver \/ \E t \in Threads : works[t] = d

BrowserInv ==
  /\ BrowserTypeOK /\ ThreadsOK /\ OwnerWorks /\ OpeningHasNoMode /\ SessionHasDriver
  /\ ClosedHasNone /\ NoneOrphaned

LEMMA BrowserStarts == BrowserInit => BrowserInv
BY MainIsThread, DriversBound
   DEF BrowserInit, BrowserInv, BrowserTypeOK, ThreadsOK, OwnerWorks, OpeningHasNoMode, SessionHasDriver,
       ClosedHasNone, NoneOrphaned, Closed, Places

\* While one thread has the lock the others have nothing to do with the session.
LEMMA OthersAreOut ==
  ASSUME BrowserInv, NEW t \in Threads, threadAt[t] \notin {"idle", "exit"}
  PROVE  owner = t /\ \A u \in Threads \ {t} : threadAt[u] \in {"idle", "exit"} /\ works[u] = 0
BY DEF BrowserInv, BrowserTypeOK, OwnerWorks

\* A call leaves with the session closed, or as it is when its driver is not lost by that.
LEMMA LeavingKeeps ==
  ASSUME BrowserInv, NEW t \in Threads, threadAt[t] \notin {"idle", "exit"},
         LeaveCall(t), UNCHANGED <<started, interrupted>>,
         interrupted \/ (works[t] \in drivers => works[t] = session.driver),
         \/ CloseSession
         \/ /\ UNCHANGED drivers
            /\ session' \in [driver : {session.driver}, mode : BrowserModes \cup {"none"},
                             page : BOOLEAN, up : BOOLEAN]
            /\ interrupted \/ session'.mode # "none" \/ session'.driver = 0
  PROVE  BrowserInv'
<1> DEFINE Mine == works[t] \in drivers => works[t] = session.driver
<1>1. owner = t /\ \A u \in Threads \ {t} : threadAt[u] \in {"idle", "exit"} /\ works[u] = 0
  BY OthersAreOut
<1>2. /\ threadAt' \in [Threads -> Places] /\ works' \in [Threads -> Nat]
      /\ owner' = Unlocked
      /\ \A u \in Threads : threadAt'[u] \in {"idle", "exit"} /\ works'[u] = 0
      /\ drivers' \subseteq drivers
  <2>1. threadAt' = [threadAt EXCEPT ![t] = "idle"] /\ works' = [works EXCEPT ![t] = 0] /\ owner' = Unlocked
    BY DEF LeaveCall, Go
  <2>2. drivers' \subseteq drivers
    BY DEF CloseSession
  <2> QED
    BY <1>1, <2>1, <2>2 DEF BrowserInv, ThreadsOK, Places
<1>3. session' \in [driver : Nat, mode : BrowserModes \cup {"none"}, page : BOOLEAN, up : BOOLEAN]
  <2>1. CASE CloseSession
    BY <2>1 DEF CloseSession, Closed
  <2>2. CASE ~ CloseSession
    BY <2>2 DEF BrowserInv, ThreadsOK
  <2> QED
    BY <2>1, <2>2
<1>4. ThreadsOK' /\ BrowserTypeOK' /\ OwnerWorks'
  <2>1. ThreadsOK'
    BY <1>2, <1>3 DEF BrowserInv, ThreadsOK
  <2>2. BrowserTypeOK'
    BY <1>2, <1>3, MainIsThread DEF BrowserInv, ThreadsOK, BrowserTypeOK
  <2> QED
    BY <1>2, <2>1, <2>2 DEF OwnerWorks
<1>5. OpeningHasNoMode' /\ SessionHasDriver'
  BY <1>2 DEF OpeningHasNoMode, SessionHasDriver
<1>6. ClosedHasNone'
  BY DEF ClosedHasNone, CloseSession, Closed
<1>7. NoneOrphaned'
  <2>1. CASE interrupted
    BY <2>1 DEF NoneOrphaned
  <2>2. CASE ~ interrupted
    <3>1. \A d \in drivers : d = session.driver
      <4>1. \A d \in drivers : d = session.driver \/ d = works[t] \/ d = 0
        BY <1>1, <2>2 DEF BrowserInv, NoneOrphaned
      <4>2. 0 \notin drivers
        BY DEF BrowserInv, ThreadsOK
      <4> QED
        BY <2>2, <4>1, <4>2
    <3> QED
      BY <3>1 DEF NoneOrphaned, CloseSession
  <2> QED
    BY <2>1, <2>2
<1> QED
  BY <1>4, <1>5, <1>6, <1>7 DEF BrowserInv

LEMMA StartDriverStep ==
  ASSUME BrowserInv, NEW t \in Threads, StartDriver(t)
  PROVE  BrowserInv'
<1>1. /\ threadAt[t] = "ensure" /\ session.mode = "none" /\ works[t] = 0 /\ 0 \notin drivers
      /\ interrupted' = interrupted
  BY DEF StartDriver, BrowserInv, OwnerWorks, ThreadsOK
<1>2. owner = t /\ \A u \in Threads \ {t} : threadAt[u] \in {"idle", "exit"} /\ works[u] = 0
  BY <1>1, OthersAreOut
<1>3. interrupted \/ session.driver = 0
  BY <1>1, <1>2 DEF BrowserInv, ClosedHasNone
<1>4. CASE LeaveCall(t) /\ UNCHANGED <<session, drivers, started>>
  <2>1. session' \in [driver : {session.driver}, mode : BrowserModes \cup {"none"}, page : BOOLEAN, up : BOOLEAN]
    BY <1>4 DEF BrowserInv, ThreadsOK
  <2> QED
    BY <1>1, <1>3, <1>4, <2>1, LeavingKeeps
<1>5. CASE LeaveCall(t) /\ CloseSession /\ UNCHANGED started
  BY <1>1, <1>5, LeavingKeeps
<1>6. CASE /\ started < MaxDrivers /\ started' = started + 1
           /\ drivers' = drivers \cup {started'}
           /\ works' = [works EXCEPT ![t] = started']
           /\ Go(t, "started") /\ UNCHANGED <<session, opensOnly, owner>>
  <2>1. ThreadsOK' /\ BrowserTypeOK' /\ OwnerWorks'
    BY <1>1, <1>6, DriversBound
       DEF BrowserInv, BrowserTypeOK, ThreadsOK, OwnerWorks, Go, Places
  <2>2. OpeningHasNoMode' /\ SessionHasDriver' /\ ClosedHasNone'
    BY <1>1, <1>2, <1>3, <1>6
       DEF BrowserInv, ThreadsOK, OpeningHasNoMode, SessionHasDriver, ClosedHasNone, Go
  <2>3. NoneOrphaned'
    BY <1>1, <1>6 DEF BrowserInv, ThreadsOK, NoneOrphaned
  <2> QED
    BY <2>1, <2>2, <2>3 DEF BrowserInv
<1> QED
  BY <1>1, <1>4, <1>5, <1>6 DEF StartDriver

LEMMA OpenStep ==
  ASSUME BrowserInv, NEW t \in Threads, Open(t)
  PROVE  BrowserInv'
<1>1. /\ threadAt[t] = "open" /\ UNCHANGED <<started, interrupted>>
      /\ works[t] \in drivers => works[t] = session.driver
  BY DEF Open, BrowserInv, SessionHasDriver
<1>2. CASE LeaveCall(t) /\ CloseSession
  BY <1>1, <1>2, LeavingKeeps
<1>3. CASE Go(t, "opened") /\ UNCHANGED <<works, opensOnly, owner, session, drivers>>
  BY <1>1, <1>3, MainIsThread
     DEF BrowserInv, BrowserTypeOK, ThreadsOK, OwnerWorks, OpeningHasNoMode, SessionHasDriver,
         ClosedHasNone, NoneOrphaned, Go, Places
<1> QED
  BY <1>2, <1>3 DEF Open

LEMMA SetModeStep ==
  ASSUME BrowserInv, NEW t \in Threads, SetMode(t)
  PROVE  BrowserInv'
<1>1. /\ threadAt[t] = "opened" /\ UNCHANGED <<drivers, started, interrupted>>
      /\ works[t] \in drivers => works[t] = session.driver
  BY DEF SetMode, BrowserInv, SessionHasDriver
<1>2. /\ session' \in [driver : {session.driver}, mode : BrowserModes, page : BOOLEAN, up : BOOLEAN]
      /\ session'.mode # "none" /\ session'.driver = session.driver
  <2> DEFINE runs == works[t] \in drivers
  <2>1. PICK m \in BrowserModes : session' = [session EXCEPT !.mode = m, !.up = runs]
    BY DEF SetMode
  <2>2. /\ runs \in BOOLEAN /\ m # "none"
        /\ session \in [driver : Nat, mode : BrowserModes \cup {"none"}, page : BOOLEAN, up : BOOLEAN]
    BY DEF BrowserInv, ThreadsOK, BrowserModes
  <2> HIDE DEF runs
  <2> QED
    BY <2>1, <2>2
<1>3. owner = t /\ \A u \in Threads \ {t} : threadAt[u] \in {"idle", "exit"} /\ works[u] = 0
  BY <1>1, OthersAreOut
<1>4. CASE LeaveCall(t)
  BY <1>1, <1>2, <1>4, LeavingKeeps
<1>5. CASE Go(t, "page") /\ UNCHANGED <<works, opensOnly, owner>>
  <2>1. ThreadsOK' /\ BrowserTypeOK' /\ OwnerWorks'
    BY <1>1, <1>2, <1>5
       DEF BrowserInv, BrowserTypeOK, ThreadsOK, OwnerWorks, Go, Places
  <2>2. OpeningHasNoMode' /\ SessionHasDriver' /\ ClosedHasNone' /\ NoneOrphaned'
    BY <1>1, <1>2, <1>3, <1>5
       DEF BrowserInv, ThreadsOK, OpeningHasNoMode, SessionHasDriver, ClosedHasNone, NoneOrphaned, Go
  <2> QED
    BY <2>1, <2>2 DEF BrowserInv
<1> QED
  BY <1>4, <1>5 DEF SetMode

LEMMA PageStep ==
  ASSUME BrowserInv, NEW t \in Threads, Page(t)
  PROVE  BrowserInv'
<1>1. /\ threadAt[t] = "page" /\ UNCHANGED <<owner, started, interrupted>>
      /\ works[t] \in drivers => works[t] = session.driver
      /\ 0 \notin drivers
  BY DEF Page, BrowserInv, SessionHasDriver, ThreadsOK
<1>2. owner = t /\ \A u \in Threads \ {t} : threadAt[u] \in {"idle", "exit"} /\ works[u] = 0
  BY <1>1, OthersAreOut
<1>3. CASE /\ session.mode # "none" /\ session' = [session EXCEPT !.page = TRUE]
           /\ Go(t, "use") /\ UNCHANGED <<works, drivers>>
  <2>1. ThreadsOK' /\ BrowserTypeOK' /\ OwnerWorks'
    BY <1>1, <1>3
       DEF BrowserInv, BrowserTypeOK, ThreadsOK, OwnerWorks, Go, Places
  <2>2. OpeningHasNoMode' /\ SessionHasDriver' /\ ClosedHasNone' /\ NoneOrphaned'
    BY <1>1, <1>2, <1>3
       DEF BrowserInv, ThreadsOK, OpeningHasNoMode, SessionHasDriver, ClosedHasNone, NoneOrphaned, Go
  <2> QED
    BY <2>1, <2>2 DEF BrowserInv
<1>4. CASE /\ Go(t, "ensure") /\ works' = [works EXCEPT ![t] = 0]
           /\ UNCHANGED <<session, drivers>> \/ CloseSession
  <2>1. /\ threadAt' = [threadAt EXCEPT ![t] = "ensure"] /\ works' = [works EXCEPT ![t] = 0]
        /\ \/ session' = session /\ drivers' = drivers
           \/ drivers' = drivers \ {session.driver} /\ session' = Closed
    BY <1>4 DEF Go, CloseSession
  <2>2. /\ threadAt'[t] = "ensure" /\ works'[t] = 0
        /\ \A u \in Threads : threadAt'[u] \in {"idle", "exit", "ensure"} /\ works'[u] = 0
    BY <1>2, <2>1 DEF BrowserInv, ThreadsOK
  <2>3. session' \in [driver : Nat, mode : BrowserModes \cup {"none"}, page : BOOLEAN, up : BOOLEAN]
    <3>1. Closed \in [driver : Nat, mode : BrowserModes \cup {"none"}, page : BOOLEAN, up : BOOLEAN]
      BY DEF Closed
    <3> QED
      BY <2>1, <3>1 DEF BrowserInv, ThreadsOK
  <2>4. ThreadsOK'
    BY <1>1, <2>1, <2>3 DEF BrowserInv, ThreadsOK, Places
  <2>5. BrowserTypeOK'
    BY <1>1, <2>1, <2>3, <2>4 DEF BrowserInv, BrowserTypeOK, ThreadsOK
  <2>6. OwnerWorks' /\ OpeningHasNoMode' /\ SessionHasDriver'
    BY <2>2 DEF OwnerWorks, OpeningHasNoMode, SessionHasDriver
  <2>7. ClosedHasNone'
    BY <1>1, <1>2, <2>1 DEF BrowserInv, ClosedHasNone, Closed
  <2>8. NoneOrphaned'
    BY <1>1, <1>2, <2>1 DEF BrowserInv, NoneOrphaned
  <2> QED
    BY <2>4, <2>5, <2>6, <2>7, <2>8 DEF BrowserInv
<1> QED
  BY <1>3, <1>4 DEF Page

LEMMA HandleStep ==
  ASSUME BrowserInv, Handle
  PROVE  BrowserInv'
<1>1. UNCHANGED <<started, interrupted>>
  BY DEF Handle
<1>2. CASE ProcessEnds
  BY <1>1, <1>2, MainIsThread, DriversBound
     DEF ProcessEnds, Closed, BrowserInv, BrowserTypeOK, ThreadsOK, OwnerWorks, OpeningHasNoMode,
         SessionHasDriver, ClosedHasNone, NoneOrphaned, Places
<1>3. CASE CloseSession /\ UNCHANGED <<threadAt, works, opensOnly, owner>>
  <2>1. /\ drivers' = drivers \ {session.driver} /\ session' = Closed
        /\ Closed.driver = 0 /\ Closed.mode = "none"
        /\ Closed \in [driver : Nat, mode : BrowserModes \cup {"none"}, page : BOOLEAN, up : BOOLEAN]
    BY <1>3 DEF CloseSession, Closed
  <2>2. ThreadsOK' /\ BrowserTypeOK' /\ OwnerWorks'
    BY <1>1, <1>3, <2>1 DEF BrowserInv, BrowserTypeOK, ThreadsOK, OwnerWorks
  <2>3. OpeningHasNoMode' /\ SessionHasDriver' /\ ClosedHasNone' /\ NoneOrphaned'
    BY <1>1, <1>3, <2>1
       DEF BrowserInv, OpeningHasNoMode, SessionHasDriver, ClosedHasNone, NoneOrphaned
  <2> QED
    BY <2>2, <2>3 DEF BrowserInv
<1> QED
  BY <1>2, <1>3 DEF Handle

LEMMA BrowserStep == BrowserInv /\ [BrowserNext]_browserVars => BrowserInv'
<1> SUFFICES ASSUME BrowserInv, [BrowserNext]_browserVars PROVE BrowserInv'
  OBVIOUS
<1>1. ASSUME NEW t \in Threads, Call(t) \/ Reuse(t) \/ SetDriver(t) \/ Use(t)
      PROVE  BrowserInv'
  BY <1>1, MainIsThread, DriversBound
     DEF BrowserInv, BrowserTypeOK, ThreadsOK, OwnerWorks, OpeningHasNoMode, SessionHasDriver,
         ClosedHasNone, NoneOrphaned, Go, LeaveCall, BrowserModes, Places, Call, Reuse, SetDriver, Use
<1>2. CASE LinkDies
  <2>1. /\ UNCHANGED <<threadAt, works, owner, drivers, started, interrupted>>
        /\ session' = [session EXCEPT !.up = FALSE, !.page = FALSE]
        /\ session \in [driver : Nat, mode : BrowserModes \cup {"none"}, page : BOOLEAN, up : BOOLEAN]
    BY <1>2 DEF LinkDies, BrowserInv, ThreadsOK
  <2>2. /\ session' \in [driver : Nat, mode : BrowserModes \cup {"none"}, page : BOOLEAN, up : BOOLEAN]
        /\ session'.driver = session.driver /\ session'.mode = session.mode
    BY <2>1
  <2> QED
    BY <2>1, <2>2
       DEF BrowserInv, BrowserTypeOK, ThreadsOK, OwnerWorks, OpeningHasNoMode, SessionHasDriver,
           ClosedHasNone, NoneOrphaned
<1>3. CASE Interrupt
  <2>1. owner = Main /\ LeaveCall(Main) /\ interrupted' /\ UNCHANGED <<session, drivers, started>>
    BY <1>3 DEF Interrupt
  <2>2. /\ threadAt' = [threadAt EXCEPT ![Main] = "idle"] /\ works' = [works EXCEPT ![Main] = 0]
        /\ owner' = Unlocked
    BY <2>1 DEF LeaveCall, Go
  <2>3. ThreadsOK' /\ BrowserTypeOK' /\ OwnerWorks'
    BY <2>1, <2>2, MainIsThread DEF BrowserInv, BrowserTypeOK, ThreadsOK, OwnerWorks, Places
  <2>4. OpeningHasNoMode' /\ SessionHasDriver' /\ ClosedHasNone' /\ NoneOrphaned'
    BY <2>1, <2>2, MainIsThread
       DEF BrowserInv, ThreadsOK, OpeningHasNoMode, SessionHasDriver, ClosedHasNone, NoneOrphaned
  <2> QED
    BY <2>3, <2>4 DEF BrowserInv
<1>4. CASE Sigterm \/ UNCHANGED browserVars
  <2>1. UNCHANGED <<threadAt, works, owner, session, drivers, started, interrupted>>
    BY <1>4 DEF Sigterm, browserVars
  <2>2. ThreadsOK' /\ BrowserTypeOK' /\ OwnerWorks'
    BY <2>1 DEF BrowserInv, BrowserTypeOK, ThreadsOK, OwnerWorks
  <2>3. OpeningHasNoMode' /\ SessionHasDriver' /\ ClosedHasNone' /\ NoneOrphaned'
    BY <2>1 DEF BrowserInv, OpeningHasNoMode, SessionHasDriver, ClosedHasNone, NoneOrphaned
  <2> QED
    BY <2>2, <2>3 DEF BrowserInv
<1> QED
  BY <1>1, <1>2, <1>3, <1>4, StartDriverStep, OpenStep, SetModeStep, PageStep, HandleStep DEF BrowserNext

LEMMA BrowserInvariance == BrowserSpec => []BrowserInv
BY BrowserStarts, BrowserStep, PTL DEF BrowserSpec

\* What no step may do to the drivers.
DriverStep ==
  /\ \A t \in Threads \ {Main} :
       threadAt[t] = threadAt'[t] /\ works[t] \in drivers => works[t] \in drivers'
  /\ \A d \in drivers' :
       \/ d = session'.driver
       \/ \E t \in Threads : works'[t] = d
       \/ interrupted'

LEMMA DriversStep == BrowserInv /\ [BrowserNext]_browserVars => DriverStep
<1> SUFFICES ASSUME BrowserInv, [BrowserNext]_browserVars PROVE DriverStep
  OBVIOUS
<1>1. \A d \in drivers' : d = session'.driver \/ (\E t \in Threads : works'[t] = d) \/ interrupted'
  BY BrowserStep DEF BrowserInv, NoneOrphaned
<1>2. ASSUME NEW t \in Threads \ {Main}, threadAt[t] = threadAt'[t], works[t] \in drivers
      PROVE  works[t] \in drivers'
  <2>1. owner = t /\ works[t] # 0 /\ threadAt[t] \notin {"idle", "exit"}
    BY <1>2 DEF BrowserInv, BrowserTypeOK, ThreadsOK, OwnerWorks
  <2>2. ~ Handle
    BY <2>1, MainIsThread DEF Handle, HandlerHasLock
  <2>3. ASSUME NEW u \in Threads,
               Call(u) \/ Reuse(u) \/ StartDriver(u) \/ SetDriver(u) \/ Open(u) \/ SetMode(u) \/ Page(u) \/ Use(u)
        PROVE  drivers \subseteq drivers' \/ (u = t /\ threadAt'[t] # threadAt[t])
    <3>1. u = t
      <4>1. owner = Unlocked \/ threadAt[u] \in Places \ {"idle", "exit"}
        BY <2>3 DEF Call, Reuse, StartDriver, SetDriver, Open, SetMode, Page, Use, Places
      <4> QED
        BY <2>1, <4>1, MainIsThread DEF BrowserInv, BrowserTypeOK
    <3>2. threadAt \in [Threads -> Places]
      BY DEF BrowserInv, ThreadsOK
    <3> QED
      BY <2>3, <3>1, <3>2 DEF Call, Reuse, StartDriver, SetDriver, Open, SetMode, Page, Use, Go, LeaveCall
  <2> QED
    BY <1>2, <2>2, <2>3 DEF BrowserNext, LinkDies, Sigterm, Interrupt, browserVars
<1> QED
  BY <1>1, <1>2 DEF DriverStep

\* No driver is stopped under a thread that works with it, but by the handler in that very
\* thread, and none that runs is lost, unless a call was interrupted (browser_bridge.py), for
\* every number of threads and drivers, whatever SIGTERM did before.
THEOREM DriversAreKept == BrowserSpec => DriversKept
<1>1. BrowserInv /\ [BrowserNext]_browserVars => [DriverStep]_browserVars
  BY DriversStep
<1> QED
  BY <1>1, BrowserInvariance, PTL DEF BrowserSpec, DriversKept, DriverStep

-----------------------------------------------------------------------------
(* The queue bridge.                                                       *)
(*                                                                         *)
(* A lost answer is still to be read off the file: as long as what is      *)
(* finished is kept, and whose bundle it is, and no operation touches      *)
(* that, the same command finds there what it has found or left before.    *)

Final(l) == l.kind \in {"recorded", "already_recorded"} /\ l.status \in Terminal

Shown(r, l, f) ==
  /\ AnswerIn(l, f) /\ BriefingIn(l, f)
  /\ l.kind \in {"stored", "idempotent"} => r.op = "persist" /\ PersistReply(r, f) = Idempotent(r)
  /\ l.kind = "refused" => r.op = "persist" /\ PersistReply(r, f) = l
  /\ l.kind = "briefing" => r.op = "brief"
  /\ Final(l) =>
       /\ r.op = "record" /\ r.step \in StepIds /\ l.step = r.step
       /\ (l.kind = "recorded") = (l.status = r.status /\ l.payload = r.payload)

LEMMA PersistReplyKept ==
  ASSUME NEW r, NEW f \in Files, NEW g \in Files, KeepsIdentity(f, g),
         PersistReply(r, f) = Idempotent(r) \/ PersistReply(r, f).kind = "refused"
  PROVE  PersistReply(r, g) = PersistReply(r, f)
<1>1. CASE r.owner = BadOwner
  BY <1>1 DEF PersistReply
<1>2. CASE r.owner # BadOwner
  <2>1. f \in Bundles
    BY <1>2 DEF PersistReply, Files, Stored, Idempotent, Raised
  <2>2. g \in Bundles /\ g.owner = f.owner /\ g.plan = f.plan
    BY <2>1 DEF KeepsIdentity
  <2> QED
    BY <2>1, <2>2, FileKinds DEF PersistReply
<1> QED
  BY <1>1, <1>2

\* What an operation answers is shown by the file it leaves.
LEMMA ReplyIsShown ==
  ASSUME NEW r \in Requests, r.op = "persist" => r.owner # NoOwner,
         NEW f \in Files, NEW o \in Outcomes(r, f, 0)
  PROVE  Shown(r, o.reply, o.file)
<1>1. AnswerIn(o.reply, o.file) /\ BriefingIn(o.reply, o.file)
  BY OutcomesAnswer
<1>2. CASE r.op = "persist" \/ f \notin Bundles
  <2>1. CASE o = Outcome(Raised, f)
    BY <1>1, <2>1 DEF Shown, Outcome, Raised, Final
  <2>2. CASE r \in PersistRequests /\ PersistReply(r, f) # Stored(r) /\ o = Outcome(PersistReply(r, f), f)
    <3>1. o.reply = PersistReply(r, f) /\ o.file = f /\ r.op = "persist"
      BY <2>2 DEF Outcome, PersistRequests
    <3>2. o.reply \in {Raised, Idempotent(r)} \/ o.reply.kind = "refused"
      BY <2>2, <3>1 DEF PersistReply, Refused
    <3> QED
      BY <1>1, <3>1, <3>2 DEF Shown, Final, Raised, Idempotent
  <2>3. CASE /\ r \in PersistRequests /\ PersistReply(r, f) = Stored(r)
             /\ o = Outcome(Stored(r), FreshBundle(r.owner, r.plan))
    <3> DEFINE b == FreshBundle(r.owner, r.plan)
    <3>1. r.op = "persist" /\ r.owner \in BundleOwners /\ r.plan \in Plans
      BY <2>3 DEF PersistRequests
    <3>2. b \in Bundles /\ b.owner = r.owner /\ b.plan = r.plan
      BY <3>1, FreshType DEF FreshBundle
    <3>3. r.owner # BadOwner
      BY <2>3 DEF PersistReply, Stored, Refused
    <3>4. PersistReply(r, b) = Idempotent(r)
      BY <3>1, <3>2, <3>3, FileKinds DEF PersistReply
    <3>5. o.reply = Stored(r) /\ o.file = b
      BY <2>3 DEF Outcome
    <3> QED
      BY <1>1, <3>1, <3>4, <3>5 DEF Shown, Stored, Final
  <2> QED
    BY <1>2, <2>1, <2>2, <2>3, OtherOutcomes
<1>3. CASE r.op # "persist" /\ f \in Bundles
  <2>1. CASE o \in {Outcome(Raised, f), Outcome(NotReady(f), f), Outcome(Drained(f), f)}
    BY <1>1, <2>1 DEF Shown, Outcome, Raised, NotReady, Drained, Final
  <2>2. CASE o = Outcome(Briefing(f), f) /\ Missing(f) = {}
    <3>1. o.reply.kind = "briefing"
      BY <2>2 DEF Outcome, Briefing
    <3>2. r.op = "brief"
      <4>1. CASE r \in NextRequests
        <5>1. o \in NextOutcomes(r, f, 0)
          BY <1>3, <4>1, FileKinds DEF Outcomes, NextRequests
        <5> QED
          BY <3>1, <5>1 DEF NextOutcomes, Outcome, Drained, Handed
      <4>2. CASE r \in RecordRequests
        <5>1. o \in RecordOutcomes(r, f)
          BY <1>3, <4>2, FileKinds DEF Outcomes, RecordRequests
        <5> QED
          BY <3>1, <5>1 DEF RecordOutcomes, Outcome, Raised, Recorded, AlreadyRecorded
      <4> QED
        BY <1>3, <4>1, <4>2 DEF Requests, PersistRequests, BriefRequests
    <3> QED
      BY <1>1, <3>1, <3>2 DEF Shown, Final
  <2>3. ASSUME NEW i, o = Outcome(Handed(Claim(f, i, 0), i), Claim(f, i, 0))
        PROVE  Shown(r, o.reply, o.file)
    BY <1>1, <2>3 DEF Shown, Outcome, Handed, Final
  <2>4. ASSUME r \in RecordRequests, r.step \in StepIds,
               o.reply = Recorded(r.step, r.status, r.payload)
        PROVE  Shown(r, o.reply, o.file)
    BY <1>1, <2>4 DEF Shown, Recorded, Final, RecordRequests
  <2>5. ASSUME r \in RecordRequests, r.step \in StepIds, f.steps[r.step].status \in Terminal,
               ~ (f.steps[r.step].status = r.status /\ f.steps[r.step].payload = r.payload),
               o = Outcome(AlreadyRecorded(r.step, f.steps[r.step]), f)
        PROVE  Shown(r, o.reply, o.file)
    BY <1>1, <2>5 DEF Shown, Outcome, AlreadyRecorded, Final, RecordRequests
  <2>6. ASSUME r \in RecordRequests, r.step \in StepIds
        PROVE  Shown(r, o.reply, o.file)
    <3>1. o \in RecordOutcomes(r, f)
      BY <1>3, <2>6, FileKinds DEF Outcomes, RecordRequests
    <3>2. \/ o.reply = Recorded(r.step, r.status, r.payload)
          \/ /\ f.steps[r.step].status \in Terminal
             /\ ~ (f.steps[r.step].status = r.status /\ f.steps[r.step].payload = r.payload)
             /\ o = Outcome(AlreadyRecorded(r.step, f.steps[r.step]), f)
      BY <2>6, <3>1 DEF RecordOutcomes, Outcome
    <3> QED
      BY <2>4, <2>5, <2>6, <3>2
  <2> QED
    BY <1>3, <2>1, <2>2, <2>3, <2>6, BundleOutcomes
<1> QED
  BY <1>2, <1>3

\* And stays shown, whatever others do.
LEMMA ShownKept ==
  ASSUME NEW r, NEW l \in Replies \cup {NoAnswer}, NEW f \in Files, NEW g \in Files,
         KeepsFinal(f, g), KeepsIdentity(f, g), Shown(r, l, f)
  PROVE  Shown(r, l, g)
<1>1. AnswerIn(l, g) /\ BriefingIn(l, g)
  <2>1. CASE l \in Replies
    BY <2>1, AnswerKept DEF Shown
  <2>2. CASE l = NoAnswer
    BY <2>2 DEF NoAnswer, AnswerIn, ResultIn, BundleIn, BriefingIn
  <2> QED
    BY <2>1, <2>2
<1>2. ASSUME l.kind \in {"stored", "idempotent"} PROVE r.op = "persist" /\ PersistReply(r, g) = Idempotent(r)
  BY <1>2, PersistReplyKept DEF Shown
<1>3. ASSUME l.kind = "refused" PROVE r.op = "persist" /\ PersistReply(r, g) = l
  BY <1>3, PersistReplyKept DEF Shown
<1> QED
  BY <1>1, <1>2, <1>3 DEF Shown

\* A command whose answer is shown gives that answer again.
LEMMA ShownAgain ==
  ASSUME NEW r \in Requests, NEW l \in Replies \cup {NoAnswer}, NEW f \in Files, Shown(r, l, f),
         NEW o \in Outcomes(r, f, 0)
  PROVE  Agrees(l, o.reply)
<1>1. ASSUME l.kind \in {"stored", "idempotent"} PROVE o.reply.kind = "idempotent"
  <2>1. o \in PersistOutcomes(r, f) /\ PersistReply(r, f) = Idempotent(r)
    BY <1>1 DEF Shown, Outcomes
  <2> QED
    BY <2>1 DEF PersistOutcomes, Outcome, Idempotent
<1>2. ASSUME l.kind = "refused" PROVE o.reply = l
  <2>1. o \in PersistOutcomes(r, f) /\ PersistReply(r, f) = l
    BY <1>2 DEF Shown, Outcomes
  <2> QED
    BY <2>1 DEF PersistOutcomes, Outcome
<1>3. ASSUME l.kind = "briefing" PROVE o.reply = l
  <2>1. /\ r.op = "brief" /\ f \in Bundles
        /\ \A i \in StepIds : f.steps[i].status = "succeeded" /\ f.steps[i].payload = l.results[i]
    BY <1>3 DEF Shown, BriefingIn
  <2>2. l \in [kind : {"briefing"}, results : [StepIds -> Payloads]]
    BY <1>3 DEF Replies, NoAnswer, Raised
  <2>3. o \in BriefOutcomes(f)
    BY <2>1, FileKinds DEF Outcomes
  <2>4. Missing(f) = {}
    BY <2>1 DEF Missing
  <2>5. Results(f) = l.results
    BY <2>1, <2>2 DEF Results
  <2>6. Briefing(f) = l
    BY <2>2, <2>5 DEF Briefing
  <2> QED
    BY <2>3, <2>4, <2>6 DEF BriefOutcomes, Outcome
<1>4. ASSUME Final(l) PROVE o.reply = l
  <2>1. /\ r.op = "record" /\ r.step \in StepIds /\ l.step = r.step
        /\ (l.kind = "recorded") = (l.status = r.status /\ l.payload = r.payload)
        /\ f \in Bundles /\ f.steps[r.step].status = l.status /\ f.steps[r.step].payload = l.payload
        /\ l.status \in Terminal /\ l.kind \in {"recorded", "already_recorded"}
    BY <1>4 DEF Shown, AnswerIn, ResultIn, Final
  <2>2. l \in [kind : {"recorded", "already_recorded"}, step : StepIds, status : Status, payload : Payloads]
    BY <2>1 DEF Replies, NoAnswer, Raised
  <2>3. o \in RecordOutcomes(r, f)
    BY <2>1, FileKinds DEF Outcomes
  <2>4. CASE l.kind = "recorded"
    <3>1. o.reply = Recorded(r.step, r.status, r.payload)
      BY <2>1, <2>3, <2>4 DEF RecordOutcomes, Outcome
    <3> QED
      BY <2>1, <2>2, <2>4, <3>1 DEF Recorded
  <2>5. CASE l.kind # "recorded"
    <3>1. o.reply = AlreadyRecorded(r.step, f.steps[r.step])
      BY <2>1, <2>3, <2>5 DEF RecordOutcomes, Outcome
    <3> QED
      BY <2>1, <2>2, <2>5, <3>1 DEF AlreadyRecorded
  <2> QED
    BY <2>4, <2>5
<1> QED
  BY <1>1, <1>2, <1>3, <1>4 DEF Agrees, Final

-----------------------------------------------------------------------------
\* Where a caller is, and what the file shows of the answer that it may have lost.
CallOK(c) ==
  LET b == bridgeCalls[c]
      a == answers[c]
  IN  /\ b = NoCommand \/ b \in [at : {"child", "here"}, command : Commands, backend : Backends]
      /\ a.lost \in Replies \cup {NoAnswer}
      /\ b = NoCommand => child[c] = NoChild /\ Agrees(a.lost, a.got)
      /\ b.at = "child" =>
           /\ child[c] \in [done : BOOLEAN, command : {b.command}]
           /\ ~ child[c].done => a.lost = NoAnswer
      /\ b.at = "here" => child[c] = NoChild
      /\ b.at \in {"child", "here"} => Shown(b.command, a.lost, bridgeFile)

BridgeInv ==
  /\ bridgeFile \in Files
  /\ bridgeCalls = [c \in Callers |-> bridgeCalls[c]]
  /\ child = [c \in Callers |-> child[c]]
  /\ answers = [c \in Callers |-> [lost |-> answers[c].lost, got |-> answers[c].got]]
  /\ \A c \in Callers : CallOK(c)

LEMMA BridgeStarts == BridgeInit => BridgeInv
<1> SUFFICES ASSUME BridgeInit PROVE BridgeInv
  OBVIOUS
<1>1. ASSUME NEW c \in Callers PROVE CallOK(c)
  BY <1>1 DEF BridgeInit, CallOK, NoCommand, NoChild, NoAnswer, Nothing, Agrees
<1> QED
  BY <1>1, FirstFilesType DEF BridgeInit, BridgeInv, NoCommand, NoChild, NoAnswer, Nothing

\* What somebody does to the file is nothing to another caller.
LEMMA OtherCall ==
  ASSUME NEW c \in Callers, CallOK(c), bridgeFile \in Files, bridgeFile' \in Files,
         KeepsFinal(bridgeFile, bridgeFile'), KeepsIdentity(bridgeFile, bridgeFile'),
         bridgeCalls'[c] = bridgeCalls[c], child'[c] = child[c], answers'[c] = answers[c]
  PROVE  CallOK(c)'
BY ShownKept DEF CallOK

\* The store leaves a file that keeps what callers count on.
LEMMA WorkKeeps ==
  ASSUME bridgeFile \in Files, NEW r \in Commands, NEW o \in Work(r), bridgeFile' = o.file
  PROVE  /\ bridgeFile' \in Files /\ KeepsFinal(bridgeFile, bridgeFile')
         /\ KeepsIdentity(bridgeFile, bridgeFile')
         /\ o.reply \in Replies
         /\ Shown(r, o.reply, bridgeFile')
<1>1. r \in Requests /\ (r.op = "persist" => r.owner # NoOwner) /\ o \in Outcomes(r, bridgeFile, 0)
  BY CommandsType DEF Work
<1>2. o.reply \in Replies /\ (o.file # bridgeFile => o.file \in Bundles)
  BY <1>1, OutcomesType
<1> QED
  BY <1>1, <1>2, OutcomesKeepFinal, OutcomesKeepIdentity, ReplyIsShown, FileKinds

\* Nothing happens to the file.
LEMMA FileStays ==
  ASSUME bridgeFile' = bridgeFile
  PROVE  KeepsFinal(bridgeFile, bridgeFile') /\ KeepsIdentity(bridgeFile, bridgeFile')
BY DEF KeepsFinal, KeepsIdentity

LEMMA CallStep ==
  ASSUME BridgeInv, NEW c \in Callers,
         Invoke(c) \/ ChildWorks(c) \/ ChildAnswers(c) \/ Timeout(c) \/ RunHere(c)
  PROVE  BridgeInv'
<1> DEFINE others == \A d \in Callers \ {c} : /\ bridgeCalls'[d] = bridgeCalls[d]
                                              /\ child'[d] = child[d] /\ answers'[d] = answers[d]
           shaped == /\ bridgeCalls' = [d \in Callers |-> bridgeCalls'[d]]
                     /\ child' = [d \in Callers |-> child'[d]]
                     /\ answers' = [d \in Callers |-> [lost |-> answers'[d].lost, got |-> answers'[d].got]]
<1>1. /\ bridgeFile \in Files /\ (\A d \in Callers : CallOK(d))
      /\ bridgeCalls = [d \in Callers |-> bridgeCalls[d]]
      /\ child = [d \in Callers |-> child[d]]
      /\ answers = [d \in Callers |-> [lost |-> answers[d].lost, got |-> answers[d].got]]
  BY DEF BridgeInv
<1>2. ASSUME bridgeFile' \in Files, KeepsFinal(bridgeFile, bridgeFile'),
             KeepsIdentity(bridgeFile, bridgeFile'), others, shaped, CallOK(c)'
      PROVE  BridgeInv'
  <2>1. ASSUME NEW d \in Callers PROVE CallOK(d)'
    BY <1>1, <1>2, OtherCall
  <2> QED
    BY <1>2, <2>1 DEF BridgeInv
<1>3. CASE Invoke(c)
  <2>1. bridgeFile' = bridgeFile /\ answers' = [answers EXCEPT ![c] = Nothing] /\ bridgeCalls[c] = NoCommand
    BY <1>3 DEF Invoke
  <2>2. PICK r \in Commands, b \in Backends :
          \/ /\ bridgeCalls' = [bridgeCalls EXCEPT ![c] = [at |-> "child", command |-> r, backend |-> b]]
             /\ child' = [child EXCEPT ![c] = [done |-> FALSE, command |-> r]]
          \/ /\ bridgeCalls' = [bridgeCalls EXCEPT ![c] = [at |-> "here", command |-> r, backend |-> b]]
             /\ UNCHANGED child
    BY <1>3 DEF Invoke
  <2>3. others /\ shaped
    BY <1>1, <2>1, <2>2 DEF Nothing
  <2>4. answers'[c].lost = NoAnswer /\ Shown(r, NoAnswer, bridgeFile') /\ child[c] = NoChild
    BY <1>1, <2>1 DEF CallOK, Nothing, NoAnswer, Shown, AnswerIn, ResultIn, BundleIn, BriefingIn, Final
  <2> DEFINE call(at) == [at |-> at, command |-> r, backend |-> b]
  <2>5. \A at \in {"child", "here"} :
          /\ call(at) \in [at : {"child", "here"}, command : Commands, backend : Backends]
          /\ call(at) # NoCommand /\ call(at).at = at /\ call(at).command = r
    BY DEF NoCommand
  <2>6. \/ /\ bridgeCalls'[c] = call("child")
           /\ child'[c] = [done |-> FALSE, command |-> r]
        \/ bridgeCalls'[c] = call("here") /\ child'[c] = NoChild
    BY <1>1, <2>2, <2>4
  <2> HIDE DEF call
  <2>7. CallOK(c)'
    <3>1. CASE bridgeCalls'[c] = call("child") /\ child'[c] = [done |-> FALSE, command |-> r]
      <4>1. child'[c] \in [done : BOOLEAN, command : {r}]
        BY <3>1
      <4> QED
        BY <2>4, <2>5, <3>1, <4>1 DEF CallOK
    <3>2. CASE bridgeCalls'[c] = call("here") /\ child'[c] = NoChild
      BY <2>4, <2>5, <3>2 DEF CallOK
    <3> QED
      BY <2>6, <3>1, <3>2
  <2> QED
    BY <1>1, <1>2, <2>1, <2>3, <2>7, FileStays
<1>4. CASE ChildWorks(c)
  <2>1. /\ child[c] # NoChild /\ ~ child[c].done /\ bridgeCalls' = bridgeCalls
        /\ child' = [child EXCEPT ![c].done = TRUE]
    BY <1>4 DEF ChildWorks
  <2>2. PICK o \in Work(child[c].command) :
          bridgeFile' = o.file /\ answers' = [answers EXCEPT ![c].lost = o.reply]
    BY <1>4 DEF ChildWorks
  <2>3. /\ bridgeCalls[c] \in [at : {"child"}, command : Commands, backend : Backends]
        /\ child[c] \in [done : BOOLEAN, command : {bridgeCalls[c].command}]
    BY <1>1, <2>1 DEF CallOK
  <2>4. /\ bridgeFile' \in Files /\ KeepsFinal(bridgeFile, bridgeFile')
        /\ KeepsIdentity(bridgeFile, bridgeFile')
        /\ o.reply \in Replies /\ Shown(bridgeCalls[c].command, o.reply, bridgeFile')
    BY <1>1, <2>2, <2>3, WorkKeeps
  <2>5. others /\ shaped /\ answers'[c].lost = o.reply
    <3>1. /\ answers' = [d \in Callers |-> [lost |-> answers'[d].lost, got |-> answers'[d].got]]
          /\ answers'[c].lost = o.reply /\ \A d \in Callers \ {c} : answers'[d] = answers[d]
      BY <1>1, <2>2
    <3>2. child' = [d \in Callers |-> child'[d]] /\ \A d \in Callers \ {c} : child'[d] = child[d]
      BY <1>1, <2>1
    <3> QED
      BY <1>1, <2>1, <3>1, <3>2
  <2>6. child'[c] = [done |-> TRUE, command |-> bridgeCalls[c].command]
    <3>1. child'[c] = [child[c] EXCEPT !.done = TRUE]
      BY <1>1, <2>1
    <3> QED
      BY <2>3, <3>1
  <2>7. bridgeCalls'[c] = bridgeCalls[c] /\ bridgeCalls[c] # NoCommand /\ bridgeCalls[c].at = "child"
    BY <2>1, <2>3 DEF NoCommand
  <2>8. CallOK(c)'
    BY <2>3, <2>4, <2>5, <2>6, <2>7 DEF CallOK
  <2> QED
    BY <1>2, <2>4, <2>5, <2>8
<1>5. CASE ChildAnswers(c)
  <2>1. /\ bridgeFile' = bridgeFile
        /\ answers' = [answers EXCEPT ![c] = [lost |-> NoAnswer, got |-> answers[c].lost]]
        /\ child' = [child EXCEPT ![c] = NoChild]
        /\ bridgeCalls' = [bridgeCalls EXCEPT ![c] = NoCommand]
    BY <1>5 DEF ChildAnswers
  <2>2. others /\ shaped
    BY <1>1, <2>1
  <2>3. /\ bridgeCalls'[c] = NoCommand /\ child'[c] = NoChild
        /\ answers'[c] = [lost |-> NoAnswer, got |-> answers[c].lost]
    BY <1>1, <2>1
  <2>4. CallOK(c)'
    BY <2>3 DEF CallOK, NoCommand, NoAnswer, Agrees
  <2> QED
    BY <1>1, <1>2, <2>1, <2>2, <2>4, FileStays
<1>6. CASE Timeout(c)
  <2>1. bridgeCalls[c].at = "child" /\ bridgeFile' = bridgeFile /\ child' = [child EXCEPT ![c] = NoChild]
    BY <1>6 DEF Timeout
  <2>2. bridgeCalls[c] \in [at : {"child"}, command : Commands, backend : Backends]
    BY <1>1, <2>1 DEF CallOK, NoCommand
  <2>3. CASE /\ bridgeCalls' = [bridgeCalls EXCEPT ![c] = NoCommand]
             /\ answers' = [answers EXCEPT ![c] = [lost |-> NoAnswer, got |-> [kind |-> "timeout"]]]
    <3>1. others /\ shaped
      BY <1>1, <2>1, <2>3
    <3>2. /\ bridgeCalls'[c] = NoCommand /\ child'[c] = NoChild
          /\ answers'[c] = [lost |-> NoAnswer, got |-> [kind |-> "timeout"]]
      BY <1>1, <2>1, <2>3
    <3>3. CallOK(c)'
      BY <3>2 DEF CallOK, NoCommand, NoAnswer, Agrees
    <3> QED
      BY <1>1, <1>2, <2>1, <3>1, <3>3, FileStays
  <2>4. CASE bridgeCalls' = [bridgeCalls EXCEPT ![c].at = "here"] /\ answers' = answers
    <3>1. others /\ shaped
      BY <1>1, <2>1, <2>4
    <3>2. /\ bridgeCalls'[c] = [bridgeCalls[c] EXCEPT !.at = "here"] /\ child'[c] = NoChild
          /\ answers'[c] = answers[c]
      BY <1>1, <2>1, <2>4
    <3>3. /\ bridgeCalls'[c] \in [at : {"here"}, command : Commands, backend : Backends]
          /\ bridgeCalls'[c].command = bridgeCalls[c].command
      BY <2>2, <3>2
    <3>4. /\ answers[c].lost \in Replies \cup {NoAnswer}
          /\ Shown(bridgeCalls[c].command, answers[c].lost, bridgeFile)
      BY <1>1, <2>1 DEF CallOK
    <3>5. CallOK(c)'
      BY <2>1, <3>2, <3>3, <3>4 DEF CallOK, NoCommand
    <3> QED
      BY <1>1, <1>2, <2>1, <3>1, <3>5, FileStays
  <2> QED
    BY <1>6, <2>3, <2>4 DEF Timeout
<1>7. CASE RunHere(c)
  <2>1. /\ bridgeCalls[c].at = "here" /\ child' = child
        /\ bridgeCalls' = [bridgeCalls EXCEPT ![c] = NoCommand]
    BY <1>7 DEF RunHere
  <2>2. PICK o \in Work(bridgeCalls[c].command) :
          bridgeFile' = o.file /\ answers' = [answers EXCEPT ![c].got = o.reply]
    BY <1>7 DEF RunHere
  <2>3. /\ bridgeCalls[c].command \in Commands /\ child[c] = NoChild
        /\ answers[c].lost \in Replies \cup {NoAnswer}
        /\ Shown(bridgeCalls[c].command, answers[c].lost, bridgeFile)
    BY <1>1, <2>1 DEF CallOK, NoCommand
  <2>4. /\ bridgeFile' \in Files /\ KeepsFinal(bridgeFile, bridgeFile')
        /\ KeepsIdentity(bridgeFile, bridgeFile')
    BY <1>1, <2>2, <2>3, WorkKeeps
  <2>5. Agrees(answers[c].lost, o.reply)
    BY <1>1, <2>2, <2>3, ShownAgain, CommandsType DEF Work
  <2>6. others /\ shaped
    <3>1. /\ answers' = [d \in Callers |-> [lost |-> answers'[d].lost, got |-> answers'[d].got]]
          /\ \A d \in Callers \ {c} : answers'[d] = answers[d]
      BY <1>1, <2>2
    <3>2. /\ bridgeCalls' = [d \in Callers |-> bridgeCalls'[d]]
          /\ \A d \in Callers \ {c} : bridgeCalls'[d] = bridgeCalls[d]
      BY <1>1, <2>1
    <3> QED
      BY <1>1, <2>1, <3>1, <3>2
  <2>7. /\ bridgeCalls'[c] = NoCommand /\ child'[c] = NoChild
        /\ answers'[c].lost = answers[c].lost /\ answers'[c].got = o.reply
    BY <1>1, <2>1, <2>2, <2>3
  <2>8. CallOK(c)'
    BY <2>3, <2>5, <2>7 DEF CallOK, NoCommand
  <2> QED
    BY <1>2, <2>4, <2>6, <2>8
<1> QED
  BY <1>3, <1>4, <1>5, <1>6, <1>7

LEMMA BridgeStep == BridgeInv /\ [BridgeNext]_bridgeVars => BridgeInv'
<1>1. BridgeInv /\ UNCHANGED bridgeVars => BridgeInv'
  <2> SUFFICES ASSUME BridgeInv, UNCHANGED bridgeVars PROVE BridgeInv'
    OBVIOUS
  <2>1. ASSUME NEW c \in Callers PROVE CallOK(c)'
    BY <2>1, OtherCall, FileStays DEF BridgeInv, bridgeVars
  <2> QED
    BY <2>1 DEF BridgeInv, bridgeVars
<1>2. BridgeInv /\ BridgeNext => BridgeInv'
  BY CallStep DEF BridgeNext
<1> QED
  BY <1>1, <1>2

LEMMA BridgeInvariance == BridgeSpec => []BridgeInv
BY BridgeStarts, BridgeStep, PTL DEF BridgeSpec

\* A command that runs again because the answer of its child process was lost (queue_bridge.py)
\* gives the answer that was lost, for every number of callers, whatever the others have done
\* to the bundle since: unless it handed out a step, or found the bundle unfinished.
THEOREM RerunsAgree == BridgeSpec => []RerunAgrees
<1>1. BridgeInv => RerunAgrees
  BY DEF BridgeInv, CallOK, RerunAgrees
<1> QED
  BY <1>1, BridgeInvariance, PTL

-----------------------------------------------------------------------------
(* All parts together, as they are checked: what one does leaves the       *)
(* invariants of the others alone.                                         *)

PartsInv ==
  PlanInv /\ CtxInv /\ BridgeInv /\ EnforceInv /\ LedgerInv /\ QueueInv /\ SuperInv /\ BrowserInv

LEMMA PartsStart == PartsInit => PartsInv
BY PlanInvInit, CtxInvInit, BridgeStarts, EnforceStarts, LedgerInvInit, QueueStarts, SuperStarts, BrowserStarts
   DEF PartsInit, PartsInv

LEMMA PartsStep == PartsInv /\ [PartsNext]_partsVars => PartsInv'
<1>1. [PartsNext]_partsVars =>
        /\ [PlanNext]_planVars /\ [CtxNext]_ctxVars /\ [BridgeNext]_bridgeVars /\ [EnforceNext]_enforceVars
        /\ [LedgerNext]_ledgerVars /\ [QueueNext]_queueVars /\ [SuperNext]_superVars /\ [BrowserNext]_browserVars
  BY DEF PartsNext, partsVars, PlannerOnly, CompressOnly, BridgeOnly, EnforceOnly, LedgerOnly, QueueOnly,
         SupervisorOnly, BrowserOnly
<1>2. LedgerInv /\ [LedgerNext]_ledgerVars => LedgerInv'
  BY NextFine DEF Fine
<1> QED
  BY <1>1, <1>2, PlanInvStep, CtxInvStep, BridgeStep, EnforceStep, QueueStep, SuperStep, BrowserStep DEF PartsInv

\* Every part keeps its types, whatever the others do in between: no stage, segment, call, pid,
\* line, queue entry, server or driver is ever one that the code has no name for.
THEOREM PartsAreTyped == PartsSpec => []PartsTypeOK
<1>1. BridgeInv => BridgeTypeOK
  BY DEF BridgeInv, BridgeTypeOK, CallOK, NoCommand
<1>2. PartsInv => PartsTypeOK
  BY <1>1, PlanInvTyped, CtxInvTyped
     DEF PartsInv, PartsTypeOK, EnforceInv, LedgerInv, QueueInv, SuperInv, BrowserInv
<1> QED
  BY <1>2, PartsStart, PartsStep, PTL DEF PartsSpec
=============================================================================
