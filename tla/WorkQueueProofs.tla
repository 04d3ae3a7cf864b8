-------------------------- MODULE WorkQueueProofs ---------------------------
(***************************************************************************)
(* Proofs about WorkQueue, for any number of clients, items, calls and     *)
(* tables that earlier builds may have left, and for both engines.         *)
(*                                                                         *)
(* The invariant says what the write lock is for.  The client between      *)
(* BEGIN IMMEDIATE and COMMIT is the one that holds the lock, so the table *)
(* it is about to commit was computed from the table that is there.  And   *)
(* it says why a late resequencing does no harm: while a process that met  *)
(* duplicates has yet to run its UPDATE, a table without duplicates, one   *)
(* with the index for example, must come from another's UPDATE, so its     *)
(* sequences are those in 1 .. n, where the UPDATE changes nothing.  The   *)
(* rest are facts about the statements: the next sequence is larger than   *)
(* all, an upsert keeps what it must, and the resequencing UPDATE, which   *)
(* runs row by row, changes nothing but sequences.                         *)
(***************************************************************************)
EXTENDS WorkQueue, FiniteSetTheorems, SequenceTheorems, WellFoundedInduction, TLAPS

-----------------------------------------------------------------------------
(* Facts about numbers, finite sets and recursion. *)

\* A non-empty set of naturals has a least element.
LEMMA LeastElement ==
  ASSUME NEW T, T \subseteq Nat, T # {}
  PROVE  \E m \in T : \A n \in T : m <= n
<1>1. \E m \in T : \A n \in T : ~ (<<n, m>> \in OpToRel(<, Nat))
  BY WFMin, NatLessThanWellFounded, Zenon
<1>2. PICK m \in T : \A n \in T : ~ (<<n, m>> \in OpToRel(<, Nat))
  BY <1>1, Zenon
<1>3. ASSUME NEW n \in T PROVE ~ (n < m)
  BY <1>2, <1>3, Zenon DEF OpToRel
<1> QED
  BY <1>3

\* The values of a sequence of naturals, and zero, have a largest.
LEMMA LargestValue ==
  ASSUME NEW n \in Nat, NEW f \in [1 .. n -> Nat], NEW D \in SUBSET (1 .. n)
  PROVE  \E m \in {0} \cup {f[k] : k \in D} : \A v \in {0} \cup {f[k] : k \in D} : v <= m
<1> DEFINE Values(j) == {0} \cup {f[k] : k \in {k \in D : k <= j}}
           HasMax(j) == \E m \in Values(j) : \A v \in Values(j) : v <= m
           Without == {j \in 0 .. n : ~ HasMax(j)}
<1>1. HasMax(0)
  OBVIOUS
<1>2. ASSUME NEW j \in 1 .. n, HasMax(j - 1)
      PROVE  HasMax(j)
  <2>1. PICK m \in Values(j - 1) : \A v \in Values(j - 1) : v <= m
    BY <1>2
  <2>2. m \in Nat
    BY <2>1
  <2>3. CASE j \in D
    <3>1. Values(j) = Values(j - 1) \cup {f[j]}
      BY <2>3
    <3>2. CASE f[j] <= m
      BY <2>1, <3>1, <3>2
    <3>3. CASE ~ (f[j] <= m)
      <4>1. \A v \in Values(j) : v <= f[j]
        BY <2>1, <2>2, <3>1, <3>3
      <4> QED
        BY <3>1, <4>1
    <3> QED
      BY <3>2, <3>3
  <2>4. CASE j \notin D
    <3>1. Values(j) = Values(j - 1)
      BY <2>4
    <3> QED
      BY <2>1, <3>1
  <2> QED
    BY <2>3, <2>4
<1>3. Without = {}
  <2> HIDE DEF HasMax
  <2> SUFFICES ASSUME Without # {} PROVE FALSE
    OBVIOUS
  <2>1. Without \subseteq Nat
    OBVIOUS
  <2> HIDE DEF Without
  <2>2. PICK j \in Without : \A i \in Without : j <= i
    BY <2>1, LeastElement
  <2> USE DEF Without
  <2>3. j \in 1 .. n /\ j - 1 \in 0 .. n /\ j - 1 \notin Without
    BY <1>1, <2>2
  <2> QED
    BY <1>2, <2>2, <2>3
<1>4. HasMax(n)
  <2> HIDE DEF HasMax
  <2> QED BY <1>3
<1>5. \A k \in D : k <= n
  OBVIOUS
<1> QED
  BY <1>4, <1>5

-----------------------------------------------------------------------------
(* Facts about the statements. *)

\* Nothing but the sequence of a row differs between the tables.
SameRows(t, u) ==
  /\ u \in Seq(Rows) /\ Len(u) = Len(t)
  /\ \A k \in 1 .. Len(t) :
       u[k].id = t[k].id /\ u[k].owner = t[k].owner /\ u[k].priority = t[k].priority
       /\ u[k].status = t[k].status

\* No sequence is larger than the number of rows, as a resequencing leaves it.
Dense(t) == \A k \in 1 .. Len(t) : t[k].seq \in 1 .. Len(t)

LEMMA UpTo ==
  ASSUME NEW n \in Nat
  PROVE  IsFiniteSet(1 .. n) /\ Cardinality(1 .. n) = n
<1>1. IsFiniteSet(1 .. n) /\ Cardinality(1 .. n) = IF 1 > n THEN 0 ELSE n - 1 + 1
  BY FS_Interval
<1> QED
  BY <1>1

\* The subquery counts the row itself, and no more rows than there are.
LEMMA RankType ==
  ASSUME NEW t \in Seq(Rows), NEW k \in 1 .. Len(t)
  PROVE  Rank(t, k) \in 1 .. Len(t)
<1> DEFINE Counted == {j \in DOMAIN t : t[j].seq < t[k].seq \/ (t[j].seq = t[k].seq /\ j <= k)}
<1> HIDE DEF Counted
<1>1. IsFiniteSet(1 .. Len(t)) /\ Cardinality(1 .. Len(t)) = Len(t)
  BY UpTo
<1> USE DEF Counted
<1>2. Counted \subseteq 1 .. Len(t) /\ k \in Counted
  OBVIOUS
<1>3. IsFiniteSet(Counted) /\ Cardinality(Counted) <= Cardinality(1 .. Len(t))
  BY <1>1, <1>2, FS_Subset
<1>4. Cardinality(Counted) \in Nat /\ Cardinality(Counted) # 0
  BY <1>2, <1>3, FS_CardinalityType, FS_EmptySet
<1> QED
  BY <1>1, <1>3, <1>4 DEF Rank

\* In a table of n rows whose sequences are all different and at most n, each number up to n
\* is the sequence of a row, and a row's rank is its sequence.
LEMMA RankIsSequence ==
  ASSUME NEW t \in Seq(Rows), Unique(t), Dense(t), NEW k \in 1 .. Len(t)
  PROVE  Rank(t, k) = t[k].seq
<1> DEFINE n == Len(t)
           f == [j \in 1 .. n |-> t[j].seq]
           s == t[k].seq
           Counted == {j \in DOMAIN t : t[j].seq < t[k].seq \/ (t[j].seq = t[k].seq /\ j <= k)}
           g == [j \in Counted |-> t[j].seq]
<1>1. n \in Nat /\ DOMAIN t = 1 .. n /\ s \in 1 .. n
  BY DEF Dense
<1>2. \A j \in 1 .. n : t[j].seq \in 1 .. n
  BY DEF Dense
<1>3. \A i, j \in 1 .. n : t[i].seq = t[j].seq => i = j
  BY <1>1 DEF Unique
<1>4. f \in Injection(1 .. n, 1 .. n)
  BY <1>2, <1>3 DEF Injection, IsInjective
<1>5. IsFiniteSet(1 .. n) /\ Cardinality(1 .. n) = n
  BY <1>1, UpTo
<1>6. f \in Surjection(1 .. n, 1 .. n)
  <2> HIDE DEF f, n
  <2> QED BY <1>4, <1>5, FS_Injection
<1>7. \A v \in 1 .. n : \E j \in 1 .. n : t[j].seq = v
  BY <1>6 DEF Surjection
<1>8. \A j \in 1 .. n : j \in Counted <=> t[j].seq <= s
  BY <1>1, <1>2, <1>3
<1>9. g \in Bijection(Counted, 1 .. s)
  <2>1. \A j \in Counted : j \in 1 .. n /\ t[j].seq \in 1 .. s
    BY <1>1, <1>2, <1>8
  <2>2. \A v \in 1 .. s : \E j \in Counted : t[j].seq = v
    <3> SUFFICES ASSUME NEW v \in 1 .. s PROVE \E j \in Counted : t[j].seq = v
      OBVIOUS
    <3> HIDE DEF Counted
    <3>1. v \in 1 .. n /\ v <= s
      BY <1>1
    <3>2. PICK j \in 1 .. n : t[j].seq = v
      BY <1>7, <3>1
    <3> QED
      BY <1>8, <3>1, <3>2
  <2> HIDE DEF Counted, s, n
  <2>3. g \in [Counted -> 1 .. s]
    BY <2>1
  <2>4. \A i, j \in Counted : g[i] = g[j] => i = j
    BY <1>3, <2>1
  <2>5. \A v \in 1 .. s : \E j \in Counted : g[j] = v
    BY <2>2
  <2> HIDE DEF g
  <2> QED BY <2>3, <2>4, <2>5 DEF Bijection, Injection, IsInjective, Surjection
<1>10. IsFiniteSet(Counted)
  <2>1. Counted \subseteq 1 .. n
    BY <1>1
  <2> HIDE DEF Counted, n
  <2> QED BY <1>5, <2>1, FS_Subset
<1>11. Cardinality(1 .. s) = Cardinality(Counted)
  <2> HIDE DEF Counted, s, g
  <2> QED BY <1>9, <1>10, FS_Bijection DEF ExistsBijection
<1>12. Cardinality(1 .. s) = s
  <2>1. s \in Nat
    BY <1>1
  <2> HIDE DEF s
  <2> QED BY <2>1, UpTo
<1>13. Rank(t, k) = Cardinality(Counted)
  BY DEF Rank
<1> QED
  BY <1>11, <1>12, <1>13

\* One row of the UPDATE.
LEMMA RankedKeepsRows ==
  ASSUME NEW t \in Seq(Rows), NEW u, SameRows(t, u), NEW k \in 1 .. Len(t)
  PROVE  SameRows(t, Ranked(u, k))
<1>1. u \in Seq(Rows) /\ k \in 1 .. Len(u) /\ u[k] \in Rows
  BY DEF SameRows
<1>2. [u[k] EXCEPT !.seq = Rank(u, k)] \in Rows
  <2>1. Rank(u, k) \in Nat \ {0}
    BY <1>1, RankType
  <2> QED
    BY <1>1, <2>1 DEF Rows
<1> QED
  BY <1>1, <1>2 DEF SameRows, Ranked, Rows

\* The tables that the UPDATE passes through exist, each computed from the one before.
LEMMA PassedTables ==
  ASSUME NEW t \in Seq(Rows)
  PROVE  /\ Passed(t)[0] = t
         /\ \A m \in 1 .. Len(t) : Passed(t)[m] = Ranked(Passed(t)[m - 1], m)
<1> DEFINE n == Len(t)
           Passes(g, m) == g = [k \in 0 .. m |-> IF k = 0 THEN t ELSE Ranked(g[k - 1], k)]
           Stuck == {m \in 0 .. n : ~ \E g : Passes(g, m)}
<1>0. n \in Nat
  OBVIOUS
<1>1. \E g : Passes(g, 0)
  <2>1. Passes([k \in 0 .. 0 |-> t], 0)
    OBVIOUS
  <2> QED
    BY <2>1
<1>2. ASSUME NEW m \in 1 .. n, NEW g, Passes(g, m - 1)
      PROVE  \E h : Passes(h, m)
  <2> DEFINE h == [k \in 0 .. m |-> IF k = m THEN Ranked(g[m - 1], m) ELSE g[k]]
  <2>1. \A k \in 0 .. m : h[k] = IF k = 0 THEN t ELSE Ranked(h[k - 1], k)
    BY <1>0, <1>2
  <2>2. Passes(h, m)
    BY <2>1
  <2> QED
    BY <2>2
<1>3. Stuck = {}
  <2> HIDE DEF Passes
  <2> SUFFICES ASSUME Stuck # {} PROVE FALSE
    OBVIOUS
  <2>1. Stuck \subseteq Nat
    BY <1>0
  <2> HIDE DEF Stuck
  <2>2. PICK m \in Stuck : \A i \in Stuck : m <= i
    BY <2>1, LeastElement
  <2> USE DEF Stuck
  <2>3. m \in 0 .. n /\ ~ \E h : Passes(h, m)
    BY <2>2
  <2>4. m # 0
    BY <1>1, <2>3
  <2> HIDE DEF n
  <2>5. m \in 1 .. n /\ m - 1 \in 0 .. n /\ m - 1 \notin Stuck
    BY <1>0, <2>2, <2>3, <2>4
  <2>6. \E h : Passes(h, m - 1)
    BY <2>5
  <2> QED
    BY <1>2, <2>3, <2>5, <2>6
<1>4. PICK g : Passes(g, n)
  <2> HIDE DEF Passes
  <2> QED BY <1>0, <1>3
<1> DEFINE Pass(f) == [k \in 0 .. n |-> IF k = 0 THEN t
                         ELSE CHOOSE u \in {Ranked(v, k) : v \in {f[k - 1]}} : TRUE]
           after == CHOOSE f : f = Pass(f)
<1>5. \A f : Pass(f) = [k \in 0 .. n |-> IF k = 0 THEN t ELSE Ranked(f[k - 1], k)]
  OBVIOUS
<1>6. after = Pass(after)
  <2>1. \E f : f = Pass(f)
    BY <1>4, <1>5
  <2> HIDE DEF Pass
  <2> QED BY <2>1
<1>7. Passes(after, n)
  BY <1>5, <1>6
<1>8. Passed(t) = after
  BY DEF Passed
<1> HIDE DEF after, Pass
<1>9. after[0] = t
  BY <1>0, <1>7
<1>10. \A m \in 1 .. n : after[m] = Ranked(after[m - 1], m)
  BY <1>0, <1>7
<1> QED
  BY <1>8, <1>9, <1>10

\* The whole UPDATE: each of those tables has the same rows, and so far as the UPDATE has come
\* no sequence is larger than their number.
LEMMA ResequencedKeepsRows ==
  ASSUME NEW t \in Seq(Rows)
  PROVE  SameRows(t, Resequenced(t)) /\ Dense(Resequenced(t))
<1> DEFINE n == Len(t)
           after == Passed(t)
           Kept(m) == SameRows(t, after[m]) /\ \A j \in 1 .. m : after[m][j].seq \in 1 .. n
           Changed == {m \in 0 .. n : ~ Kept(m)}
<1>0. n \in Nat
  OBVIOUS
<1>1. after[0] = t /\ \A m \in 1 .. n : after[m] = Ranked(after[m - 1], m)
  BY PassedTables
<1>2. Kept(0)
  BY <1>1 DEF SameRows
<1>3. ASSUME NEW m \in 1 .. n, Kept(m - 1) PROVE Kept(m)
  <2> DEFINE u == after[m - 1]
  <2>1. after[m] = Ranked(u, m)
    BY <1>1
  <2>2. SameRows(t, u) /\ \A j \in 1 .. (m - 1) : u[j].seq \in 1 .. n
    BY <1>3
  <2> HIDE DEF u, after
  <2>3. SameRows(t, Ranked(u, m))
    BY <2>2, RankedKeepsRows
  <2>4. u \in Seq(Rows) /\ Len(u) = n /\ u[m] \in Rows
    BY <2>2 DEF SameRows
  <2>5. Rank(u, m) \in 1 .. n
    BY <2>4, RankType
  <2>6. Ranked(u, m)[m].seq = Rank(u, m)
    BY <2>4 DEF Ranked, Rows
  <2>7. \A j \in 1 .. (m - 1) : Ranked(u, m)[j] = u[j]
    BY <2>4 DEF Ranked
  <2>8. \A j \in 1 .. m : Ranked(u, m)[j].seq \in 1 .. n
    BY <2>2, <2>5, <2>6, <2>7
  <2> QED
    BY <2>1, <2>3, <2>8
<1>4. Changed = {}
  <2> HIDE DEF Kept
  <2> SUFFICES ASSUME Changed # {} PROVE FALSE
    OBVIOUS
  <2>1. Changed \subseteq Nat
    BY <1>0
  <2> HIDE DEF Changed
  <2>2. PICK m \in Changed : \A i \in Changed : m <= i
    BY <2>1, LeastElement
  <2> USE DEF Changed
  <2>3. m # 0
    BY <1>2, <2>2
  <2> HIDE DEF n
  <2>4. m \in 1 .. n /\ m - 1 \in 0 .. n /\ m - 1 \notin Changed
    BY <1>0, <2>2, <2>3
  <2> QED
    BY <1>3, <2>2, <2>4
<1>5. Kept(n)
  <2> HIDE DEF Kept
  <2> QED BY <1>0, <1>4
<1> QED
  BY <1>5 DEF Resequenced, SameRows, Dense

\* On a table that a resequencing has rid of its duplicates the UPDATE changes nothing.
LEMMA DenseUnchanged ==
  ASSUME NEW t \in Seq(Rows), Unique(t), Dense(t)
  PROVE  Resequenced(t) = t
<1> DEFINE n == Len(t)
           after == Passed(t)
           Changed == {m \in 0 .. n : after[m] # t}
<1>0. n \in Nat
  OBVIOUS
<1>1. after[0] = t /\ \A m \in 1 .. n : after[m] = Ranked(after[m - 1], m)
  BY PassedTables
<1>2. \A m \in 1 .. n : Ranked(t, m) = t
  <2> SUFFICES ASSUME NEW m \in 1 .. n PROVE Ranked(t, m) = t
    OBVIOUS
  <2>1. Rank(t, m) = t[m].seq
    BY RankIsSequence
  <2>2. t[m] \in Rows
    OBVIOUS
  <2>3. [t[m] EXCEPT !.seq = t[m].seq] = t[m]
    BY <2>2 DEF Rows
  <2> QED
    BY <2>1, <2>3 DEF Ranked
<1> HIDE DEF after
<1>3. Changed = {}
  <2> SUFFICES ASSUME Changed # {} PROVE FALSE
    OBVIOUS
  <2>1. Changed \subseteq Nat
    BY <1>0
  <2> HIDE DEF Changed
  <2>2. PICK m \in Changed : \A i \in Changed : m <= i
    BY <2>1, LeastElement
  <2> USE DEF Changed
  <2>3. m # 0
    BY <1>1, <2>2
  <2> HIDE DEF n
  <2>4. m \in 1 .. n /\ m - 1 \in 0 .. n /\ m - 1 \notin Changed
    BY <1>0, <2>2, <2>3
  <2> QED
    BY <1>1, <1>2, <2>2, <2>4
<1> QED
  BY <1>0, <1>3 DEF Resequenced, after

\* The rows of a table, and what setting one column of a row leaves.
LEMMA RowsOfTable ==
  ASSUME NEW t \in Seq(Rows)
  PROVE  /\ Len(t) \in Nat /\ DOMAIN t = 1 .. Len(t)
         /\ \A k \in DOMAIN t : /\ t[k] \in Rows
                                /\ t[k].seq \in Nat \ {0}
                                /\ t[k].status \in {"pending", "running"}
<1>1. \A k \in DOMAIN t : t[k] \in Rows
  OBVIOUS
<1> QED
  BY <1>1 DEF Rows

LEMMA ColumnWritten ==
  ASSUME NEW row \in Rows
  PROVE  /\ \A n \in Nat \ {0} : LET r == [row EXCEPT !.seq = n] IN
              r \in Rows /\ r.id = row.id /\ r.owner = row.owner /\ r.seq = n
         /\ LET r == [row EXCEPT !.status = "running"] IN
              r \in Rows /\ r.id = row.id /\ r.owner = row.owner /\ r.seq = row.seq
                /\ r.status = "running"
  BY DEF Rows

\* Writing one row of a table.
LEMMA RowWritten ==
  ASSUME NEW t \in Seq(Rows), NEW k \in DOMAIN t, NEW row \in Rows, NEW u, u = [t EXCEPT ![k] = row]
  PROVE  /\ u \in Seq(Rows) /\ DOMAIN u = DOMAIN t
         /\ \A j \in DOMAIN t : u[j] = IF j = k THEN row ELSE t[j]
  OBVIOUS

\* COALESCE(MAX(sequence), 0) + 1 is larger than every sequence.
LEMMA NextSequenceIsNew ==
  ASSUME NEW t \in Seq(Rows)
  PROVE  /\ NextSequence(t) \in Nat \ {0}
         /\ \A k \in DOMAIN t : t[k].seq < NextSequence(t)
         /\ Dense(t) => NextSequence(t) <= Len(t) + 1
<1> DEFINE n == Len(t)
           f == [k \in 1 .. n |-> t[k].seq]
           S == SequencesOf(t, {"pending", "running"})
<1>1. n \in Nat /\ DOMAIN t = 1 .. n /\ f \in [1 .. n -> Nat]
  BY RowsOfTable
<1>2. S = {0} \cup {f[k] : k \in 1 .. n}
  <2>1. {k \in DOMAIN t : t[k].status \in {"pending", "running"}} = DOMAIN t
    BY RowsOfTable
  <2>2. S = {0} \cup {t[k].seq : k \in DOMAIN t}
    BY <2>1 DEF SequencesOf
  <2> QED
    BY <1>1, <2>2
<1>3. PICK m \in S : \A v \in S : v <= m
  BY <1>1, <1>2, LargestValue
<1>4. S \subseteq Nat
  BY <1>1, <1>2
<1>9. Dense(t) => S \subseteq 0 .. n
  BY <1>1, <1>2 DEF Dense
<1> HIDE DEF S
<1> DEFINE max == CHOOSE v \in S : \A w \in S : w <= v
<1>5. max \in S /\ \A w \in S : w <= max
  BY <1>3
<1>6. NextSequence(t) = 1 + max
  BY DEF NextSequence, NextOf, S
<1>7. \A k \in DOMAIN t : t[k].seq \in S
  BY <1>1, <1>2
<1> HIDE DEF max
<1>8. max \in Nat /\ \A k \in DOMAIN t : t[k].seq \in Nat /\ t[k].seq <= max
  BY <1>4, <1>5, <1>7
<1>10. Dense(t) => max <= n
  BY <1>5, <1>9
<1> QED
  BY <1>1, <1>6, <1>8, <1>10

\* The rows of the item have the owner of the call, or there are none.
OwnedBy(t, r) == \A k \in DOMAIN t : t[k].id = r.id => t[k].owner = r.owner

\* An upsert by the row's owner.
LEMMA UpsertKeepsRows ==
  ASSUME NEW t \in Seq(Rows), OneRowPerItem(t), NEW r \in EnqueueCalls, OwnedBy(t, r)
  PROVE  /\ Upsert(t, r) \in Seq(Rows)
         /\ OneRowPerItem(Upsert(t, r))
         /\ Unique(t) => Unique(Upsert(t, r))
         /\ Dense(t) => Dense(Upsert(t, r))
         /\ KeepsRows(t, Upsert(t, r), TRUE)
<1> DEFINE row == [id |-> r.id, owner |-> r.owner, priority |-> r.priority, status |-> "pending",
                   seq |-> NextSequence(t)]
           at == {k \in DOMAIN t : t[k].id = r.id}
           u == Upsert(t, r)
<1>1. row \in Rows
  BY NextSequenceIsNew DEF EnqueueCalls, Rows
<1>2. CASE at = {}
  <2>1. u = Append(t, row)
    BY <1>2 DEF Upsert
  <2>2. u \in Seq(Rows) /\ DOMAIN u = 1 .. Len(t) + 1 /\ u[Len(t) + 1] = row
        /\ \A k \in DOMAIN t : k \in DOMAIN u /\ u[k] = t[k]
    BY <1>1, <2>1
  <2>3. \A k \in DOMAIN t : t[k].id # row.id /\ t[k].seq # row.seq
    BY <1>2, NextSequenceIsNew, RowsOfTable
  <2>4. \A k \in DOMAIN u : k \in DOMAIN t \/ k = Len(t) + 1
    BY <2>2, RowsOfTable
  <2>5. Len(t) + 1 \notin DOMAIN t
    BY RowsOfTable
  <2>6. Dense(t) => Dense(u)
    <3>1. Dense(t) => row.seq \in 1 .. Len(t) + 1
      BY NextSequenceIsNew
    <3>2. Len(u) = Len(t) + 1 /\ Len(t) \in Nat /\ DOMAIN t = 1 .. Len(t)
      BY <1>1, <2>1
    <3> HIDE DEF u, row
    <3> QED
      BY <2>2, <3>1, <3>2 DEF Dense
  <2> HIDE DEF u, row
  <2> QED
    BY <2>2, <2>3, <2>4, <2>5, <2>6 DEF OneRowPerItem, Unique, KeepsRows, u
<1>3. CASE at # {}
  <2>1. PICK k \in DOMAIN t : t[k].id = r.id
    BY <1>3
  <2> DEFINE kept == [row EXCEPT !.seq = t[k].seq]
  <2>2. kept \in Rows /\ kept.id = r.id /\ kept.owner = r.owner /\ kept.seq = t[k].seq
    BY <1>1, <2>1, RowsOfTable, ColumnWritten
  <2>3. at = {k}
    BY <2>1 DEF OneRowPerItem
  <2>4. u = [t EXCEPT ![k] = kept]
    BY <1>3, <2>1, <2>3 DEF Upsert
  <2>5. u \in Seq(Rows) /\ DOMAIN u = DOMAIN t
        /\ \A j \in DOMAIN t : u[j] = IF j = k THEN kept ELSE t[j]
    BY <2>1, <2>2, <2>4, RowWritten
  <2>6. kept.id = t[k].id /\ kept.seq = t[k].seq /\ kept.owner = t[k].owner
    BY <2>1, <2>2 DEF OwnedBy
  <2>7. Len(u) = Len(t) /\ DOMAIN t = 1 .. Len(t)
    BY <2>4
  <2> HIDE DEF u, kept
  <2>8. Dense(t) => Dense(u)
    BY <2>5, <2>6, <2>7 DEF Dense
  <2> QED
    BY <2>5, <2>6, <2>8 DEF OneRowPerItem, Unique, KeepsRows, u
<1> QED
  BY <1>2, <1>3

\* A dequeue that takes one row.
LEMMA TakingKeepsRows ==
  ASSUME NEW t \in Seq(Rows), OneRowPerItem(t), NEW k \in DOMAIN t,
         NEW u, u = [t EXCEPT ![k].status = "running"]
  PROVE  /\ u \in Seq(Rows) /\ DOMAIN u = DOMAIN t
         /\ OneRowPerItem(u)
         /\ Unique(t) => Unique(u)
         /\ Dense(t) => Dense(u)
         /\ KeepsRows(t, u, TRUE)
         /\ \A j \in DOMAIN t : j # k => u[j] = t[j]
<1> DEFINE taken == [t[k] EXCEPT !.status = "running"]
<1>1. taken \in Rows /\ taken.id = t[k].id /\ taken.seq = t[k].seq /\ taken.owner = t[k].owner
  BY RowsOfTable, ColumnWritten
<1>2. u \in Seq(Rows) /\ DOMAIN u = DOMAIN t
      /\ \A j \in DOMAIN t : u[j] = IF j = k THEN taken ELSE t[j]
  BY <1>1, RowWritten
<1>3. Len(u) = Len(t) /\ DOMAIN t = 1 .. Len(t)
  OBVIOUS
<1> HIDE DEF taken
<1>4. Dense(t) => Dense(u)
  BY <1>1, <1>2, <1>3 DEF Dense
<1> QED
  BY <1>1, <1>2, <1>4 DEF OneRowPerItem, Unique, KeepsRows

-----------------------------------------------------------------------------
(* The invariant. *)

\* A client's write transaction is open from BEGIN IMMEDIATE to COMMIT, and the lock is its own.
LockHeld == \A c \in Clients : lock = c <=> pc[c] \in {"decide", "commit"}

\* What a client is about to commit was computed from the table that is there.
EnqueueReady(c) ==
  req[c] \in EnqueueCalls /\ OwnedBy(table, req[c]) /\ new[c] = Upsert(table, req[c])
DequeueReady(c) ==
  req[c] = DequeueCall /\ \E k \in Heads(table) : new[c] = [table EXCEPT ![k].status = "running"]
NothingStale == \A c \in Clients : pc[c] = "commit" => EnqueueReady(c) \/ DequeueReady(c)

\* A client that met duplicates and has not run its UPDATE yet finds them, or finds what
\* another UPDATE has left, and rows that were admitted since.
LateUpdate ==
  (Unique(table) /\ \E c \in Clients : pc[c] = "resequence") => Dense(table)

IInv == TypeOK /\ IndexHolds /\ LockHeld /\ NothingStale /\ LateUpdate

LEMMA InitIInv == Init => IInv
<1> SUFFICES ASSUME Init PROVE IInv
  OBVIOUS
<1>1. table \in Seq(Rows) /\ OneRowPerItem(table)
  BY LegacyType DEF Init
<1>2. 0 \in 0 .. MaxTries /\ 0 \in 0 .. MaxFaults /\ <<>> \in Seq(Rows)
  BY BoundsType
<1>3. TypeOK
  BY <1>1, <1>2 DEF Init, TypeOK, PCs
<1> QED
  BY <1>3, FreeIsNoClient DEF Init, IInv, IndexHolds, LockHeld, NothingStale, LateUpdate

\* A step that does not commit and sends nobody to the UPDATE.
LEMMA NobodySent ==
  ASSUME IInv, NEW c \in Clients, UNCHANGED table, pc'[c] # "resequence",
         \A d \in Clients \ {c} : pc'[d] = pc[d]
  PROVE  LateUpdate'
  BY DEF IInv, LateUpdate

\* A step that does not commit and in which only one client moves, to a place before its
\* COMMIT, spoils nothing that another is about to commit.
LEMMA NothingCommitted ==
  ASSUME IInv, NEW c \in Clients, UNCHANGED table, pc'[c] # "commit",
         \A d \in Clients \ {c} : pc'[d] = pc[d] /\ req'[d] = req[d] /\ new'[d] = new[d]
  PROVE  NothingStale'
<1> SUFFICES ASSUME NEW d \in Clients, pc'[d] = "commit"
             PROVE  EnqueueReady(d)' \/ DequeueReady(d)'
  BY DEF NothingStale
<1>1. d # c /\ pc[d] = "commit"
  OBVIOUS
<1>2. EnqueueReady(d) \/ DequeueReady(d)
  BY <1>1 DEF IInv, NothingStale
<1> QED
  BY <1>1, <1>2 DEF EnqueueReady, DequeueReady

\* When the lock is free, or one's own, nobody else is about to commit.
LEMMA NobodyElse ==
  ASSUME IInv, NEW c \in Clients, NEW d \in Clients \ {c}, lock \in {Free, c}
  PROVE  pc[d] \notin {"decide", "commit"}
  BY FreeIsNoClient DEF IInv, LockHeld

LEMMA CallKeeps ==
  ASSUME IInv, NEW c \in Clients, NEW r \in Calls, Call(c, r)
  PROVE  IInv'
<1> USE DEF IInv, TypeOK, PCs, Go, Answer
<1>1. r \in EnqueueCalls \cup {DequeueCall}
  BY CallsType
<1>2. TypeOK'
  <2>1. 0 \in 0 .. MaxTries
    BY BoundsType
  <2>2. pc' \in [Clients -> PCs] /\ DOMAIN reply' = Clients
    BY DEF Call
  <2>3. req' \in [Clients -> EnqueueCalls \cup {DequeueCall, NoCall}] /\ tries' \in [Clients -> 0 .. MaxTries]
    BY <1>1, <2>1 DEF Call
  <2> QED
    BY <2>2, <2>3 DEF Call
<1>3. IndexHolds' /\ LockHeld'
  BY DEF Call, IndexHolds, LockHeld
<1>4. NothingStale'
  <2>1. UNCHANGED table /\ pc'[c] \in {"open", "return"}
    BY DEF Call
  <2>2. \A d \in Clients \ {c} : pc'[d] = pc[d] /\ req'[d] = req[d] /\ new'[d] = new[d]
    BY DEF Call
  <2> HIDE DEF IInv, TypeOK, PCs, Go, Answer
  <2> QED
    BY <2>1, <2>2, NothingCommitted
<1>5. LateUpdate'
  BY NobodySent DEF Call
<1> QED
  BY <1>2, <1>3, <1>4, <1>5

LEMMA IndexKeeps ==
  ASSUME IInv, NEW c \in Clients, Index(c)
  PROVE  IInv'
<1> USE DEF IInv, TypeOK, PCs, Go
<1>1. pc[c] = "open" /\ UNCHANGED <<table, lock, req, new, reply, tries, faults>>
      /\ indexed' = (indexed \/ Unique(table))
      /\ pc' = [pc EXCEPT ![c] = IF indexed' THEN "begin" ELSE "resequence"]
  BY DEF Index
<1>2. TypeOK' /\ IndexHolds' /\ LockHeld'
  BY <1>1 DEF IndexHolds, LockHeld
<1>3. NothingStale'
  BY <1>1, NothingCommitted
<1>4. LateUpdate'
  BY <1>1, NobodySent DEF LateUpdate
<1> QED
  BY <1>2, <1>3, <1>4

LEMMA ResequenceKeeps ==
  ASSUME IInv, NEW c \in Clients, Resequence(c)
  PROVE  IInv' /\ KeepsRows(table, table', indexed)
<1> USE DEF IInv, TypeOK, PCs, Go
<1> DEFINE u == Resequenced(table)
<1>1. /\ u \in Seq(Rows) /\ OneRowPerItem(u) /\ Dense(u)
      /\ KeepsRows(table, u, FALSE)
  <2>1. SameRows(table, u) /\ Dense(u)
    BY ResequencedKeepsRows
  <2>2. DOMAIN u = DOMAIN table /\ DOMAIN table = 1 .. Len(table)
    BY <2>1, RowsOfTable DEF SameRows
  <2> QED
    BY <2>1, <2>2 DEF SameRows, OneRowPerItem, KeepsRows
<1>2. KeepsRows(table, table, TRUE)
  BY DEF KeepsRows
<1>3. /\ pc[c] = "resequence" /\ lock = Free
      /\ UNCHANGED <<lock, req, new, reply, tries, faults>>
      /\ \E to \in {"reindex", "begin"} : pc' = [pc EXCEPT ![c] = to]
      /\ table' \in {table, u}
      /\ indexed' \in BOOLEAN /\ (indexed => indexed')
  BY DEF Resequence
<1>4. indexed => table' = table
  <2> SUFFICES ASSUME indexed PROVE u = table
    BY <1>3
  <2>1. Unique(table) /\ Dense(table)
    BY <1>3 DEF IndexHolds, LateUpdate
  <2> QED
    BY <2>1, DenseUnchanged
<1>5. indexed' => Unique(table')
  BY <1>4 DEF Resequence, IndexHolds
<1> HIDE DEF u
<1>6. TypeOK' /\ IndexHolds'
  BY <1>1, <1>3, <1>5 DEF IndexHolds
<1>7. KeepsRows(table, table', indexed)
  BY <1>1, <1>2, <1>3, <1>4 DEF KeepsRows
<1>8. LockHeld'
  BY <1>3 DEF LockHeld
<1>9. NothingStale'
  BY <1>3, NobodyElse DEF NothingStale
<1>10. LateUpdate'
  BY <1>1, <1>3 DEF LateUpdate
<1> QED
  BY <1>6, <1>7, <1>8, <1>9, <1>10

LEMMA ReindexKeeps ==
  ASSUME IInv, NEW c \in Clients, Reindex(c)
  PROVE  IInv'
<1> USE DEF IInv, TypeOK, PCs, Go
<1>1. TypeOK'
  BY DEF Reindex
<1>2. IndexHolds' /\ LockHeld'
  BY DEF Reindex, IndexHolds, LockHeld
<1>3. NothingStale'
  BY NothingCommitted DEF Reindex
<1>4. LateUpdate'
  BY NobodySent DEF Reindex
<1> QED
  BY <1>1, <1>2, <1>3, <1>4

LEMMA BeginKeeps ==
  ASSUME IInv, NEW c \in Clients, Begin(c)
  PROVE  IInv'
<1> USE DEF IInv, TypeOK, PCs, Go
<1>1. TypeOK' /\ IndexHolds'
  BY DEF Begin, IndexHolds
<1>2. LockHeld'
  BY FreeIsNoClient DEF Begin, LockHeld
<1>3. NothingStale'
  BY NothingCommitted DEF Begin
<1>4. LateUpdate'
  BY NobodySent DEF Begin
<1> QED
  BY <1>1, <1>2, <1>3, <1>4

LEMMA DecideEnqueueKeeps ==
  ASSUME IInv, NEW c \in Clients, DecideEnqueue(c)
  PROVE  IInv'
<1> USE DEF IInv, TypeOK, PCs, Go, Answer
<1> DEFINE r == req[c]
<1>1. pc[c] = "decide" /\ lock = c /\ r \in EnqueueCalls /\ UNCHANGED <<table, indexed, req>>
  <2>1. r.op = "enqueue" /\ r \in EnqueueCalls \cup {DequeueCall, NoCall}
    BY DEF DecideEnqueue
  <2>2. r \in EnqueueCalls
    BY <2>1 DEF DequeueCall, NoCall
  <2> QED
    BY <2>2 DEF DecideEnqueue, LockHeld
<1>2. CASE pc' = [pc EXCEPT ![c] = "return"] /\ lock' = Free /\ UNCHANGED new
           /\ \E a : reply' = [reply EXCEPT ![c] = a]
  <2>1. TypeOK' /\ IndexHolds'
    BY <1>1, <1>2 DEF DecideEnqueue, IndexHolds
  <2>2. LockHeld'
    BY <1>1, <1>2, FreeIsNoClient DEF LockHeld
  <2>3. NothingStale' /\ LateUpdate'
    BY <1>1, <1>2, NothingCommitted, NobodySent
  <2> QED
    BY <2>1, <2>2, <2>3
<1>3. CASE OwnedBy(table, r) /\ new' = [new EXCEPT ![c] = Upsert(table, r)]
           /\ pc' = [pc EXCEPT ![c] = "commit"] /\ UNCHANGED <<lock, reply>>
  <2>1. Upsert(table, r) \in Seq(Rows)
    BY <1>1, <1>3, UpsertKeepsRows
  <2>2. TypeOK' /\ IndexHolds'
    BY <1>1, <1>3, <2>1 DEF DecideEnqueue, IndexHolds
  <2>3. LockHeld'
    BY <1>1, <1>3 DEF LockHeld
  <2>4. EnqueueReady(c)'
    BY <1>1, <1>3 DEF EnqueueReady, OwnedBy
  <2>5. NothingStale' /\ LateUpdate'
    BY <1>1, <1>3, <2>4, NobodyElse, NobodySent DEF NothingStale
  <2> QED
    BY <2>2, <2>3, <2>5
<1> QED
  BY <1>2, <1>3 DEF DecideEnqueue, OwnedBy

LEMMA DecideDequeueKeeps ==
  ASSUME IInv, NEW c \in Clients, DecideDequeue(c)
  PROVE  IInv'
<1> USE DEF IInv, TypeOK, PCs, Go, Answer
<1>1. pc[c] = "decide" /\ lock = c /\ req[c] = DequeueCall /\ UNCHANGED <<table, indexed, req>>
  <2>1. req[c].op = "dequeue" /\ req[c] \in EnqueueCalls \cup {DequeueCall, NoCall}
    BY DEF DecideDequeue
  <2>2. req[c] = DequeueCall
    BY <2>1 DEF EnqueueCalls, NoCall
  <2> QED
    BY <2>2 DEF DecideDequeue, LockHeld
<1>2. CASE pc' = [pc EXCEPT ![c] = "return"] /\ lock' = Free /\ UNCHANGED new
           /\ \E a : reply' = [reply EXCEPT ![c] = a]
  <2>1. TypeOK' /\ IndexHolds'
    BY <1>1, <1>2 DEF DecideDequeue, IndexHolds
  <2>2. LockHeld'
    BY <1>1, <1>2, FreeIsNoClient DEF LockHeld
  <2>3. NothingStale' /\ LateUpdate'
    BY <1>1, <1>2, NothingCommitted, NobodySent
  <2> QED
    BY <2>1, <2>2, <2>3
<1>3. ASSUME NEW k \in Heads(table), new' = [new EXCEPT ![c] = [table EXCEPT ![k].status = "running"]],
             pc' = [pc EXCEPT ![c] = "commit"], UNCHANGED <<lock, reply>>
      PROVE  IInv'
  <2>1. k \in DOMAIN table
    BY <1>3 DEF Heads, Pending
  <2>2. [table EXCEPT ![k].status = "running"] \in Seq(Rows)
    BY <2>1, TakingKeepsRows
  <2>3. TypeOK' /\ IndexHolds'
    BY <1>1, <1>3, <2>2 DEF DecideDequeue, IndexHolds
  <2>4. LockHeld'
    BY <1>1, <1>3 DEF LockHeld
  <2>5. DequeueReady(c)'
    BY <1>1, <1>3 DEF DequeueReady
  <2>6. NothingStale' /\ LateUpdate'
    BY <1>1, <1>3, <2>5, NobodyElse, NobodySent DEF NothingStale
  <2> QED
    BY <2>3, <2>4, <2>6
<1> QED
  BY <1>2, <1>3 DEF DecideDequeue

LEMMA CommitKeeps ==
  ASSUME IInv, NEW c \in Clients, Commit(c)
  PROVE  IInv' /\ KeepsRows(table, table', indexed) /\ HandsOutHead(c)
<1> USE DEF IInv, TypeOK, PCs, Go, Answer
<1>1. pc[c] = "commit" /\ lock = c /\ table' = new[c] /\ UNCHANGED <<indexed, req, tries, faults>>
  BY DEF Commit, LockHeld
<1>2. EnqueueReady(c) \/ DequeueReady(c)
  BY <1>1 DEF NothingStale
<1>3. /\ new[c] \in Seq(Rows) /\ OneRowPerItem(new[c])
      /\ Unique(table) => Unique(new[c])
      /\ Dense(table) => Dense(new[c])
      /\ KeepsRows(table, new[c], TRUE)
  <2>1. CASE EnqueueReady(c)
    BY <2>1, UpsertKeepsRows DEF EnqueueReady
  <2>2. CASE DequeueReady(c)
    <3>1. PICK k \in Heads(table) : new[c] = [table EXCEPT ![k].status = "running"]
      BY <2>2 DEF DequeueReady
    <3>2. k \in DOMAIN table
      BY <3>1 DEF Heads, Pending
    <3>3. table \in Seq(Rows) /\ OneRowPerItem(table)
      OBVIOUS
    <3> HIDE DEF IInv, TypeOK, PCs, Go, Answer
    <3> QED
      BY <3>1, <3>2, <3>3, TakingKeepsRows, Zenon
  <2> QED
    BY <1>2, <2>1, <2>2
<1>4. TypeOK'
  BY <1>1, <1>3 DEF Commit
<1>5. IndexHolds' /\ KeepsRows(table, table', indexed)
  BY <1>1, <1>3 DEF IndexHolds, KeepsRows
<1>6. LockHeld'
  BY <1>1, FreeIsNoClient DEF Commit, LockHeld
<1>7. NothingStale'
  BY <1>1, NobodyElse DEF Commit, NothingStale
<1>9. LateUpdate'
  <2>1. Unique(new[c]) => Unique(table)
    BY <1>3 DEF KeepsRows, Unique
  <2>2. \A d \in Clients : pc'[d] = "resequence" => pc[d] = "resequence"
    BY DEF Commit
  <2> QED
    BY <1>1, <1>3, <2>1, <2>2 DEF LateUpdate
<1>8. HandsOutHead(c)
  <2> SUFFICES ASSUME reply'[c].kind = "item"
               PROVE  \E k \in Heads(table) : /\ table[k].id = reply'[c].id
                                             /\ table' = [table EXCEPT ![k].status = "running"]
    BY DEF HandsOutHead
  <2>1. CASE EnqueueReady(c)
    <3>1. req[c].op = "enqueue"
      BY <2>1 DEF EnqueueReady, EnqueueCalls
    <3>2. \E k \in DOMAIN new[c] : reply'[c] = Accepted(new[c][k])
      BY <3>1 DEF Commit
    <3> QED
      BY <3>2 DEF Accepted
  <2>2. CASE DequeueReady(c)
    <3>1. req[c].op = "dequeue"
      BY <2>2 DEF DequeueReady, DequeueCall
    <3>2. PICK j \in DOMAIN new[c] : /\ new[c][j].status = "running" /\ table[j].status = "pending"
                                     /\ reply'[c] = Item(new[c][j])
      BY <3>1 DEF Commit
    <3>3. PICK k \in Heads(table) : new[c] = [table EXCEPT ![k].status = "running"]
      BY <2>2 DEF DequeueReady
    <3>4. k \in DOMAIN table
      BY DEF Heads, Pending
    <3>5. DOMAIN new[c] = DOMAIN table /\ \A i \in DOMAIN table : i # k => new[c][i] = table[i]
      BY <3>3, <3>4, TakingKeepsRows
    <3>6. j = k
      BY <3>2, <3>5
    <3>7. table[k].id = new[c][k].id
      BY <1>3, <3>4 DEF KeepsRows
    <3>8. reply'[c].id = new[c][k].id
      BY <3>2, <3>6 DEF Item
    <3> QED
      BY <1>1, <3>3, <3>7, <3>8
  <2> QED
    BY <1>2, <2>1, <2>2
<1> QED
  BY <1>4, <1>5, <1>6, <1>7, <1>8, <1>9

LEMMA ReturnKeeps ==
  ASSUME IInv, NEW c \in Clients, Return(c)
  PROVE  IInv'
<1> USE DEF IInv, TypeOK, PCs, Go
<1>1. TypeOK' /\ IndexHolds'
  BY DEF Return, IndexHolds
<1>2. LockHeld'
  BY DEF Return, LockHeld
<1>3. NothingStale'
  BY NothingCommitted DEF Return
<1>4. LateUpdate'
  BY NobodySent DEF Return
<1> QED
  BY <1>1, <1>2, <1>3, <1>4

LEMMA BusyKeeps ==
  ASSUME IInv, NEW c \in Clients, Busy(c)
  PROVE  IInv'
<1> USE DEF IInv, TypeOK, PCs, Go, Answer, Fault
<1>1. UNCHANGED <<table, indexed, lock, req, new>> /\ pc' \in [Clients -> PCs]
      /\ DOMAIN reply' = Clients /\ faults' \in 0 .. MaxFaults
  BY BoundsType DEF Busy
<1>2. tries' \in [Clients -> 0 .. MaxTries]
  <2>1. CASE UNCHANGED tries
    BY <2>1
  <2>2. CASE tries[c] + 1 < MaxTries /\ tries' = [tries EXCEPT ![c] = @ + 1]
    <3>1. tries[c] \in 0 .. MaxTries
      OBVIOUS
    <3>2. tries[c] + 1 \in 0 .. MaxTries
      BY <2>2, <3>1, BoundsType
    <3> QED
      BY <2>2, <3>2
  <2> QED
    BY <2>1, <2>2 DEF Busy
<1>3. TypeOK' /\ IndexHolds'
  BY <1>1, <1>2 DEF IndexHolds
<1>4. LockHeld'
  BY DEF Busy, LockHeld
<1>5. NothingStale'
  BY NothingCommitted DEF Busy
<1>6. LateUpdate'
  BY NobodySent DEF Busy
<1> QED
  BY <1>3, <1>4, <1>5, <1>6

LEMMA KillKeeps ==
  ASSUME IInv, NEW c \in Clients, Kill(c)
  PROVE  IInv'
<1> USE DEF IInv, TypeOK, PCs, Go, Answer, Fault
<1>1. TypeOK' /\ IndexHolds'
  BY BoundsType DEF Kill, IndexHolds
<1>2. LockHeld'
  BY FreeIsNoClient DEF Kill, LockHeld
<1>3. NothingStale'
  BY NothingCommitted DEF Kill
<1>4. LateUpdate'
  BY NobodySent DEF Kill
<1> QED
  BY <1>1, <1>2, <1>3, <1>4

\* Every step of the specification.
LEMMA StepKeeps ==
  ASSUME IInv, [Next]_vars
  PROVE  IInv' /\ KeepsRows(table, table', indexed) /\ \A c \in Clients : HandsOutHead(c)
<1>1. KeepsRows(table, table, indexed)
  BY DEF KeepsRows
<1>2. CASE UNCHANGED vars
  <2>1. UNCHANGED <<table, indexed, lock, pc, req, new, reply, tries, faults>>
    BY <1>2 DEF vars
  <2>2. IInv'
    BY <2>1 DEF IInv, TypeOK, IndexHolds, LockHeld, NothingStale, LateUpdate, EnqueueReady, DequeueReady
  <2> QED
    BY <1>1, <2>1, <2>2 DEF HandsOutHead
<1>3. ASSUME NEW c \in Clients, Commit(c)
      PROVE  \A d \in Clients : HandsOutHead(d)
  <2>1. \A d \in Clients \ {c} : pc'[d] = pc[d]
    BY <1>3 DEF Commit, Go, IInv, TypeOK
  <2> QED
    BY <1>3, <2>1, CommitKeeps DEF HandsOutHead
<1>4. ASSUME NEW c \in Clients,
             \/ (\E r \in Calls : Call(c, r)) \/ Index(c) \/ Resequence(c) \/ Reindex(c) \/ Begin(c)
             \/ DecideEnqueue(c) \/ DecideDequeue(c) \/ Return(c) \/ Busy(c) \/ Kill(c)
      PROVE  \A d \in Clients : HandsOutHead(d)
  <2>1. pc[c] = "commit" => pc'[c] = "idle"
    BY <1>4 DEF Call, Index, Resequence, Reindex, Begin, DecideEnqueue, DecideDequeue, Return, Busy, Kill, Go,
                IInv, TypeOK
  <2>2. \A d \in Clients \ {c} : pc'[d] = pc[d]
    BY <1>4 DEF Call, Index, Resequence, Reindex, Begin, DecideEnqueue, DecideDequeue, Return, Busy, Kill, Go,
                IInv, TypeOK
  <2> QED
    BY <2>1, <2>2 DEF HandsOutHead
<1>5. ASSUME NEW c \in Clients,
             \/ (\E r \in Calls : Call(c, r)) \/ Index(c) \/ Reindex(c) \/ Begin(c)
             \/ DecideEnqueue(c) \/ DecideDequeue(c) \/ Return(c) \/ Busy(c) \/ Kill(c)
      PROVE  IInv' /\ KeepsRows(table, table', indexed)
  <2>1. table' = table
    BY <1>5 DEF Call, Index, Reindex, Begin, DecideEnqueue, DecideDequeue, Return, Busy, Kill
  <2> QED
    BY <1>1, <1>5, <2>1, CallKeeps, IndexKeeps, ReindexKeeps, BeginKeeps, DecideEnqueueKeeps,
       DecideDequeueKeeps, ReturnKeeps, BusyKeeps, KillKeeps
<1> QED
  BY <1>2, <1>3, <1>4, <1>5, ResequenceKeeps, CommitKeeps DEF Next, Proceed

-----------------------------------------------------------------------------
THEOREM Invariance == Spec => []IInv
<1>1. IInv /\ [Next]_vars => IInv'
  BY StepKeeps
<1> QED
  BY InitIInv, <1>1, PTL DEF Spec

\* The rows stay well-formed, one for each item (work_id is the primary key).
THEOREM TypeCorrect == Spec => []TypeOK
<1>1. IInv => TypeOK
  BY DEF IInv
<1> QED
  BY Invariance, <1>1, PTL

\* No enqueue ever meets the unique index: its retry on a collision is never needed.
THEOREM IndexNeverBroken == Spec => []IndexHolds
<1>1. IInv => IndexHolds
  BY DEF IInv
<1> QED
  BY Invariance, <1>1, PTL

\* Rows stay, with their owners, whatever clients and openings do; once the index exists, with
\* the sequences that enqueue returned, though an UPDATE that was decided on before may still
\* be to come.
THEOREM RowsAreKept == Spec => RowsKept
<1>1. IInv /\ [Next]_vars => [KeepsRows(table, table', indexed)]_vars
  BY StepKeeps
<1> QED
  BY Invariance, <1>1, PTL DEF Spec, RowsKept

\* A dequeue hands out the first in line at the moment of its COMMIT.
THEOREM HandsOutInOrder == Spec => HandedOutInOrder
<1>1. IInv /\ [Next]_vars => [\A c \in Clients : HandsOutHead(c)]_vars
  BY StepKeeps
<1> QED
  BY Invariance, <1>1, PTL DEF Spec, HandedOutInOrder
=============================================================================
