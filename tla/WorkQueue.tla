----------------------------- MODULE WorkQueue ------------------------------
(***************************************************************************)
(* The durable work queue: one SQLite table that any number of short-lived *)
(* processes open, enqueue to and dequeue from.  Opening it builds the     *)
(* unique index on `sequence`, resequencing a table whose old writers,     *)
(* which read MAX(sequence) and inserted in two transactions, have left    *)
(* duplicates.  Enqueue and dequeue are BEGIN IMMEDIATE transactions: one  *)
(* writer at a time, nothing visible before COMMIT, nothing kept of a      *)
(* killed writer.  Two engines implement it, in Python and in Rust.        *)
(***************************************************************************)
EXTENDS Integers, Sequences, FiniteSets

CONSTANTS
  Clients,
  Items,        \* work ids
  Owners,       \* validated queue owners, the ownerless one among them
  BadOwner,     \* metadata that validation rejects
  Priorities,
  Calls,        \* the calls that clients make
  Legacy,       \* tables an earlier build may have left
  Engine,       \* "python" or "rust"
  Free,
  MaxTries,     \* ENQUEUE_RETRY_ATTEMPTS
  MaxFaults     \* bound on kills and expired busy timeouts

ASSUME FreeIsNoClient == Free \notin Clients
ASSUME BadOwnerIsNoOwner == BadOwner \notin Owners
ASSUME PrioritiesType == Priorities \subseteq Int
ASSUME EngineType == Engine \in {"python", "rust"}
ASSUME BoundsType == MaxTries \in Nat \ {0} /\ MaxFaults \in Nat

VARIABLES
  table,      \* the committed rows in rowid order; rows are never deleted
  indexed,    \* the unique index on sequence exists
  lock,       \* the client whose write transaction is open, or Free
  pc,
  req,
  new,        \* the table as the client's transaction would leave it
  reply,      \* what the client's last call was answered
  tries,      \* attempts of the enqueue in progress
  faults

vars == <<table, indexed, lock, pc, req, new, reply, tries, faults>>

Rows == [id : Items, owner : Owners \cup {BadOwner}, priority : Priorities,
         status : {"pending", "running"}, seq : Nat \ {0}]
EnqueueCalls == [op : {"enqueue"}, id : Items, owner : Owners \cup {BadOwner}, priority : Priorities]
DequeueCall == [op |-> "dequeue"]
NoCall == [op |-> "none"]

ASSUME CallsType == Calls \subseteq EnqueueCalls \cup {DequeueCall}
\* work_id is the primary key.
OneRowPerItem(t) == \A j, k \in DOMAIN t : t[j].id = t[k].id => j = k
ASSUME LegacyType == \A t \in Legacy : t \in Seq(Rows) /\ OneRowPerItem(t)

NoReply == [kind |-> "none"]
Error == [kind |-> "error"]
Empty == [kind |-> "empty"]
Refused(why) == [kind |-> "refused", why |-> why]
Accepted(row) == [kind |-> "accepted", id |-> row.id, seq |-> row.seq]
Item(row) == [kind |-> "item", id |-> row.id]

PCs == {"idle", "open", "resequence", "reindex", "begin", "decide", "commit", "return"}

TypeOK ==
  /\ table \in Seq(Rows)
  /\ OneRowPerItem(table)
  /\ indexed \in BOOLEAN
  /\ lock \in Clients \cup {Free}
  /\ pc \in [Clients -> PCs]
  /\ req \in [Clients -> EnqueueCalls \cup {DequeueCall, NoCall}]
  /\ new \in [Clients -> Seq(Rows)]
  /\ DOMAIN reply = Clients
  /\ tries \in [Clients -> 0 .. MaxTries]
  /\ faults \in 0 .. MaxFaults

-----------------------------------------------------------------------------
(* The statements. *)

Unique(t) == \A j, k \in DOMAIN t : t[j].seq = t[k].seq => j = k

\* A definition whose name starts with Bug is a slip the code could have had; it is not
\* part of the model.

\* SELECT COALESCE(MAX(sequence), 0) + 1; one bug looks at what is pending only, the other
\* skips a number.
SequencesOf(t, Counted) == {0} \cup {t[k].seq : k \in {k \in DOMAIN t : t[k].status \in Counted}}
NextOf(S) == 1 + CHOOSE m \in S : \A n \in S : n <= m
BugNextSequence(t) == NextOf(SequencesOf(t, {"pending"}))
BugGap(t) == 1 + NextOf(SequencesOf(t, {"pending", "running"}))
NextSequence(t) == NextOf(SequencesOf(t, {"pending", "running"}))

\* The correlated subquery of the resequencing UPDATE, for row k of a table in which the
\* rows before k have been updated already.
Rank(t, k) ==
  Cardinality({j \in DOMAIN t : t[j].seq < t[k].seq \/ (t[j].seq = t[k].seq /\ j <= k)})

Ranked(t, k) == [t EXCEPT ![k].seq = Rank(t, k)]

\* SQLite runs the UPDATE row by row, and the subquery sees the rows it has updated: the
\* tables it passes through.  (The one choice there is makes TLC evaluate each step once.)
Passed(t) ==
  LET after[k \in 0 .. Len(t)] ==
        IF k = 0 THEN t ELSE CHOOSE u \in {Ranked(v, k) : v \in {after[k - 1]}} : TRUE
  IN  after
Resequenced(t) == Passed(t)[Len(t)]

\* Where the index exists, the UPDATE aborts at the first row that collides with another.
Collides(t) == \E k \in DOMAIN t : ~ Unique(Passed(t)[k])

\* An insert that does not look for the work_id.
BugInsert(t, r) ==
  Append(t, [id |-> r.id, owner |-> r.owner, priority |-> r.priority, status |-> "pending",
             seq |-> NextSequence(t)])

\* The upsert on work_id: a row that is there keeps its sequence.
Upsert(t, r) ==
  LET row == [id |-> r.id, owner |-> r.owner, priority |-> r.priority, status |-> "pending",
              seq |-> NextSequence(t)]
      at == {k \in DOMAIN t : t[k].id = r.id}
  IN  IF at = {} THEN Append(t, row)
      ELSE [k \in DOMAIN t |-> IF k \in at THEN [row EXCEPT !.seq = t[k].seq] ELSE t[k]]

\* ORDER BY priority, sequence; the index that serves it breaks ties by rowid.
Before(t, j, k) == t[j].seq < t[k].seq \/ (t[j].seq = t[k].seq /\ j < k)
Served(t, j, k) ==
  \/ t[j].priority < t[k].priority
  \/ t[j].priority = t[k].priority /\ Before(t, j, k)
Pending(t) == {k \in DOMAIN t : t[k].status = "pending"}
Heads(t) == {k \in Pending(t) : \A j \in Pending(t) \ {k} : Served(t, k, j)}

-----------------------------------------------------------------------------
Init ==
  /\ table \in Legacy
  /\ indexed = FALSE
  /\ lock = Free
  /\ pc = [c \in Clients |-> "idle"]
  /\ req = [c \in Clients |-> NoCall]
  /\ new = [c \in Clients |-> <<>>]
  /\ reply = [c \in Clients |-> NoReply]
  /\ tries = [c \in Clients |-> 0]
  /\ faults = 0

Go(c, to) == pc' = [pc EXCEPT ![c] = to]
Answer(c, r) == reply' = [reply EXCEPT ![c] = r]
Fault == faults < MaxFaults /\ faults' = faults + 1

\* An enqueue whose owner is malformed is refused before the database is opened.
Call(c, r) ==
  /\ pc[c] = "idle"
  /\ req' = [req EXCEPT ![c] = r]
  /\ tries' = [tries EXCEPT ![c] = 0]
  /\ IF r.op = "enqueue" /\ r.owner = BadOwner
     THEN Answer(c, Refused("invalid_queue_owner")) /\ Go(c, "return")
     ELSE Answer(c, NoReply) /\ Go(c, "open")
  /\ UNCHANGED <<table, indexed, lock, new, faults>>

\* A table with duplicates is left as it is.
BugIndex(c) ==
  /\ pc[c] = "open" /\ (indexed \/ lock = Free)
  /\ indexed' = (indexed \/ Unique(table))
  /\ Go(c, "begin")
  /\ UNCHANGED <<table, lock, req, new, reply, tries, faults>>

\* CREATE UNIQUE INDEX IF NOT EXISTS on opening, a transaction of its own that needs no lock
\* where the index exists; where there are duplicates it fails, and the UPDATE is next.
Index(c) ==
  /\ pc[c] = "open" /\ (indexed \/ lock = Free)
  /\ indexed' = (indexed \/ Unique(table))
  /\ Go(c, IF indexed' THEN "begin" ELSE "resequence")
  /\ UNCHANGED <<table, lock, req, new, reply, tries, faults>>

\* The UPDATE, in another transaction: by now the table may be one that somebody else has
\* resequenced, indexed, filled and served from.  In Python the same transaction creates the
\* index, and where that fails the UPDATE is rolled back; in Rust the UPDATE is committed.
Resequence(c) ==
  LET passes == ~ (indexed /\ Collides(table))
      commits == passes /\ (Engine = "rust" \/ Unique(Resequenced(table)))
  IN
  /\ pc[c] = "resequence" /\ lock = Free
  /\ table' = IF commits THEN Resequenced(table) ELSE table
  /\ indexed' = (indexed \/ (Engine = "python" /\ commits))
  /\ Go(c, IF Engine = "rust" /\ commits THEN "reindex" ELSE "begin")
  /\ UNCHANGED <<lock, req, new, reply, tries, faults>>

\* The Rust engine's second CREATE UNIQUE INDEX; its failure is ignored.
Reindex(c) ==
  /\ pc[c] = "reindex" /\ (indexed \/ lock = Free)
  /\ indexed' = (indexed \/ Unique(table))
  /\ Go(c, "begin")
  /\ UNCHANGED <<table, lock, req, new, reply, tries, faults>>

\* BEGIN without IMMEDIATE takes no lock before the first write.
BugBegin(c) ==
  /\ pc[c] = "begin"
  /\ lock' = c
  /\ Go(c, "decide")
  /\ UNCHANGED <<table, indexed, req, new, reply, tries, faults>>

\* BEGIN IMMEDIATE
Begin(c) ==
  /\ pc[c] = "begin" /\ lock = Free
  /\ lock' = c
  /\ Go(c, "decide")
  /\ UNCHANGED <<table, indexed, req, new, reply, tries, faults>>

\* The statements of an enqueue: the owner is checked against the row that is there.
DecideEnqueue(c) ==
  LET r == req[c]
      rows == {table[k] : k \in {k \in DOMAIN table : table[k].id = r.id}}
      Refuse(why) == /\ Answer(c, Refused(why)) /\ Go(c, "return")
                     /\ lock' = Free /\ UNCHANGED new
  IN
  /\ pc[c] = "decide" /\ r.op = "enqueue"
  /\ \/ (\E row \in rows : row.owner = BadOwner) /\ Refuse("invalid_queue_owner")
     \/ (\E row \in rows : row.owner \notin {BadOwner, r.owner}) /\ Refuse("queue_owner_conflict")
     \/ /\ \A row \in rows : row.owner = r.owner
        /\ new' = [new EXCEPT ![c] = Upsert(table, r)]
        /\ Go(c, "commit")
        /\ UNCHANGED <<lock, reply>>
  /\ UNCHANGED <<table, indexed, req, tries, faults>>

\* The statements of a dequeue.
DecideDequeue(c) ==
  /\ pc[c] = "decide" /\ req[c].op = "dequeue"
  /\ \/ /\ Pending(table) = {}
        /\ Answer(c, Empty) /\ Go(c, "return")
        /\ lock' = Free /\ UNCHANGED new
     \/ /\ \E k \in Heads(table) : new' = [new EXCEPT ![c] = [table EXCEPT ![k].status = "running"]]
        /\ Go(c, "commit")
        /\ UNCHANGED <<lock, reply>>
  /\ UNCHANGED <<table, indexed, req, tries, faults>>

\* COMMIT, and the answer read inside the transaction.
Commit(c) ==
  /\ pc[c] = "commit"
  /\ table' = new[c]
  /\ \E k \in DOMAIN new[c] :
       IF req[c].op = "enqueue"
       THEN new[c][k].id = req[c].id /\ Answer(c, Accepted(new[c][k]))
       ELSE /\ new[c][k].status = "running" /\ table[k].status = "pending"
            /\ Answer(c, Item(new[c][k]))
  /\ new' = [new EXCEPT ![c] = <<>>]
  /\ lock' = IF lock = c THEN Free ELSE lock
  /\ Go(c, "return")
  /\ UNCHANGED <<indexed, req, tries, faults>>

Return(c) ==
  /\ pc[c] = "return"
  /\ req' = [req EXCEPT ![c] = NoCall]
  /\ Go(c, "idle")
  /\ UNCHANGED <<table, indexed, lock, new, reply, tries, faults>>

\* The busy timeout expires.  On opening, the index is left to the next open; an enqueue is
\* tried again, a number of times; a dequeue raises.
Busy(c) ==
  /\ pc[c] \in {"open", "resequence", "reindex", "begin"} /\ lock # Free
  /\ Fault
  /\ IF pc[c] # "begin"
     THEN Go(c, "begin") /\ UNCHANGED <<reply, tries>>
     ELSE IF req[c].op = "enqueue" /\ tries[c] + 1 < MaxTries
     THEN /\ tries' = [tries EXCEPT ![c] = @ + 1]
          /\ Go(c, IF Engine = "python" THEN "open" ELSE "begin")
          /\ UNCHANGED reply
     ELSE Answer(c, Error) /\ Go(c, "return") /\ UNCHANGED tries
  /\ UNCHANGED <<table, indexed, lock, req, new>>

\* The process is killed; SQLite forgets its open transaction.
Kill(c) ==
  /\ pc[c] # "idle"
  /\ Fault
  /\ lock' = IF lock = c THEN Free ELSE lock
  /\ req' = [req EXCEPT ![c] = NoCall]
  /\ new' = [new EXCEPT ![c] = <<>>]
  /\ Answer(c, NoReply)
  /\ Go(c, "idle")
  /\ UNCHANGED <<table, indexed, tries>>

Proceed(c) ==
  \/ Index(c) \/ Resequence(c) \/ Reindex(c) \/ Begin(c)
  \/ DecideEnqueue(c) \/ DecideDequeue(c) \/ Commit(c) \/ Return(c)

Next == \E c \in Clients : (\E r \in Calls : Call(c, r)) \/ Proceed(c) \/ Busy(c) \/ Kill(c)

Spec == Init /\ [][Next]_vars

\* Every client dequeues again and again, nobody stops it, and SQLite's busy handler, which
\* polls, gets the lock in the end.
FairSpec ==
  Spec /\ \A c \in Clients :
    /\ SF_vars(Call(c, DequeueCall)) /\ WF_vars(Proceed(c))
    /\ SF_vars(Index(c)) /\ SF_vars(Resequence(c)) /\ SF_vars(Reindex(c)) /\ SF_vars(Begin(c))

-----------------------------------------------------------------------------
(* Properties. *)

\* Once the index exists no enqueue collides with it, so its retry on a collision is never
\* needed: MAX + 1 and the insert are one transaction.
IndexHolds == indexed => Unique(table)

\* A row stays, with its owner; and the sequence that enqueue returned as the admission's
\* identity does not change once the index exists: not when the item is enqueued again, and not
\* by the UPDATE of a process that met the duplicates before another one built the index.
KeepsRows(t, u, fixed) ==
  \A k \in DOMAIN t :
    /\ k \in DOMAIN u /\ u[k].id = t[k].id /\ u[k].owner = t[k].owner
    /\ fixed => u[k].seq = t[k].seq
RowsKept == [][KeepsRows(table, table', indexed)]_vars

\* Whatever the interleaving, a dequeue hands out the pending item that is first in line
\* at that moment: an item goes out once for each time it was admitted, and in order.
HandsOutHead(c) ==
  (pc[c] = "commit" /\ pc'[c] = "return" /\ reply'[c].kind = "item") =>
    \E k \in Heads(table) : table[k].id = reply'[c].id /\ table' = [table EXCEPT ![k].status = "running"]
HandedOutInOrder == [][\A c \in Clients : HandsOutHead(c)]_vars

\* "resequence them order-preserving": of two rows, the one with the smaller sequence is not
\* overtaken, although the pass may leave duplicates.  It does not hold of every table that
\* old builds can have left.
KeepsOrder(t, u) == \A j, k \in DOMAIN t : t[j].seq < t[k].seq => u[j].seq <= u[k].seq
OrderKept == [][KeepsOrder(table, table')]_vars

\* An old table gets its unique index, by repeated opening.
EventuallyIndexed == <>indexed
=============================================================================
