-------------------------------- MODULE Ledger --------------------------------
(***************************************************************************)
(* The durable work ledger: a file of events, one a line, that is folded   *)
(* into the latest entry of every work item by whoever opens it.  A call   *)
(* takes the lock, folds the file, appends one event and lets go; a        *)
(* process may be killed, and an append cut short, at any point.  It is    *)
(* checked and proved to implement WorkItems.                              *)
(*                                                                         *)
(* Left out: the clock, and ready_to_retry, which reads the entries and    *)
(* compares the stored time of a retry with it.                            *)
(***************************************************************************)
EXTENDS Integers, Sequences, FiniteSets

CONSTANTS
  Clerks,        \* processes
  WorkIds,
  WorkOwners,
  AttemptLimits, \* what max_attempts may be
  MaxLines       \* bound: lines in the file

ASSUME LedgerSizes == AttemptLimits \subseteq Nat

VARIABLES
  lines,         \* the events; Torn for a line that is not one
  newline,       \* the last line is terminated
  lock,          \* who holds it: readers, or one that writes
  calls          \* what each process is doing

ledgerVars == <<lines, newline, lock, calls>>

Torn == [status |-> "torn"]
Good(i) == lines[i] # Torn
WorkStatuses == {"queued", "running", "retry_wait", "succeeded", "dead"}
NoCall == [at |-> "idle"]
\* Of an item that nobody has enqueued.
NoEntry == [status |-> "none"]

\* The fold; it is an error when a line is no event.
Unreadable == \E i \in DOMAIN lines : ~Good(i)
EventsOf(id) == {i \in DOMAIN lines : Good(i) /\ lines[i].id = id}
Latest(id) == lines[CHOOSE i \in EventsOf(id) : \A j \in EventsOf(id) : j <= i]

LedgerInit ==
  /\ lines = <<>>
  /\ newline = TRUE
  /\ lock = {}
  /\ calls = [c \in Clerks |-> NoCall]

\* parted: the prompt or the reason holds a character that ends a line for who reads the file
\* (U+0085, U+2028, U+2029) and that is written as it is.
LedgerRequests ==
  [op : {"enqueue"}, id : WorkIds, owner : WorkOwners, limit : AttemptLimits, parted : BOOLEAN]
    \cup [op : {"finish", "fail", "fail_for_good"}, id : WorkIds, parted : BOOLEAN]
    \cup [op : {"start", "latest"}, id : WorkIds, parted : {FALSE}]

Become(c, call) == calls' = [calls EXCEPT ![c] = call]

Ask ==
  /\ \E c \in Clerks, r \in LedgerRequests :
       calls[c].at = "idle" /\ Become(c, [at |-> "lock", request |-> r])
  /\ UNCHANGED <<lines, newline, lock>>

Reads(c) == calls[c].at \in {"lock", "fold"} /\ calls[c].request.op = "latest"

BugFlock(c) == lock' = lock \cup {c}
Flock(c) ==
  /\ IF Reads(c) THEN \A d \in lock : Reads(d) ELSE lock = {}
  /\ lock' = lock \cup {c}

TakeLock ==
  /\ \E c \in Clerks :
       /\ calls[c].at = "lock"
       /\ Flock(c)
       /\ Become(c, [calls[c] EXCEPT !.at = "fold"])
  /\ UNCHANGED <<lines, newline>>

\* The event that a request appends to what it finds.
NextEvent(r) ==
  IF r.op = "enqueue"
  THEN [id |-> r.id, status |-> "queued", attempt |-> 0, limit |-> r.limit, owner |-> r.owner]
  ELSE LET e == Latest(r.id)
           retry == r.op = "fail" /\ e.attempt < e.limit
       IN  [e EXCEPT
              !.attempt = IF r.op = "start" THEN e.attempt + 1 ELSE e.attempt,
              !.status = CASE r.op = "start" -> "running"
                           [] r.op = "finish" -> "succeeded"
                           [] retry -> "retry_wait"
                           [] OTHER -> "dead"]

\* What will be read of it: no event, when the text parts the line in two.
LineOf(r) == IF r.parted THEN Torn ELSE NextEvent(r)

\* An unreadable ledger, another owner's item, an item nobody has enqueued; or nothing to write.
NoEvent(r) ==
  \/ Unreadable
  \/ r.op = "latest"
  \/ r.op = "enqueue" /\ EventsOf(r.id) # {} /\ Latest(r.id).owner # r.owner
  \/ r.op # "enqueue" /\ EventsOf(r.id) = {}

Fold ==
  /\ \E c \in Clerks :
       /\ calls[c].at = "fold"
       /\ IF NoEvent(calls[c].request)
          THEN /\ Become(c, NoCall)
               /\ lock' = lock \ {c}
          ELSE /\ Len(lines) < MaxLines
               /\ Become(c, [at |-> "append", line |-> LineOf(calls[c].request)])
               /\ UNCHANGED lock
  /\ UNCHANGED <<lines, newline>>

\* An event behind a line without its newline makes one line of the two, which is no event.
Put(line) ==
  lines' = (IF newline THEN Append(lines, line)
            ELSE Append(SubSeq(lines, 1, Len(lines) - 1), Torn))

AppendEvent ==
  /\ \E c \in Clerks :
       /\ calls[c].at = "append"
       /\ Put(calls[c].line)
       /\ newline' = TRUE
       /\ lock' = lock \ {c}
       /\ Become(c, NoCall)

\* The disk is full, or the process is killed, with nothing, a part or all of the line in the
\* file.  Whoever is gone has let go of the lock.
ClerkFails ==
  /\ \E c \in Clerks :
       /\ calls[c].at # "idle"
       /\ Become(c, NoCall)
       /\ lock' = lock \ {c}
       /\ \/ UNCHANGED <<lines, newline>>
          \/ /\ calls[c].at = "append"
             /\ \/ Put(Torn) /\ newline' = FALSE
                \/ Put(calls[c].line) /\ newline' \in BOOLEAN

LedgerNext == Ask \/ TakeLock \/ Fold \/ AppendEvent \/ ClerkFails
LedgerSpec == LedgerInit /\ [][LedgerNext]_ledgerVars

-----------------------------------------------------------------------------
Entries ==
  [id : WorkIds, status : WorkStatuses, attempt : Nat, limit : AttemptLimits, owner : WorkOwners]

LedgerTypeOK ==
  /\ lines \in Seq(Entries \cup {Torn})
  /\ newline \in BOOLEAN
  /\ lock \subseteq Clerks
  /\ DOMAIN calls = Clerks
  /\ \A c \in Clerks :
       \/ calls[c] = NoCall
       \/ calls[c] \in [at : {"lock", "fold"}, request : LedgerRequests]
       \/ calls[c] \in [at : {"append"}, line : Entries \cup {Torn}]

\* What a call that folds the file now would find.
LatestEntries == [id \in WorkIds |-> IF Unreadable \/ EventsOf(id) = {} THEN NoEntry ELSE Latest(id)]
EventCount == IF Unreadable THEN 0 ELSE Len(lines)

I == INSTANCE WorkItems WITH
  entries <- LatestEntries,
  events <- EventCount,
  readable <- ~Unreadable

\* However many processes use the ledger and are killed, its operations take effect one after
\* the other, each on the entry that the one before it has left: no start is lost, no attempt
\* counted twice, no item taken over; and a broken ledger is broken for good.
LedgerImplements == I!ItemsSpec
=============================================================================
