------------------------------ MODULE WorkItems ------------------------------
(***************************************************************************)
(* What the work ledger promises: the latest entry of every work item, and *)
(* operations that change one entry at once, each seeing all those before  *)
(* it.  Ledger, with its file, its lock and its appends that are cut short,*)
(* is checked and proved to implement this.                                *)
(***************************************************************************)
EXTENDS Integers

CONSTANTS
  WorkIds,
  WorkOwners,
  AttemptLimits

VARIABLES
  entries,     \* the latest entry of each item
  events,      \* how many there were
  readable     \* FALSE once the ledger is broken, and then for good

itemVars == <<entries, events, readable>>

NoEntry == [status |-> "none"]
Known(id) == entries[id] # NoEntry

ItemsInit ==
  /\ entries = [id \in WorkIds |-> NoEntry]
  /\ events = 0
  /\ readable = TRUE

Record(id, entry) ==
  /\ entries' = [entries EXCEPT ![id] = entry]
  /\ events' = events + 1
  /\ UNCHANGED readable

\* Only its owner enqueues an item again, whatever has become of it, with all attempts left.
Enqueue(id, owner, limit) ==
  /\ Known(id) => entries[id].owner = owner
  /\ Record(id, [id |-> id, status |-> "queued", attempt |-> 0, limit |-> limit, owner |-> owner])

StartItem(id) ==
  /\ Known(id)
  /\ Record(id, [entries[id] EXCEPT !.status = "running", !.attempt = entries[id].attempt + 1])

FinishItem(id) ==
  /\ Known(id)
  /\ Record(id, [entries[id] EXCEPT !.status = "succeeded"])

\* There is a retry when the failure allows it and attempts are left.
FailItem(id) ==
  /\ Known(id)
  /\ \/ Record(id, [entries[id] EXCEPT !.status = "dead"])
     \/ /\ entries[id].attempt < entries[id].limit
        /\ Record(id, [entries[id] EXCEPT !.status = "retry_wait"])

\* An append that was cut short, or whose text parts the line, leaves one that nobody can read.
Break ==
  /\ readable' = FALSE
  /\ entries' = [id \in WorkIds |-> NoEntry]
  /\ events' = 0

ItemsNext ==
  \/ readable /\ \E id \in WorkIds :
       \/ \E owner \in WorkOwners, limit \in AttemptLimits : Enqueue(id, owner, limit)
       \/ StartItem(id) \/ FinishItem(id) \/ FailItem(id)
  \/ Break

ItemsSpec == ItemsInit /\ [][ItemsNext]_itemVars
=============================================================================
