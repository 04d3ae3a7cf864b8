----------------------------- MODULE LedgerProofs -----------------------------
(***************************************************************************)
(* Theorems about Ledger for any processes, work items and owners: its     *)
(* types, and that it implements WorkItems.  What is appended was computed *)
(* from the file as it is now, because a writer has the lock for itself    *)
(* from the fold to the end of the append.                                 *)
(***************************************************************************)
EXTENDS Ledger, SequenceTheorems, TLAPS

Writes(c) ==
  \/ calls[c].at = "append"
  \/ calls[c].at = "fold" /\ calls[c].request.op # "latest"

\* A writer has the lock for itself, a reader holds it with others.
Locked ==
  \A c \in Clerks :
    /\ Writes(c) => lock = {c}
    /\ calls[c].at = "fold" => c \in lock

\* What is about to be appended follows from the file as it is.
UpToDate ==
  \A c \in Clerks : calls[c].at = "append" =>
    /\ ~Unreadable
    /\ \E r \in LedgerRequests : ~NoEvent(r) /\ calls[c].line = LineOf(r)

\* An item with events has a last one.
HasLatest ==
  \A id \in WorkIds : EventsOf(id) # {} => \E i \in EventsOf(id) : \A j \in EventsOf(id) : j <= i

LedgerInv == LedgerTypeOK /\ Locked /\ UpToDate /\ (~Unreadable => HasLatest)

-----------------------------------------------------------------------------
(* Lines and entries. *)

LEMMA TornIsNoEntry == Torn \notin Entries /\ NoEntry \notin Entries
<1>1. \A e \in Entries : e.status \in WorkStatuses
  BY DEF Entries
<1>2. "torn" \notin WorkStatuses /\ "none" \notin WorkStatuses
  BY DEF WorkStatuses
<1>3. Torn.status = "torn" /\ NoEntry.status = "none"
  BY DEF Torn, NoEntry
<1>4. QED
  BY <1>1, <1>2, <1>3

LEMMA LineTypes ==
  ASSUME LedgerTypeOK
  PROVE  /\ Len(lines) \in Nat /\ DOMAIN lines = 1 .. Len(lines)
         /\ \A i \in DOMAIN lines : lines[i] \in Entries \cup {Torn}
         /\ \A id : EventsOf(id) \subseteq 1 .. Len(lines)
<1>1. Len(lines) \in Nat /\ DOMAIN lines = 1 .. Len(lines)
  BY LenProperties DEF LedgerTypeOK
<1>2. \A i \in DOMAIN lines : lines[i] \in Entries \cup {Torn}
  BY <1>1, ElementOfSeq DEF LedgerTypeOK
<1>3. QED
  BY <1>1, <1>2 DEF EventsOf

\* The latest entry of an item is one of its events.
LEMMA LatestEvent ==
  ASSUME LedgerTypeOK, HasLatest, NEW id \in WorkIds, EventsOf(id) # {}
  PROVE  /\ Latest(id) \in Entries /\ Latest(id).id = id
         /\ \E i \in EventsOf(id) :
              /\ i = CHOOSE k \in EventsOf(id) : \A j \in EventsOf(id) : j <= k
              /\ \A j \in EventsOf(id) : j <= i
              /\ Latest(id) = lines[i]
<1>. DEFINE last == CHOOSE k \in EventsOf(id) : \A j \in EventsOf(id) : j <= k
<1>1. last \in EventsOf(id) /\ \A j \in EventsOf(id) : j <= last
  BY DEF HasLatest
<1>2. Latest(id) = lines[last]
  BY DEF Latest
<1>. HIDE DEF last
<1>3. lines[last] \in Entries /\ lines[last].id = id
  BY <1>1, LineTypes DEF EventsOf, Good
<1>4. QED
  BY <1>1, <1>2, <1>3 DEF last

\* What a request appends is an event of its item.
LEMMA NextEventType ==
  ASSUME LedgerTypeOK, HasLatest, NEW r \in LedgerRequests, ~NoEvent(r)
  PROVE  NextEvent(r) \in Entries /\ NextEvent(r).id = r.id /\ r.id \in WorkIds
<1>1. r.id \in WorkIds /\ r.op \in {"enqueue", "start", "finish", "fail", "fail_for_good"}
  BY DEF LedgerRequests, NoEvent
<1>2. CASE r.op = "enqueue"
  <2>1. r.owner \in WorkOwners /\ r.limit \in AttemptLimits
    BY <1>2 DEF LedgerRequests
  <2>2. "queued" \in WorkStatuses /\ 0 \in Nat
    BY DEF WorkStatuses
  <2>3. NextEvent(r) = [id |-> r.id, status |-> "queued", attempt |-> 0, limit |-> r.limit, owner |-> r.owner]
    BY <1>2 DEF NextEvent
  <2>4. QED
    BY <1>1, <2>1, <2>2, <2>3 DEF Entries
<1>3. CASE r.op # "enqueue"
  <2>. DEFINE e == Latest(r.id)
              attempt == IF r.op = "start" THEN e.attempt + 1 ELSE e.attempt
              status == CASE r.op = "start" -> "running"
                          [] r.op = "finish" -> "succeeded"
                          [] r.op = "fail" /\ e.attempt < e.limit -> "retry_wait"
                          [] OTHER -> "dead"
  <2>1. e \in Entries /\ e.id = r.id
    BY <1>1, <1>3, LatestEvent DEF NoEvent
  <2>2. NextEvent(r) = [e EXCEPT !.attempt = attempt, !.status = status]
    BY <1>3 DEF NextEvent
  <2>3. attempt \in Nat
    BY <2>1 DEF Entries
  <2>4. status \in WorkStatuses
    BY <1>1, <1>3 DEF WorkStatuses
  <2>. HIDE DEF e, attempt, status
  <2>5. QED
    BY <2>1, <2>2, <2>3, <2>4 DEF Entries
<1>4. QED
  BY <1>2, <1>3

\* A whole line behind whole lines is the latest entry of its item, and changes no other.
LEMMA GoodLine ==
  ASSUME LedgerTypeOK, ~Unreadable, HasLatest, NEW e \in Entries, lines' = Append(lines, e)
  PROVE  /\ lines' \in Seq(Entries \cup {Torn})
         /\ ~Unreadable' /\ HasLatest'
         /\ EventCount' = EventCount + 1
         /\ LatestEntries' = [LatestEntries EXCEPT ![e.id] = e]
<1>. DEFINE n == Len(lines)
<1>1. /\ n \in Nat /\ DOMAIN lines = 1 .. n
      /\ lines' \in Seq(Entries \cup {Torn})
      /\ Len(lines') = n + 1 /\ DOMAIN lines' = 1 .. n + 1
      /\ \A i \in 1 .. n : lines'[i] = lines[i]
      /\ lines'[n + 1] = e
  <2>1. lines \in Seq(Entries \cup {Torn}) /\ e \in Entries \cup {Torn}
    BY DEF LedgerTypeOK
  <2>2. QED
    BY <2>1, LineTypes, AppendProperties, LenProperties
<1>2. e.id \in WorkIds /\ e # Torn
  BY TornIsNoEntry DEF Entries
<1>. HIDE DEF n
<1>3. \A i \in 1 .. n : lines[i] # Torn
  BY <1>1 DEF Unreadable, Good
<1>4. \A i \in 1 .. n + 1 : i \in 1 .. n \/ i = n + 1
  BY <1>1
<1>5. ~Unreadable'
  BY <1>1, <1>2, <1>3, <1>4 DEF Unreadable, Good
<1>6. EventsOf(e.id)' = EventsOf(e.id) \cup {n + 1}
  BY <1>1, <1>2, <1>4 DEF EventsOf, Good
<1>7. \A id \in WorkIds \ {e.id} : EventsOf(id)' = EventsOf(id)
  BY <1>1, <1>2, <1>4 DEF EventsOf, Good
<1>8. \A id : EventsOf(id) \subseteq 1 .. n
  BY <1>1 DEF EventsOf
<1>9. n + 1 \in EventsOf(e.id)' /\ \A j \in EventsOf(e.id)' : j <= n + 1
  <2>1. \A j \in 1 .. n : j <= n + 1
    BY <1>1
  <2>2. QED
    BY <1>1, <1>6, <1>8, <2>1
<1>10. HasLatest'
  <2>1. SUFFICES ASSUME NEW id \in WorkIds, EventsOf(id)' # {}
                 PROVE  \E i \in EventsOf(id)' : \A j \in EventsOf(id)' : j <= i
    BY DEF HasLatest
  <2>2. CASE id = e.id
    BY <1>9, <2>2
  <2>3. CASE id # e.id
    BY <1>7, <2>1, <2>3 DEF HasLatest
  <2>4. QED
    BY <2>2, <2>3
<1>11. Latest(e.id)' = e
  <2>1. ASSUME NEW k \in EventsOf(e.id)', \A j \in EventsOf(e.id)' : j <= k PROVE k = n + 1
    <3>1. n + 1 <= k /\ k \in 1 .. n + 1
      BY <1>1, <1>6, <1>8, <1>9, <2>1
    <3>2. QED
      BY <1>1, <3>1
  <2>2. (CHOOSE k \in EventsOf(e.id)' : \A j \in EventsOf(e.id)' : j <= k) = n + 1
    BY <1>9, <2>1
  <2>3. QED
    BY <1>1, <2>2 DEF Latest
<1>12. ASSUME NEW id \in WorkIds, id # e.id, EventsOf(id) # {} PROVE Latest(id)' = Latest(id)
  <2>1. PICK i \in EventsOf(id) : i = CHOOSE k \in EventsOf(id) : \A j \in EventsOf(id) : j <= k
    BY <1>12, LatestEvent
  <2>2. EventsOf(id)' = EventsOf(id)
    BY <1>7, <1>12
  <2>3. lines'[i] = lines[i]
    BY <1>1, <1>8
  <2>4. Latest(id) = lines[i]
    BY <2>1 DEF Latest
  <2>5. Latest(id)' = lines'[CHOOSE k \in EventsOf(id)' : \A j \in EventsOf(id)' : j <= k]
    BY DEF Latest
  <2>6. QED
    BY <2>1, <2>2, <2>3, <2>4, <2>5
<1>13. LatestEntries' = [LatestEntries EXCEPT ![e.id] = e]
  <2>1. LatestEntries' = [id \in WorkIds |-> IF EventsOf(id)' = {} THEN NoEntry ELSE Latest(id)']
    BY <1>5 DEF LatestEntries
  <2>2. LatestEntries = [id \in WorkIds |-> IF EventsOf(id) = {} THEN NoEntry ELSE Latest(id)]
    BY DEF LatestEntries
  <2>3. ASSUME NEW id \in WorkIds PROVE LatestEntries'[id] = [LatestEntries EXCEPT ![e.id] = e][id]
    <3>1. CASE id = e.id
      BY <1>9, <1>11, <2>1, <2>2, <3>1
    <3>2. CASE id # e.id
      BY <1>7, <1>12, <2>1, <2>2, <3>2
    <3>3. QED
      BY <3>1, <3>2
  <2>4. QED
    BY <2>1, <2>2, <2>3
<1>14. EventCount' = EventCount + 1
  BY <1>1, <1>5 DEF EventCount, n
<1>15. QED
  BY <1>1, <1>5, <1>10, <1>13, <1>14

\* A line that is none breaks the ledger.
LEMMA TornLine ==
  ASSUME LedgerTypeOK, NEW s \in Seq(Entries \cup {Torn}), lines' = Append(s, Torn)
  PROVE  /\ lines' \in Seq(Entries \cup {Torn})
         /\ Unreadable'
         /\ EventCount' = 0
         /\ LatestEntries' = [id \in WorkIds |-> NoEntry]
<1>1. Torn \in Entries \cup {Torn}
  OBVIOUS
<1>2. /\ lines' \in Seq(Entries \cup {Torn})
      /\ Len(lines') = Len(s) + 1 /\ lines'[Len(s) + 1] = Torn /\ Len(s) \in Nat
  BY <1>1, AppendProperties, LenProperties
<1>3. Len(s) + 1 \in DOMAIN lines'
  BY <1>2, LenProperties
<1>4. Unreadable'
  BY <1>2, <1>3 DEF Unreadable, Good
<1>5. QED
  BY <1>2, <1>4 DEF EventCount, LatestEntries

\* All but the last line.
LEMMA FrontLines ==
  ASSUME LedgerTypeOK
  PROVE  SubSeq(lines, 1, Len(lines) - 1) \in Seq(Entries \cup {Torn})
<1>1. \A i \in 1 .. Len(lines) - 1 : lines[i] \in Entries \cup {Torn}
  BY LineTypes
<1>2. 1 \in Int /\ Len(lines) - 1 \in Int
  BY LineTypes
<1>3. QED
  BY <1>1, <1>2, SubSeqProperties

\* An append either adds its event or breaks the ledger.
LEMMA PutLine ==
  ASSUME LedgerTypeOK, ~Unreadable, HasLatest, NEW e \in Entries \cup {Torn}, Put(e)
  PROVE  /\ lines' \in Seq(Entries \cup {Torn})
         /\ \/ /\ e # Torn /\ ~Unreadable' /\ HasLatest'
               /\ EventCount' = EventCount + 1
               /\ LatestEntries' = [LatestEntries EXCEPT ![e.id] = e]
            \/ /\ Unreadable' /\ EventCount' = 0
               /\ LatestEntries' = [id \in WorkIds |-> NoEntry]
<1>1. CASE newline /\ e # Torn
  BY <1>1, GoodLine DEF Put
<1>2. CASE newline /\ e = Torn
  BY <1>2, TornLine DEF Put, LedgerTypeOK
<1>3. CASE ~newline
  BY <1>3, FrontLines, TornLine DEF Put
<1>4. QED
  BY <1>1, <1>2, <1>3

-----------------------------------------------------------------------------
(* Every step keeps the invariant, and is one of WorkItems or none. *)

\* What a step must show.
Fine == LedgerInv' /\ (I!ItemsNext \/ UNCHANGED <<LatestEntries, EventCount, Unreadable>>)

\* The operation of WorkItems that an appended event is.
LEMMA EventMaps ==
  ASSUME LedgerTypeOK, HasLatest, ~Unreadable, NEW r \in LedgerRequests, ~NoEvent(r),
         EventCount' = EventCount + 1, ~Unreadable',
         LatestEntries' = [LatestEntries EXCEPT ![NextEvent(r).id] = NextEvent(r)]
  PROVE  I!ItemsNext
<1>. DEFINE id == r.id
            e == LatestEntries[r.id]
            ev == NextEvent(r)
<1>1. /\ id \in WorkIds /\ ev.id = id
      /\ r.op \in {"enqueue", "start", "finish", "fail", "fail_for_good"}
  BY NextEventType DEF LedgerRequests, NoEvent
<1>2. e = IF EventsOf(id) = {} THEN NoEntry ELSE Latest(id)
  BY <1>1 DEF LatestEntries
<1>3. I!Record(id, ev)
  BY <1>1 DEF I!Record
<1>4. CASE r.op = "enqueue"
  <2>1. r.owner \in WorkOwners /\ r.limit \in AttemptLimits
    BY <1>4 DEF LedgerRequests
  <2>2. ev = [id |-> id, status |-> "queued", attempt |-> 0, limit |-> r.limit, owner |-> r.owner]
    BY <1>4 DEF NextEvent
  <2>3. I!Known(id) => e.owner = r.owner
    BY <1>2, <1>4 DEF I!Known, I!NoEntry, NoEntry, NoEvent
  <2>4. I!Enqueue(id, r.owner, r.limit)
    BY <1>3, <2>2, <2>3 DEF I!Enqueue
  <2>5. QED
    BY <1>1, <2>1, <2>4 DEF I!ItemsNext
<1>5. CASE r.op # "enqueue"
  <2>1. EventsOf(id) # {}
    BY <1>5 DEF NoEvent
  <2>2. e = Latest(id) /\ e \in Entries
    BY <1>1, <1>2, <2>1, LatestEvent
  <2>3. I!Known(id)
    BY <2>2, TornIsNoEntry DEF I!Known, I!NoEntry, NoEntry
  <2>4. CASE r.op = "start"
    <3>1. ev = [e EXCEPT !.attempt = e.attempt + 1, !.status = "running"]
      BY <2>2, <2>4 DEF NextEvent
    <3>2. ev = [e EXCEPT !.status = "running", !.attempt = e.attempt + 1]
      BY <2>2, <3>1 DEF Entries
    <3>3. I!StartItem(id)
      BY <1>3, <2>3, <3>2 DEF I!StartItem
    <3>4. QED
      BY <1>1, <3>3 DEF I!ItemsNext
  <2>5. CASE r.op = "finish"
    <3>1. ev = [e EXCEPT !.attempt = e.attempt, !.status = "succeeded"]
      BY <2>2, <2>5 DEF NextEvent
    <3>2. ev = [e EXCEPT !.status = "succeeded"]
      BY <2>2, <3>1 DEF Entries
    <3>3. I!FinishItem(id)
      BY <1>3, <2>3, <3>2 DEF I!FinishItem
    <3>4. QED
      BY <1>1, <3>3 DEF I!ItemsNext
  <2>6. CASE r.op \in {"fail", "fail_for_good"}
    <3>1. CASE r.op = "fail" /\ e.attempt < e.limit
      <4>1. ev = [e EXCEPT !.attempt = e.attempt, !.status = "retry_wait"]
        BY <2>2, <3>1 DEF NextEvent
      <4>2. ev = [e EXCEPT !.status = "retry_wait"]
        BY <2>2, <4>1 DEF Entries
      <4>3. I!FailItem(id)
        BY <1>3, <2>3, <3>1, <4>2 DEF I!FailItem
      <4>4. QED
        BY <1>1, <4>3 DEF I!ItemsNext
    <3>2. CASE ~(r.op = "fail" /\ e.attempt < e.limit)
      <4>1. ev = [e EXCEPT !.attempt = e.attempt, !.status = "dead"]
        BY <2>2, <2>6, <3>2 DEF NextEvent
      <4>2. ev = [e EXCEPT !.status = "dead"]
        BY <2>2, <4>1 DEF Entries
      <4>3. I!FailItem(id)
        BY <1>3, <2>3, <4>2 DEF I!FailItem
      <4>4. QED
        BY <1>1, <4>3 DEF I!ItemsNext
    <3>3. QED
      BY <3>1, <3>2
  <2>7. QED
    BY <1>1, <1>5, <2>4, <2>5, <2>6
<1>6. QED
  BY <1>4, <1>5

\* A step that leaves the file alone leaves everything that is read from it.
LEMMA SameLines ==
  ASSUME lines' = lines
  PROVE  /\ Unreadable' <=> Unreadable
         /\ HasLatest => HasLatest'
         /\ \A r : NoEvent(r)' <=> NoEvent(r)
         /\ \A r : LineOf(r)' = LineOf(r)
         /\ UNCHANGED <<LatestEntries, EventCount, Unreadable>>
<1>1. \A id : EventsOf(id)' = EventsOf(id) /\ Latest(id)' = Latest(id)
  BY DEF EventsOf, Latest, Good
<1>2. UNCHANGED Unreadable
  BY DEF Unreadable, Good
<1>3. HasLatest => HasLatest'
  BY <1>1 DEF HasLatest
<1>4. \A r : NoEvent(r)' <=> NoEvent(r)
  BY <1>1, <1>2 DEF NoEvent
<1>5. \A r : LineOf(r)' = LineOf(r)
  BY <1>1 DEF NextEvent, LineOf
<1>6. UNCHANGED <<LatestEntries, EventCount>>
  BY <1>1, <1>2 DEF LatestEntries, EventCount
<1>7. QED
  BY <1>2, <1>3, <1>4, <1>5, <1>6

\* A step of one process leaves the calls of the others alone.
LEMMA OneCall ==
  ASSUME LedgerTypeOK, NEW c \in Clerks, NEW v, Become(c, v)
  PROVE  /\ DOMAIN calls' = Clerks /\ calls'[c] = v
         /\ \A d \in Clerks \ {c} : calls'[d] = calls[d] /\ (Writes(d)' <=> Writes(d))
<1>1. /\ DOMAIN calls' = Clerks /\ calls'[c] = v
      /\ \A d \in Clerks \ {c} : calls'[d] = calls[d]
  BY DEF Become, LedgerTypeOK
<1>2. \A d \in Clerks \ {c} : Writes(d)' <=> Writes(d)
  BY <1>1 DEF Writes
<1>3. QED
  BY <1>1, <1>2

LEMMA AskFine == ASSUME LedgerInv, Ask PROVE Fine
<1>1. PICK c \in Clerks, r \in LedgerRequests :
        calls[c].at = "idle" /\ Become(c, [at |-> "lock", request |-> r])
  BY DEF Ask
<1>2. lines' = lines /\ newline' = newline /\ lock' = lock
  BY DEF Ask
<1>3. /\ DOMAIN calls' = Clerks /\ calls'[c] = [at |-> "lock", request |-> r]
      /\ \A d \in Clerks \ {c} : calls'[d] = calls[d] /\ (Writes(d)' <=> Writes(d))
  BY <1>1, OneCall DEF LedgerInv
<1>4. LedgerTypeOK'
  BY <1>2, <1>3 DEF LedgerInv, LedgerTypeOK
<1>5. ~Writes(c)' /\ calls'[c].at = "lock"
  BY <1>3 DEF Writes
<1>6. Locked'
  BY <1>2, <1>3, <1>5 DEF LedgerInv, Locked
<1>7. UpToDate'
  <2>1. SUFFICES ASSUME NEW d \in Clerks, calls'[d].at = "append"
                 PROVE  /\ ~Unreadable'
                        /\ \E q \in LedgerRequests : ~NoEvent(q)' /\ calls'[d].line = LineOf(q)'
    BY DEF UpToDate
  <2>2. d # c /\ calls'[d] = calls[d]
    BY <1>3, <1>5, <2>1
  <2>3. QED
    BY <1>2, <2>1, <2>2, SameLines DEF LedgerInv, UpToDate
<1>8. QED
  BY <1>2, <1>4, <1>6, <1>7, SameLines DEF Fine, LedgerInv

\* Nobody gets the lock while a writer has it.
LEMMA TakeLockFine == ASSUME LedgerInv, TakeLock PROVE Fine
<1>1. PICK c \in Clerks : calls[c].at = "lock" /\ Flock(c) /\ Become(c, [calls[c] EXCEPT !.at = "fold"])
  BY DEF TakeLock
<1>2. lines' = lines /\ newline' = newline /\ lock' = lock \cup {c}
  BY <1>1 DEF TakeLock, Flock
<1>3. /\ DOMAIN calls' = Clerks /\ calls'[c] = [calls[c] EXCEPT !.at = "fold"]
      /\ \A d \in Clerks \ {c} : calls'[d] = calls[d] /\ (Writes(d)' <=> Writes(d))
  BY <1>1, OneCall DEF LedgerInv
<1>4. calls[c] \in [at : {"lock", "fold"}, request : LedgerRequests]
  BY <1>1 DEF LedgerInv, LedgerTypeOK, NoCall
<1>5. /\ calls'[c] \in [at : {"lock", "fold"}, request : LedgerRequests]
      /\ calls'[c].at = "fold" /\ calls'[c].request = calls[c].request
  BY <1>3, <1>4
<1>6. LedgerTypeOK'
  BY <1>2, <1>3, <1>5 DEF LedgerInv, LedgerTypeOK
<1>7. Locked'
  <2>1. SUFFICES ASSUME NEW d \in Clerks
                 PROVE  (Writes(d)' => lock' = {d}) /\ (calls'[d].at = "fold" => d \in lock')
    BY DEF Locked
  <2>2. CASE d = c
    <3>1. ASSUME Writes(c)' PROVE lock = {}
      <4>1. calls[c].request.op # "latest"
        BY <1>5, <3>1 DEF Writes
      <4>2. QED
        BY <1>1, <4>1 DEF Flock, Reads
    <3>2. QED
      BY <1>2, <2>2, <3>1
  <2>3. CASE d # c
    <3>1. ~Writes(d)
      <4>1. SUFFICES ASSUME Writes(d) PROVE FALSE
        OBVIOUS
      <4>2. lock = {d}
        BY <4>1 DEF LedgerInv, Locked
      <4>3. Reads(d)
        BY <1>1, <4>2 DEF Flock
      <4>4. QED
        BY <4>1, <4>3 DEF Writes, Reads
    <3>2. QED
      BY <1>2, <1>3, <2>3, <3>1 DEF LedgerInv, Locked
  <2>4. QED
    BY <2>2, <2>3
<1>8. UpToDate'
  <2>1. SUFFICES ASSUME NEW d \in Clerks, calls'[d].at = "append"
                 PROVE  /\ ~Unreadable'
                        /\ \E q \in LedgerRequests : ~NoEvent(q)' /\ calls'[d].line = LineOf(q)'
    BY DEF UpToDate
  <2>2. d # c /\ calls'[d] = calls[d]
    BY <1>3, <1>5, <2>1
  <2>3. QED
    BY <1>2, <2>1, <2>2, SameLines DEF LedgerInv, UpToDate
<1>9. QED
  BY <1>2, <1>6, <1>7, <1>8, SameLines DEF Fine, LedgerInv

\* A call that lets go of the lock takes it from nobody else.
LEMMA LetGo ==
  ASSUME LedgerInv, NEW c \in Clerks, Become(c, NoCall), lock' = lock \ {c}
  PROVE  Locked'
<1>1. /\ calls'[c] = NoCall
      /\ \A d \in Clerks \ {c} : calls'[d] = calls[d] /\ (Writes(d)' <=> Writes(d))
  BY OneCall DEF LedgerInv
<1>2. ~Writes(c)' /\ calls'[c].at = "idle"
  BY <1>1 DEF Writes, NoCall
<1>3. \A d \in Clerks \ {c} : (Writes(d) => lock = {d}) /\ (calls[d].at = "fold" => d \in lock)
  BY DEF LedgerInv, Locked
<1>4. QED
  BY <1>1, <1>2, <1>3 DEF Locked

\* The event is computed from the file as it is, by a writer that has the lock.
LEMMA FoldFine == ASSUME LedgerInv, Fold PROVE Fine
<1>1. PICK c \in Clerks :
        /\ calls[c].at = "fold"
        /\ IF NoEvent(calls[c].request)
           THEN Become(c, NoCall) /\ lock' = lock \ {c}
           ELSE /\ Become(c, [at |-> "append", line |-> LineOf(calls[c].request)])
                /\ lock' = lock
  BY DEF Fold
<1>2. lines' = lines /\ newline' = newline
  BY DEF Fold
<1>3. calls[c].request \in LedgerRequests
  BY <1>1 DEF LedgerInv, LedgerTypeOK, NoCall
<1>4. ASSUME NEW v, Become(c, v), NEW d \in Clerks, d # c, calls'[d].at = "append"
      PROVE  /\ ~Unreadable'
             /\ \E q \in LedgerRequests : ~NoEvent(q)' /\ calls'[d].line = LineOf(q)'
  <2>1. calls'[d] = calls[d]
    BY <1>4, OneCall DEF LedgerInv
  <2>2. QED
    BY <1>2, <1>4, <2>1, SameLines DEF LedgerInv, UpToDate
<1>5. CASE NoEvent(calls[c].request)
  <2>1. Become(c, NoCall) /\ lock' = lock \ {c}
    BY <1>1, <1>5
  <2>2. /\ DOMAIN calls' = Clerks /\ calls'[c] = NoCall
        /\ \A d \in Clerks \ {c} : calls'[d] = calls[d]
    BY <2>1, OneCall DEF LedgerInv
  <2>3. LedgerTypeOK'
    BY <1>2, <2>1, <2>2 DEF LedgerInv, LedgerTypeOK
  <2>4. UpToDate'
    <3>1. calls'[c].at # "append"
      BY <2>2 DEF NoCall
    <3>2. QED
      BY <1>4, <2>1, <3>1 DEF UpToDate
  <2>5. QED
    BY <1>2, <2>1, <2>3, <2>4, LetGo, SameLines DEF Fine, LedgerInv
<1>6. CASE ~NoEvent(calls[c].request)
  <2>. DEFINE line == LineOf(calls[c].request)
  <2>1. Become(c, [at |-> "append", line |-> line]) /\ lock' = lock
    BY <1>1, <1>6
  <2>2. /\ DOMAIN calls' = Clerks /\ calls'[c] = [at |-> "append", line |-> line]
        /\ \A d \in Clerks \ {c} : calls'[d] = calls[d] /\ (Writes(d)' <=> Writes(d))
    BY <2>1, OneCall DEF LedgerInv
  <2>3. ~Unreadable /\ calls[c].request.op # "latest"
    BY <1>6 DEF NoEvent
  <2>4. line \in Entries \cup {Torn}
    BY <1>3, <1>6, <2>3, NextEventType DEF LedgerInv, LineOf
  <2>. HIDE DEF line
  <2>5. LedgerTypeOK'
    BY <1>2, <2>1, <2>2, <2>4 DEF LedgerInv, LedgerTypeOK
  <2>6. calls'[c].at = "append" /\ calls'[c].line = line
    BY <2>2
  <2>7. Locked'
    <3>1. lock = {c}
      BY <1>1, <2>3 DEF LedgerInv, Locked, Writes
    <3>2. QED
      BY <2>1, <2>2, <2>6, <3>1 DEF LedgerInv, Locked
  <2>8. UpToDate'
    <3>1. /\ ~Unreadable'
          /\ \E q \in LedgerRequests : ~NoEvent(q)' /\ calls'[c].line = LineOf(q)'
      BY <1>2, <1>3, <1>6, <2>3, <2>6, SameLines DEF line
    <3>2. QED
      BY <1>4, <2>1, <3>1 DEF UpToDate
  <2>9. QED
    BY <1>2, <2>5, <2>7, <2>8, SameLines DEF Fine, LedgerInv
<1>7. QED
  BY <1>5, <1>6

\* A line that is put by the one process that has the lock, and then lets go of it.
LEMMA PutFine ==
  ASSUME LedgerInv, NEW c \in Clerks, calls[c].at = "append", Become(c, NoCall), lock' = lock \ {c},
         NEW e, e = calls[c].line \/ e = Torn, Put(e), newline' \in BOOLEAN
  PROVE  Fine
<1>1. ~Unreadable /\ HasLatest
  BY DEF LedgerInv, UpToDate
<1>2. calls[c].line \in Entries \cup {Torn}
  BY DEF LedgerInv, LedgerTypeOK, NoCall
<1>3. /\ lines' \in Seq(Entries \cup {Torn})
      /\ \/ /\ e # Torn /\ ~Unreadable' /\ HasLatest'
            /\ EventCount' = EventCount + 1
            /\ LatestEntries' = [LatestEntries EXCEPT ![e.id] = e]
         \/ /\ Unreadable' /\ EventCount' = 0
            /\ LatestEntries' = [id \in WorkIds |-> NoEntry]
  <2>1. e \in Entries \cup {Torn}
    BY <1>2
  <2>2. QED
    BY <1>1, <2>1, PutLine DEF LedgerInv
<1>4. /\ DOMAIN calls' = Clerks /\ calls'[c] = NoCall
      /\ \A d \in Clerks \ {c} : calls'[d] = calls[d]
  BY OneCall DEF LedgerInv
<1>5. LedgerTypeOK'
  BY <1>3, <1>4 DEF LedgerInv, LedgerTypeOK
<1>6. Locked'
  BY LetGo
<1>7. UpToDate'
  <2>1. SUFFICES ASSUME NEW d \in Clerks, calls'[d].at = "append" PROVE FALSE
    BY DEF UpToDate
  <2>2. d # c /\ calls'[d] = calls[d]
    BY <1>4, <2>1 DEF NoCall
  <2>3. lock = {c} /\ lock = {d}
    BY <2>1, <2>2 DEF LedgerInv, Locked, Writes
  <2>4. QED
    BY <2>2, <2>3
<1>8. LedgerInv'
  BY <1>3, <1>5, <1>6, <1>7 DEF LedgerInv
<1>9. CASE ~Unreadable'
  <2>1. e # Torn /\ EventCount' = EventCount + 1 /\ LatestEntries' = [LatestEntries EXCEPT ![e.id] = e]
    BY <1>3, <1>9
  <2>2. PICK r \in LedgerRequests : ~NoEvent(r) /\ e = NextEvent(r)
    BY <2>1 DEF LedgerInv, UpToDate, LineOf
  <2>3. I!ItemsNext
    BY <1>1, <1>9, <2>1, <2>2, EventMaps DEF LedgerInv
  <2>4. QED
    BY <1>8, <2>3 DEF Fine
<1>10. CASE Unreadable'
  <2>1. I!Break
    BY <1>3, <1>10 DEF I!Break, I!NoEntry, NoEntry
  <2>2. QED
    BY <1>8, <2>1 DEF Fine, I!ItemsNext
<1>11. QED
  BY <1>9, <1>10

LEMMA AppendEventFine == ASSUME LedgerInv, AppendEvent PROVE Fine
<1>1. PICK c \in Clerks :
        calls[c].at = "append" /\ Put(calls[c].line) /\ newline' = TRUE /\ lock' = lock \ {c} /\ Become(c, NoCall)
  BY DEF AppendEvent
<1>2. QED
  BY <1>1, PutFine

LEMMA ClerkFailsFine == ASSUME LedgerInv, ClerkFails PROVE Fine
<1>1. PICK c \in Clerks :
        /\ calls[c].at # "idle"
        /\ Become(c, NoCall)
        /\ lock' = lock \ {c}
        /\ \/ lines' = lines /\ newline' = newline
           \/ /\ calls[c].at = "append"
              /\ \/ Put(Torn) /\ newline' = FALSE
                 \/ Put(calls[c].line) /\ newline' \in BOOLEAN
  BY DEF ClerkFails
<1>2. CASE lines' = lines /\ newline' = newline
  <2>1. /\ DOMAIN calls' = Clerks /\ calls'[c] = NoCall
        /\ \A d \in Clerks \ {c} : calls'[d] = calls[d]
    BY <1>1, OneCall DEF LedgerInv
  <2>2. LedgerTypeOK'
    BY <1>1, <1>2, <2>1 DEF LedgerInv, LedgerTypeOK
  <2>3. UpToDate'
    <3>1. SUFFICES ASSUME NEW d \in Clerks, calls'[d].at = "append"
                   PROVE  /\ ~Unreadable'
                          /\ \E q \in LedgerRequests : ~NoEvent(q)' /\ calls'[d].line = LineOf(q)'
      BY DEF UpToDate
    <3>2. d # c /\ calls'[d] = calls[d]
      BY <2>1, <3>1 DEF NoCall
    <3>3. QED
      BY <1>2, <3>1, <3>2, SameLines DEF LedgerInv, UpToDate
  <2>4. QED
    BY <1>1, <1>2, <2>2, <2>3, LetGo, SameLines DEF Fine, LedgerInv
<1>3. CASE calls[c].at = "append" /\ Put(Torn) /\ newline' = FALSE
  BY <1>1, <1>3, PutFine
<1>4. CASE calls[c].at = "append" /\ Put(calls[c].line) /\ newline' \in BOOLEAN
  BY <1>1, <1>4, PutFine
<1>5. QED
  BY <1>1, <1>2, <1>3, <1>4

-----------------------------------------------------------------------------
LEMMA LedgerInvInit == LedgerInit => LedgerInv /\ I!ItemsInit
<1>. SUFFICES ASSUME LedgerInit PROVE LedgerInv /\ I!ItemsInit
  OBVIOUS
<1>1. lines = <<>> /\ DOMAIN lines = {} /\ Len(lines) = 0 /\ newline = TRUE /\ lock = {}
  BY DEF LedgerInit
<1>2. DOMAIN calls = Clerks /\ \A c \in Clerks : calls[c] = NoCall /\ calls[c].at = "idle"
  BY DEF LedgerInit, NoCall
<1>3. ~Unreadable /\ \A id : EventsOf(id) = {}
  BY <1>1 DEF Unreadable, EventsOf
<1>4. LedgerTypeOK
  BY <1>1, <1>2, EmptySeq DEF LedgerTypeOK
<1>5. Locked /\ UpToDate /\ HasLatest
  BY <1>2, <1>3 DEF Locked, UpToDate, HasLatest, Writes
<1>6. I!ItemsInit
  BY <1>1, <1>3 DEF I!ItemsInit, LatestEntries, EventCount, I!NoEntry, NoEntry
<1>7. QED
  BY <1>4, <1>5, <1>6 DEF LedgerInv

LEMMA NextFine == LedgerInv /\ [LedgerNext]_ledgerVars => Fine
<1>. SUFFICES ASSUME LedgerInv, [LedgerNext]_ledgerVars PROVE Fine
  OBVIOUS
<1>1. CASE UNCHANGED ledgerVars
  <2>1. lines' = lines /\ newline' = newline /\ lock' = lock /\ calls' = calls
    BY <1>1 DEF ledgerVars
  <2>2. LedgerTypeOK' /\ Locked'
    BY <2>1 DEF LedgerInv, LedgerTypeOK, Locked, Writes
  <2>3. UpToDate'
    BY <2>1, SameLines DEF LedgerInv, UpToDate
  <2>4. QED
    BY <2>1, <2>2, <2>3, SameLines DEF Fine, LedgerInv
<1>2. CASE LedgerNext
  BY <1>2, AskFine, TakeLockFine, FoldFine, AppendEventFine, ClerkFailsFine DEF LedgerNext
<1>3. QED
  BY <1>1, <1>2

LEMMA LedgerInvAlways == LedgerSpec => []LedgerInv
<1>1. LedgerInit => LedgerInv
  BY LedgerInvInit
<1>2. LedgerInv /\ [LedgerNext]_ledgerVars => LedgerInv'
  BY NextFine DEF Fine
<1>3. QED
  BY <1>1, <1>2, PTL DEF LedgerSpec

\* The lines, the lock and the calls of the ledger keep their types, whatever is cut short.
THEOREM LedgerTypeCorrect == LedgerSpec => []LedgerTypeOK
<1>1. LedgerInv => LedgerTypeOK
  BY DEF LedgerInv
<1>2. QED
  BY <1>1, LedgerInvAlways, PTL

\* WorkLedger: any number of processes that fold and append under the lock, and are killed at
\* any point, change one item's latest entry at a time, each from what the one before it has
\* left; a ledger with a torn line is broken for good.
THEOREM LedgerIsAtomic == LedgerSpec => LedgerImplements
<1>1. LedgerInit => I!ItemsInit
  BY LedgerInvInit
<1>2. LedgerInv /\ [LedgerNext]_ledgerVars => [I!ItemsNext]_(I!itemVars)
  BY NextFine DEF Fine, I!itemVars
<1>3. QED
  BY <1>1, <1>2, LedgerInvAlways, PTL DEF LedgerSpec, LedgerImplements, I!ItemsSpec
=============================================================================
