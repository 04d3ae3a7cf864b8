# A TLA+ verification of clx-preprocessing

clx-preprocessing plans a prompt, splits a long one into segments, keeps them in
a durable dispatch bundle, lets any number of short-lived processes work them
off, brings long conversations down to a budget, and guards the machine all of
this runs on.  Most of its state is in files and processes that others share, so
what can go wrong is mostly an interleaving, a kill or an error in the middle of
something; the rest is a handful of algorithms whose stages hand each other
running values.  The modules here model both.

Paths below are relative to the repository; `runtime/` stands for
`src/cluxion_runtime/`, `plugin/` for `src/cluxion_agentplugin_preprocessing/`,
`rust/` for `rust/cluxion_queue/src/`.

## 1. Inventory

| Component | State it keeps | Operations | Hard behaviour | What makes it correct |
|---|---|---|---|---|
| Dispatch store: `runtime/core/dispatch_store.py`, the same in `runtime/resources/py_queue.py` and `rust/dispatch.rs` | one JSON bundle per work id, `.dispatch.lock` | persist, next, record, brief | three engines on one file; flock, temporary file, rename; kill or OS error at any system call; unlocked reads; leases | linearizable; a final result stays; the first bundle stays; a lease is respected; answers stay true |
| loop_auto worker: `runtime/core/loop_auto.py` | none but the store; deadline, retries, signature of the last step | drain, retry, record, release, brief | several workers, kills, exceptions mid-step, a deadline next to a lease | reports are true of the store; no step wedged; every segment settled in the end; one worker per step |
| Durable work queue: `py_queue.py`, `rust/queue.rs` | a SQLite table and its unique index | enqueue, dequeue, peek, status, migration on opening | concurrent openers of an old table, busy timeouts, kills in a transaction | served in order, once per admission; rows and identities kept; the index is reached |
| Guard daemon lifecycle: `runtime/resources/guard_bridge.py`, `runtime/guard_daemon_host.py`, `rust/guard.rs`, `plugin/guard_watch.py` | pidfile, heartbeat, lifecycle lock, published state | start, stop, touch, idle exit | sessions share one daemon; the daemon unlinks the pidfile without the lock; pids are reused; kills between spawn and publication | one daemon, which can be found; nobody else signalled; no immortal daemon |
| Guard enforcement: `guard_bridge.py` | none | sample, scan, enforce | processes end, fork, lose their parents and reuse pids between the scan, SIGTERM and SIGKILL | only owned processes signalled, SIGKILL only after SIGTERM |
| Queue bridge: `runtime/resources/queue_bridge.py` | none | choice of engine, child process, fallback | a child that timed out may have done its work, and the command is run again | the second answer agrees with the first |
| Work ledger: `runtime/core/ledger.py` | a JSONL file | enqueued, started, finished, failed, latest | appends that are cut short, transitions without a status check, folds of several processes | the fold is what was recorded; no attempt lost or counted twice; what was written can be read |
| In-memory queue: `runtime/core/work_queue.py` | a bounded heap | enqueue, dequeue | eviction at the limit | the best stay, in order |
| Model supervisor: `runtime/models/supervisor.py`, `bootstrap.py` | the server process, the installed runtime | install, probe, start, stop | check, then spawn; a server that outlives SIGTERM and SIGKILL; commands that fail halfway | no running server that the supervisor has forgotten |
| Browser bridge: `runtime/web/browser_bridge.py` | one browser session | ensure, page, use, close | threads behind a reentrant lock, a link that dies, a signal handler that closes | no driver lost, none stopped under a thread that uses it |
| Context compression: `runtime/core/context_compress.py`, `hybrid_forget.py`, `llm_compress.py`, `rust/context.rs` | none | staged reduction of a message list | a running count handed from stage to stage, two engines chained, a last resort that loops | count true; first and pinned messages kept; ends; what it asks for is possible |
| Preprocessing and planning: `runtime/core/preprocess.py`, `harness.py`, `intent.py`, `clarification.py`, `plan_codec.py` | none | plan a prompt | windows halved recursively, boundaries searched backwards, modes that redact the prompt | segments tile the prompt; the words reach the model; ends |
| Command line, plugin, runner, schemas | none | parse arguments, forward to the above | `plan` and `serve-local` chain several calls | as the above |
| Bootstrap scripts, doctor, host configuration and patching | files of the installation | install, check, patch | edits of text | not modelled, see 6 |

Interactions: the planner persists a bundle and may start loop_auto at once; the
plugin's tools, the command line and loop_auto call next, record and brief on it,
through the core store, the in-process Rust extension, a Rust subprocess or the
Python queue, all mirrors of each other that meet in the same files.  The bridge
chooses among them and falls back to Python.  loop_auto starts an agent subprocess
per attempt.  The session hooks start and stop the guard daemon, touch its
heartbeat after every tool call, and run a watch; the state that the daemon
publishes decides whether enforcement does anything.

## 2. The modules

| Module | Models | Code |
|---|---|---|
| `DispatchBundle` | the file and what each operation computes from it, as pure operators: `Outcomes(request, file, time)` is the set of (reply, new file) pairs | the operations of the three engines, between load and write |
| `Dispatch` | the abstract store: an operation happens at one instant between call and return, or fails, or its process is killed | what the three engines promise |
| `DispatchStore` | the same at the grain of system calls: `Call`, `Flock`, `Load`, `Replace` (the rename), `Unlock`, `Read` (the unlocked briefing), `OSError`, `Crash` | `_exclusive_bundle_lock`, `_load_dispatch_bundle_from_path`, `_atomic_write_json` and their callers |
| `LoopAuto` | workers of `run_loop_auto` on one bundle, over the atomic store | `loop_auto.py` |
| `WorkQueue` | the SQLite queue of either engine: opening, index, IMMEDIATE transactions | `_open_db`, `_ensure_unique_sequence_index`, `_enqueue`, `_dequeue`, `queue.rs` |
| `GuardLifecycle` | sessions, the daemon and its files, and the process table with pid reuse | `start_daemon`, `stop_daemon`, `_rollback_spawned_child`, `_check_idle_exit`, `run_daemon`, the session hooks |
| `GuardEnforce` | one enforcement pass against a process table that changes under it | `auto_enforce`, `enforce_once`, the scans and the checks before a signal |
| `QueueBridge` | callers that reach the dispatch store through a backend, with a child that is killed on its timeout | `queue_bridge.py` over `DispatchBundle!Outcomes` |
| `WorkItems` | the abstract ledger: entries that change one at a time | what `WorkLedger` promises |
| `Ledger` | the file, its lock, the fold, and appends that are cut short | `ledger.py` |
| `AgentQueue` | the bounded heap | `work_queue.py` |
| `ModelSupervisor` | installing, probing, spawning, watching and stopping the server | `supervisor.py`, `bootstrap.py`, serve-local in `cli.py` |
| `BrowserSession` | the shared session, its lock, its signal handler | `browser_bridge.py` |
| `Segmentation` | the recursion that cuts a prompt, as a stack of frames | the splitting half of `preprocess.py` |
| `Planner` | a request from intent to plan and bundle; extends `Segmentation` | `intent.py`, `clarification.py`, `preprocess.py`, `harness.py`, `plan_codec.py`, the runner's plan action |
| `ContextCompress` | the stages of compression, one message at a step | `context_compress.py`, `hybrid_forget.py`, `llm_compress.py`, `context.rs` |
| `MC*` | small instances for TLC | |
| `DispatchBundleProofs`, `DispatchStoreProofs`, `LoopAutoProofs`, `GuardLifecycleProofs`, `WorkQueueProofs`, `PreprocessProofs`, `LedgerProofs`, `RuntimeProofs` | lemmas and theorems | |

`DispatchStore` and `LoopAuto` extend `DispatchBundle`; `DispatchStore`
instantiates `Dispatch` and implements it, which is what allows `LoopAuto` and
`QueueBridge` to use the store's operations as single steps.  `Ledger` instantiates
`WorkItems` in the same way.

Correspondence worth knowing:

* A bundle's ordered (step_id, checksum) pairs are one value, its plan; the k-th
  step is k.  The text of a result and of an error together are one payload.
* A time stamp is kept only while a step is running, the one status in which it
  is read.
* An answer to persist carries the owner and the plan that it is about, which the caller
  has, so that `AnswerStands` can compare it with the file.
* The `now` that `next` reads before it waits for the lock is part of the
  request (`D!At`); the stamp it writes afterwards is a second reading.
* `Corrupt` stands for everything that a reader rejects; what the engines differ
  in (the wording of the rejection) is left out.
* In `LoopAuto`, an attempt's subprocess ends with the completion marker or
  calls for another attempt; a worker's exception outside a step, and SIGKILL,
  are both `Kill`.  `holder` is a history variable.
* In `WorkQueue`, opening is the transactions of the code: `Index`, which succeeds, finds
  the index there or fails on duplicates; `Resequence`, the UPDATE, row by row over what
  the table is by then; and `Reindex`.  `Engine` selects the one difference that matters:
  Rust commits the UPDATE before it tries the index again, Python does both in one
  transaction (there is no `Reindex`) and re-opens the database on a retry.  Where another
  process has built the index since, the UPDATE aborts at the first row that collides
  (`Collides`).  A failing index leaves the table without one and the queue goes on.
* In `GuardLifecycle`, ages saturate just above the TTL, so time needs no bound.
  A process that was signalled does nothing more (neither host installs a
  handler).  `seen` is the verified `psutil.Process`; it is forgotten when that
  process dies, which is what comparing the creation time amounts to.  The lock
  file exists once a session has started, so the unlocked early return of
  `stop_daemon` is not reached.  The `start` and `stop` actions of the guard tool
  are the same calls.
* In `GuardEnforce` a process is a pid with the number of its birth, which stands
  for its start time.  `handles` tells the scan with psutil, which remembers whom it
  has seen, from the one with ps, which looks the process of a pid up later.  The
  check before a signal and the signal are one step; see 6.  `Descends` follows parents
  for at most as many steps as there are pids.
* In `QueueBridge` a child is killed by its timeout before or after its work, never
  in the middle, which `DispatchStore` justifies.  Its answer is kept in `lost`
  until the caller has it.
* In `Ledger`, a line is an event or `Torn`; `newline` says whether the last line is
  terminated, since the next append is glued to one that is not.  A request whose text
  holds U+0085, U+2028 or U+2029 is `parted`: `json.dumps(ensure_ascii=False)` writes them as
  they are, `str.splitlines` ends a line at them, and the two lines read are one `Torn`.
* In `ModelSupervisor`, "dying" and "killed" servers run on until `ServerDies`.
  `left` are the servers of supervisors whose process has ended: the command line
  leaves its server behind on purpose.
* In `BrowserSession`, `up` is the link to the browser.  The handler of SIGTERM runs
  in the main thread: while it waits or works, the main thread does nothing else,
  and it gets the reentrant lock also when the main thread has it.  In `ProcessEnds` the
  process is gone with its threads, its lock and its drivers.
* In `Segmentation`, positions count from 0 as in the code, and a range is closed on
  the left; a character is one of five classes, of which "stop" is the wide full
  stop.  `frames` are the calls of the recursion in progress, the innermost last.
* In `Planner`, the kinds of words that a prompt has are fields of the request, since
  the words themselves play no part after `Category` and `Asks` have looked at them.
  `Steps` and `PublicPrompt` tell the user's own prompt from an index of segments
  and from words of the planner.
* In `ContextCompress`, a token is a character.  `CanCut` has the check that a cut shortens
  (`context_compress.py` line 254) in the Python passes only; `stage_truncate` of `context.rs`
  has none, so the native pass may make a message longer.  `Importance` is the code's score
  times the number of gaps between messages, which makes it an integer.  `pass` is 2
  when the Python stages continue on what the native engine has left.
* Definitions called `Bug...` are slips that the code could have had.  They are
  not part of any specification; putting one in place of the definition that
  it resembles makes the property violated that PROJECT.json pairs it with.

## 3. What is checked

| Run | Instance | Shows |
|---|---|---|
| `MCDispatchStore.cfg` | two processes, every operation, two steps, two plans, lease 1, clock up to 2; from no file, corrupt bytes, and finished bundles | `NoLostUpdate`, `AnswerStands`, `BriefingStands`, `TerminalFinal`, `FirstBundleWins`, `LeaseRespected`, and `Linearizable`: the store implements `Dispatch` |
| `MCDispatchStoreLive.cfg` | one step, lease 0 | `LockReleased`, `CallReturns` |
| `MCLoopAuto.cfg` | two workers, three steps, one retry, two iterations, one fault | `CompleteIsWhole`, `ReportedIsFinal`, `AlwaysProgress`, `NoOrphan` |
| `MCLoopAutoLease.cfg` | timeout equal to the lease, one retry, no faults, own code takes no time | finding: `OneWorkerPerStep` is violated |
| `MCLoopAutoLive.cfg` | two steps, one fault, no later than time 1 | `EventuallySettled` |
| `MCWorkQueue.cfg` | Rust engine, two clients, two retries, one fault; new and old tables of up to five rows | `IndexHolds`, `RowsKept`, `HandedOutInOrder`, and with fairness `EventuallyIndexed` |
| `MCWorkQueueOrder.cfg` | Rust engine, one old table of eight rows: four of one sequence, one of the next, and a writer that was overtaken | finding: `OrderKept` is violated |
| `MCWorkQueuePython.cfg` | Python engine, three rows of sequence 1 | finding: `EventuallyIndexed` is violated |
| `MCGuardLifecycle.cfg` | two sessions, two pids, TTL 1, two faults; no heartbeat or an old one | `Tracked`, `OneDaemon`, `SignalsOnlyDaemons`, `NoImmortalDaemon` |
| `MCGuardLifecycleShared.cfg` | two sessions, no faults | finding: `OnlyOrphansStopped` is violated |
| `MCParts.cfg` | eight parts, below | one or two properties of each part |

Every passing safety run also checks its type invariant.

`MCParts` puts the eight parts that share no state into one run: the first state
chooses a `part`, and only that part takes steps, so the state space is the sum of
the eight and not their product.

| Part | Instance | Property: what it shows |
|---|---|---|
| planner | every prompt of up to 5 characters of four classes, of 7 of three, and a longer one; windows of at most 6 characters, floor 2, one token; every combination of the other fields for two prompts | `SegmentsTile`: no character lost, none twice, too long only when it cannot be halved. `PromptKept`: the user's words are in a step or in a stored bundle, and hidden only then. `PlanEnds` |
| compress | conversations of 2, 3 and 5 messages with duplicates, a pinned one, one without a user, one with too long a task; either engine, with sizes that a cut shortens and that it lengthens | `TotalIsTrue`: the running count is what the messages take. `PreservedKept`: the task and pinned messages stay. `CompressEnds` |
| bridge | two callers, three backends, all commands of the store | `RerunAgrees`: a command that was run twice answers the same |
| enforce | two pids, one of them protected, three births | `SignalsOnlyOwned` |
| ledger | two clerks, two owners, up to three lines, any of them parted | `LedgerImplements`: the ledger implements `WorkItems` |
| queue | three priorities, two places, five arrivals | `WorstGoes`: what is handed out goes before, what is turned away comes behind, all that stays |
| supervisor | two servers, every mode | `OneKnownServer`: no running server is forgotten, and "stopped" is true |
| browser | two threads, three drivers, two signals | `DriversKept`: no driver stopped under another thread, none lost |

### Why the bounds suffice

* Two processes: every hazard listed is a race of one actor with one other; a
  third waits for the same lock.  The proofs are for any number.
* Two or three steps: a claim has one step to skip and one to take; loop_auto's
  iteration cap of two leaves a third step unclaimed.
* Clock: a lease of 1 expires within 2 ticks, also between a clock reading and
  the lock.
* One plan more than is stored, one payload more than is recorded: enough for a
  conflict.
* Queue: five rows hold three duplicates, a row after them and an overtaken
  writer; three duplicates are the least for which one UPDATE is not enough.  Of the tables that
  racing writers can leave, none of six rows or fewer loses its order to the UPDATE, by a
  plain enumeration; the one of eight rows loses it between two that had
  different sequences.
* Guard: two pids give a second daemon, and a pid that another process takes
  over; two faults give a killed starter and a crash.
* Faults are bounded so that a run has an end.  `LastFault` makes them stop early
  enough for the lease of a lost step to pass before `MaxTime`.
* Planner: a window of 6 characters is halved twice, to 3 and to the floor of 2.  The prompts
  reach each kind of boundary, a window of blanks, three calls of the recursion at once, a
  window at its floor that still holds too many tokens, and a text of several windows;
  the proof is for any text and any limits.  The real limits (thousands of
  characters) are scaled down, keeping their order.
* Compression: five messages are a task, three that can repeat each other, and a
  last turn, of sizes below, at and far above each limit.
* Enforcement: two pids are a protected parent and its child, which it may lose; a third
  birth reuses a pid.
* Ledger: three lines are an entry, its start and a torn line, or two starts that
  race; the proof is for any number.
* In-memory queue: two places and five arrivals are two evictions and an order
  among equals.  Supervisor and browser: a second server or driver is what must not
  be; a third driver is one opened after a close.

### Fairness

* Processes that are not killed take their next step (weak fairness).
* A waiter for a flock, or for SQLite's busy handler, gets the lock in the end
  (strong fairness): assumed of the operating system.  Errors and kills are never
  required to happen.
* loop_auto: workers are started again and again, as the host does; the clock
  runs.
* Guard: the clock runs, and a daemon, which loops with a sleep of an interval,
  looks at the heartbeat.  No fairness is assumed of sessions.
* Planning and compressing are each one call in one thread, which goes on once it
  has begun; nothing makes a call begin.  The other parts assume no fairness.

## 4. What is proved

TLAPS checks the following for all values of the constants.  Every type invariant, safety
invariant, action property and refinement that a passing run checks is a theorem; what is
left to TLC is listed at the end of this section.

The assumptions are the ASSUMEs of the modules, which the runs evaluate:

* placeholders (no owner, no process, no server, nobody) are not among the things they
  stand for, and the main thread is a thread;
* limits, leases and numbers of tries are naturals, sizes that would make a window or a
  queue empty are not zero, and priorities are integers;
* marks, digests and summaries are not empty texts, as the code's are not;
* prompts are sequences of the classes of characters, conversations sequences of messages
  that carry their index, and options what the tool accepts;
* the calls, and the files and tables that earlier builds have left, are of the shape that
  the code reads: in particular an old table has one row for an item (work_id is the primary
  key), and a persist command of the bridge names an owner, as `_bundle_from_plan` does.

### The store and its workers

* `DispatchBundleProofs`: the lemmas about operations that the other modules use.
* `DispatchStoreProofs`: `TypeCorrect`, `NoUpdateIsLost`, `EveryAnswerStands`,
  `EveryBriefingStands`, `FinalStays`, `FirstBundleStays`, `LeaseIsRespected`,
  `StoreIsLinearizable`.  The inductive invariant is
  `TypeOK /\ Control /\ NoLostUpdate /\ Answers`.  `NoLostUpdate` carries it: what a
  process is about to rename was computed by its own operation from the file as
  it is now, because the file changes only under the lock that it holds.  So each
  rename is an outcome of the atomic operation, and everything else about the
  file (finished steps, identity, leases) follows from lemmas about outcomes.  `Answers`
  covers persist as well: "stored", "idempotent" and the conflicts are statements about the
  owner and the plan in the file, which no operation of others changes (`PersistAnswers`).  `Control`
  says what a process at a given point has in hand, among other things that the clock it
  read is not ahead of the present one.  `StoreIsLinearizable` maps `disk`, `now`, `req` and
  `reply` to themselves: the rename performs the operation, or the load does where nothing
  is to be written; the other steps stutter.
* `LoopAutoProofs`: `TypeCorrect`, `CompleteBundlesAreWhole`, `ReportsAreFinal`,
  `GuardNeverFires`, `NothingOrphaned`.  For the first three, the strengthening is that a
  worker on a step has a step; the argument is that no operation of anybody touches a
  finished step.  The other two add `PrevIsDone`: when a worker asks for its next step,
  the one that it took up last is finished in the store (it was recorded with a final
  result, or found to have one).  A claim hands out only steps that are not
  finished, so it cannot hand out the same one again, which is the case the
  guard is there for; and a worker moves off a step only with its record or release made,
  or with one of the excuses that `NoOrphan` lists.

### The durable queue

`WorkQueueProofs`: `TypeCorrect`, `IndexNeverBroken`, `RowsAreKept`, `HandsOutInOrder`, for
both engines and any old table.  The inductive invariant is
`TypeOK /\ IndexHolds /\ LockHeld /\ NothingStale /\ LateUpdate`.  `LockHeld`: a client between BEGIN
IMMEDIATE and COMMIT is the one that holds the lock.  `NothingStale`: what it is about to
commit was computed from the table that is there.  What remains are lemmas about the
statements: the next sequence is larger than all that exist, so an enqueue cannot collide;
an upsert keeps the row's place, sequence and owner; the resequencing, a recursion over the
rows, changes nothing but sequences.

The resequencing UPDATE may run on a table that another process has indexed since, and whose
sequences have been given out.  `LateUpdate` is why it then changes none: while some process
that met duplicates has its UPDATE ahead of it, a table without duplicates is `Dense`, its
sequences lie in 1 to n for n rows.  Duplicates go away by nothing but an UPDATE, whose result
is dense; an enqueue adds MAX + 1, which is at most n + 1; nothing removes a row.  In a table
that is dense and has no duplicates a row's sequence is its rank, so the UPDATE writes what is
there (`DenseUnchanged`), at every row it passes, and no row collides.  An enqueue that skipped
a number would break exactly this, and is the mutant of `RowsKept`.

### The guard

* `GuardLifecycleProofs`: `TypeCorrect`, `DaemonsAreTracked`, `ThereIsOneDaemon`,
  `OthersAreSafe`.  The invariant adds to `Tracked` who holds the lock, and which
  daemon can be alive at each point inside it (`Alone`): none when a start is
  about to spawn or a stop to unlink, otherwise the child or the verified process.
* `RuntimeProofs`: `SignalsAreOwned`.  Between the scan and a signal everything about a pid
  may have changed; what stays is what the invariant keeps of the scan: a candidate is
  not protected and, where start times are at hand, was seen with its own
  (`CandidatesAreSeen`); whoever the second round waits for has been sent SIGTERM under
  that birth (`WaitingHadTerm`).  The check before the signal does the rest.

### Before the host sees it

`PreprocessProofs`, for any prompt, any conversation and any limits:

* `PlansAreTyped`, `PromptsAreTiled`, `PromptsAreKept`.  The invariant says that from the
  first cut on, cuts and frames are in order, cover everything but blanks and fit
  (`Ordered`, `Covered`, `Fitting`), that before it there are neither, that the text begins
  and ends with a character that is not blank, and that a bundle is stored exactly when a
  queued plan is out.  It is frames that make it inductive: cuts alone cover the text only
  when the recursion is over, and then they are all there is.
* `CompressionTyped`, `CountIsTrue`, `PinnedStay`.  `CtxInv` says how the list that a
  stage works on relates to the conversation (`Follows`): a subsequence of it, in the same
  order, with every preserved message in it and the same recent turns at the end, each of
  them whole or cut down; what the stage in progress may rely on (`Staged`), which is where
  "a recent turn is cut only when nothing else is left" comes from; and the count.  The
  lemmas are about the sum over a list: what it becomes when one message is replaced, when
  the list is rebuilt from those that are kept, and that two lists differ in it by where
  they differ.  None of this needs a cut to shorten: the count follows the size of what a
  message was replaced with, in the native pass as in the others.

### The other parts

* `LedgerProofs`: `LedgerTypeCorrect`, `LedgerIsAtomic`.  The mapping takes the fold
  of the file for the entries.  The invariant says that a writer has the lock to
  itself (`Locked`), and that the line that a process is about to append is the
  one that follows from the file as it is now (`UpToDate`): an append then is the
  operation of `WorkItems`, a torn, glued or parted line its `Break`, and the rest stutters.
* `RuntimeProofs`: `OneServer` needs that between the look at the endpoint and the spawn no
  server of its own runs (`NoneBeforeSpawn`).  `QueueBounded` and `WorstEntryGoes` need that
  the heap is finite, with sequence numbers that are distinct and already given out.
  `DriversAreKept` needs that the session has no mode while a thread opens it, that whoever
  works with a running driver works with the session's, and that every running driver is the
  session's or in some thread's hands.  `RerunsAgree` says that the answer that was lost
  can still be read off the file, whatever others have done since (`Shown`), from the
  lemmas of `DispatchBundleProofs`: finished steps and identities stay.
* `PartsAreTyped` puts the eight parts' invariants together for `MCParts`: a step of one
  leaves the others alone.

The prover has no induction over data.  Where a claim is about any number of rows or
messages, it is proved by a least counterexample (`LeastElement`, from the well-foundedness
of the naturals, which the library states without an operator parameter).

### What is only model-checked

Liveness, which the prover does not do: `LockReleased`, `CallReturns`, `EventuallySettled`,
`EventuallyIndexed`, `NoImmortalDaemon`, `PlanEnds`, `CompressEnds`.  The properties of
section 5 are false, and the runs show how.

## 5. Findings

1. **A live worker can lose its step** (`MCLoopAutoLease.cfg`).  A comment in
   `dispatch_store.py` lines 30-33 says that no live worker can hold a step longer
   than the lease.  An attempt may start just before the deadline and then has a
   whole timeout of its own.
2. **The Python queue may never index an old table** (`MCWorkQueuePython.cfg`).
   With three rows of equal sequence the UPDATE yields 1, 2, 2, the index fails,
   and the transaction takes the UPDATE back; every opening repeats this.  Rust,
   which it mirrors, gets there in a few openings.  Enqueue and dequeue are right
   without the index.
3. **The first session to end stops the daemon of the others**
   (`MCGuardLifecycleShared.cfg`), though `guard_watch.py` line 30 speaks of orphans.
4. **A request for summaries may be stale** (`MCPartsRequest.cfg`).
   `context_compress.py` builds it before messages are forgotten and returns it
   afterwards (line 171), so its indices name messages that must be preserved, or
   none at all; `schemas.py` lines 212-215 promise a request that tells the host what
   to summarize.
5. **Resequencing is not order-preserving** (`MCWorkQueueOrder.cfg`), though `queue.rs` line
   204 and `py_queue.py` line 198 say so.  The UPDATE runs row by row, and the rows that it
   has already renumbered count as larger than they were.  Sequences 1, 1, 1, 1, 2, 3, 2, 4
   become 1, 2, 2, 2, 5, 6, 5, 5, and after further openings 1, 2, 3, 4, 5, 8, 6, 7: the row
   that had 3 is served after the one that had 4.  It takes a
   row that was overtaken by one with a larger sequence.

Two more that no run shows as violated, since they are one step each:

* **The engines do not cut alike.**  `context.rs` lines 3-6 and `context_compress.py` lines 3-5
  say that they stay in lockstep and give identical output.  Python keeps a message that
  head, tail and marker would not shorten (line 254); `stage_truncate` has no such check and
  replaces it (lines 206-215): 1801 characters of one token each become 1808 tokens.
  `CanCut` has both; `TotalIsTrue`, `PreservedKept` and `CompressEnds` hold in either engine.
* **A ledger may be unreadable after a whole append.**  `ledger.py` line 110 promises to restore
  the work state across restarts.  A line separator (U+0085, U+2028, U+2029) in a prompt or a
  reason is written as it is (line 227) and ends the line for `splitlines` (line 213); from
  then on every call raises.  `parted` requests do this; `LedgerImplements` holds, as it
  counts them among the ways in which a ledger breaks for good.

Observed while modelling, and not claimed to be wrong: a general prompt of more
than 400 characters always draws the question about its direction, unless it was
answered before; the admission decision never is "sequential_only", though the
pressure may be; a prompt that has to be split and draws a question requires the
check of segment checksums, with no segments; an upgrade that is asked for together
with a dry run is made (`cli.py` line 440); a message that was folded into a digest
may be forgotten without a copy in the cold store.

## 6. What is not modelled

* The machine losing power (the directory is not synced after the rename,
  `dispatch_store.py` line 622), and hosts without fcntl, where the store takes no
  lock (line 585).
* Wall clocks that jump.  Clocks here are monotonic.
* `peek` and `status`, which only read; creating the schema; the retry after an
  IntegrityError in enqueue, which `IndexHolds` shows to be never needed; an item
  that was dequeued has no lease, and stays running when its taker dies
  (`py_queue.py` line 373).
* loop_auto's preflight, whose probe file two workers may unlink under each other
  (`loop_auto.py` line 372), and the parsing of markers.
* The guard's samples; a start whose Popen raises is like one that is killed before
  it spawns.  A daemon that exits unlinks its pidfile and ends in one step (`Leave`); in the
  code it lives on for a moment after the unlink (`guard_daemon_host.py` line 266, `guard.rs`
  line 344), in which it does nothing but end, and a daemon that is started then is a second
  process for that moment, which `OneDaemon` and `Tracked` do not count.
* In enforcement, what happens between the check and the signal next to it: a process that
  dies there and whose pid is reused at once, or one that loses its parent there and is
  signalled although it is no longer owned.
* In the bridge, `next` after a timeout: the step that the first run handed out is
  running until its lease is over, and an item that the first run of a dequeue
  took is lost.  The commands of the SQLite queue take the same path as those of the
  store and are not repeated.
* The environment variable by which `llm_compress.py` (line 241) keeps itself from
  recursion, which two threads may overwrite.
* When a retry of a work item is due: `ready_to_retry` (`ledger.py` lines 198-206) reads the
  latest entries, compares the stored time with the clock and sorts; it changes nothing, and
  what it reads is `latest`, which is modelled.
* What is done on a web page, which neither opens nor closes anything.
* Argument parsing, prompts and schemas: the command line, the plugin and the runner
  parse and forward to one operation, which has its action in its own module.
* Installation, the doctor, host configuration and patching: the doctor reads and
  reports; the others edit the host's YAML and source files, one process once, with
  a copy kept and a rename at the end.  Their decisions are about the text of single
  lines, and on the level of states nothing is left of them but the order of a copy
  and a write.  (`hermes_config.py` reads, changes and writes without a lock, so two
  at once would lose one change; nothing runs two at once.)

## 7. What is left

1. An abstract queue whose enqueue and dequeue happen at one instant, and `WorkQueue` shown
   to implement it, as `DispatchStore` implements `Dispatch`: `HandsOutInOrder` and
   `RowsAreKept` are most of its step cases.
2. What `PlanEnds` and `CompressEnds` rest on, as action properties that can be proved: the
   measure that every cut and every stage makes smaller.
3. `OneWorkerPerStep` under the assumption that the code does not guarantee, that an attempt
   ends within the lease, which would show that the finding of section 5 is the only way to
   lose a step that one works on.
