---------------------------- MODULE BrowserSession ----------------------------
(***************************************************************************)
(* One browser session for all threads of the host, behind a reentrant     *)
(* lock: a driver, a link from it to a browser, a page.  A call opens the  *)
(* session when there is none, and closes it when its browser is gone.     *)
(* The handler of SIGTERM closes it too; it runs in the main thread,       *)
(* wherever that is, and may hand back to it.                              *)
(***************************************************************************)
EXTENDS Integers, FiniteSets

CONSTANTS
  Threads, Main, Unlocked,
  Handlers,        \* what SIGTERM did before: "ignored", "called", "default"
  MaxDrivers,      \* bound: drivers started
  MaxSignals       \* bound: SIGTERMs and interrupts

VARIABLES
  threadAt,              \* where each thread is
  works,           \* the driver it works with, 0 for none
  opensOnly,            \* a call that has no page opens the session for the next one and gives up
  owner,           \* of the lock
  session,
  drivers,         \* those that run
  started,         \* how many there were
  handling,        \* the handler waits for the lock, or not
  signals,
  interrupted      \* a call was left by an exception that the code does not catch

browserVars == <<threadAt, works, opensOnly, owner, session, drivers, started, handling, signals, interrupted>>

ASSUME MainIsThread == Main \in Threads /\ Unlocked \notin Threads
ASSUME DriversBound == MaxDrivers \in Nat

BrowserModes == {"cdp", "chrome-profile", "chromium-headless"}
Closed == [driver |-> 0, mode |-> "none", page |-> FALSE, up |-> FALSE]
Ready(t) == ~(t = Main /\ handling)

BrowserInit ==
  /\ threadAt = [t \in Threads |-> "idle"]
  /\ works = [t \in Threads |-> 0]
  /\ opensOnly = [t \in Threads |-> FALSE]
  /\ owner = Unlocked
  /\ session = Closed
  /\ drivers = {}
  /\ started = 0
  /\ handling = FALSE
  /\ signals = 0
  /\ interrupted = FALSE

Go(t, where) == threadAt' = [threadAt EXCEPT ![t] = where]
\* The call returns, whatever it has got.
LeaveCall(t) ==
  /\ Go(t, "idle")
  /\ owner' = Unlocked
  /\ works' = [works EXCEPT ![t] = 0]
  /\ opensOnly' = [opensOnly EXCEPT ![t] = FALSE]

CloseSession ==
  /\ drivers' = drivers \ {session.driver}
  /\ session' = Closed

-----------------------------------------------------------------------------
Call(t) ==
  /\ threadAt[t] = "idle" /\ owner = Unlocked
  /\ owner' = t
  /\ Go(t, "ensure")
  /\ UNCHANGED <<works, opensOnly, session, drivers, started, handling, signals, interrupted>>

\* The session is open already.
Reuse(t) ==
  /\ threadAt[t] = "ensure"
  /\ session.mode # "none"
  /\ IF opensOnly[t] THEN LeaveCall(t)
     ELSE /\ Go(t, "page")
          /\ works' = [works EXCEPT ![t] = session.driver]
          /\ UNCHANGED <<opensOnly, owner>>
  /\ UNCHANGED <<session, drivers, started, handling, signals, interrupted>>

\* Playwright is not installed, does not start, or does.
StartDriver(t) ==
  /\ threadAt[t] = "ensure"
  /\ session.mode = "none"
  /\ \/ LeaveCall(t) /\ UNCHANGED <<session, drivers, started>>
     \/ LeaveCall(t) /\ CloseSession /\ UNCHANGED started
     \/ /\ started < MaxDrivers
        /\ started' = started + 1
        /\ drivers' = drivers \cup {started'}
        /\ works' = [works EXCEPT ![t] = started']
        /\ Go(t, "started")
        /\ UNCHANGED <<session, opensOnly, owner>>
  /\ UNCHANGED <<handling, signals, interrupted>>

SetDriver(t) ==
  /\ threadAt[t] = "started"
  /\ session' = [session EXCEPT !.driver = works[t]]
  /\ Go(t, "open")
  /\ UNCHANGED <<works, opensOnly, owner, drivers, started, handling, signals, interrupted>>

\* A browser that runs already, the user's, or a headless one; the driver must still run.
Open(t) ==
  /\ threadAt[t] = "open"
  /\ \/ works[t] \in drivers /\ Go(t, "opened") /\ UNCHANGED <<works, opensOnly, owner, session, drivers>>
     \/ LeaveCall(t) /\ CloseSession
  /\ UNCHANGED <<started, handling, signals, interrupted>>

SetMode(t) ==
  /\ threadAt[t] = "opened"
  /\ \E m \in BrowserModes : session' = [session EXCEPT !.mode = m, !.up = works[t] \in drivers]
  /\ IF opensOnly[t] THEN LeaveCall(t) ELSE Go(t, "page") /\ UNCHANGED <<works, opensOnly, owner>>
  /\ UNCHANGED <<drivers, started, handling, signals, interrupted>>

\* The page that is open, or a new one; a browser with no window has none, and one that is
\* gone closes the session.
Page(t) ==
  /\ threadAt[t] = "page"
  /\ \/ /\ session.mode # "none" /\ session.up
        /\ session' = [session EXCEPT !.page = TRUE]
        /\ Go(t, "use")
        /\ UNCHANGED <<works, opensOnly, drivers>>
     \/ /\ Go(t, "ensure")
        /\ opensOnly' = [opensOnly EXCEPT ![t] = TRUE]
        /\ works' = [works EXCEPT ![t] = 0]
        /\ \/ session.mode \in {"cdp", "none"} /\ UNCHANGED <<session, drivers>>
           \/ CloseSession
  /\ UNCHANGED <<owner, started, handling, signals, interrupted>>

\* What was asked for is read, clicked or typed on the page; whether that returns or raises,
\* the session stays as it is.
Use(t) ==
  /\ threadAt[t] = "use"
  /\ LeaveCall(t)
  /\ UNCHANGED <<session, drivers, started, handling, signals, interrupted>>

-----------------------------------------------------------------------------
LinkDies ==
  /\ session.up
  /\ session' = [session EXCEPT !.up = FALSE, !.page = FALSE]
  /\ UNCHANGED <<threadAt, works, opensOnly, owner, drivers, started, handling, signals, interrupted>>

Sigterm ==
  /\ ~handling /\ signals < MaxSignals
  /\ signals' = signals + 1
  /\ handling' = TRUE
  /\ UNCHANGED <<threadAt, works, opensOnly, owner, session, drivers, started, interrupted>>

BugHandlerHasLock == TRUE
HandlerHasLock == owner \in {Unlocked, Main}

\* The process is gone, with all its threads and its drivers.
ProcessEnds ==
  /\ threadAt' = [t \in Threads |-> "exit"]
  /\ works' = [t \in Threads |-> 0]
  /\ opensOnly' = [t \in Threads |-> FALSE]
  /\ owner' = Unlocked
  /\ session' = Closed
  /\ drivers' = {}

\* The handler has the lock: it closes the session, then does what SIGTERM did before.
Handle ==
  /\ handling /\ HandlerHasLock
  /\ \E h \in Handlers :
       IF h = "default" THEN ProcessEnds
       ELSE CloseSession /\ UNCHANGED <<threadAt, works, opensOnly, owner>>
  /\ handling' = FALSE
  /\ UNCHANGED <<started, signals, interrupted>>

\* KeyboardInterrupt leaves the call at once.
Interrupt ==
  /\ owner = Main /\ ~handling /\ signals < MaxSignals
  /\ signals' = signals + 1
  /\ LeaveCall(Main)
  /\ interrupted' = TRUE
  /\ UNCHANGED <<session, drivers, started, handling>>

BrowserNext ==
  \/ \E t \in Threads :
       /\ Ready(t)
       /\ \/ Call(t) \/ Reuse(t) \/ StartDriver(t) \/ SetDriver(t) \/ Open(t) \/ SetMode(t)
          \/ Page(t) \/ Use(t)
  \/ LinkDies \/ Sigterm \/ Handle \/ Interrupt
BrowserSpec == BrowserInit /\ [][BrowserNext]_browserVars

-----------------------------------------------------------------------------
BrowserTypeOK ==
  /\ \A t \in Threads : (owner = t) = (threadAt[t] \notin {"idle", "exit"})
  /\ session.mode \in BrowserModes \cup {"none"}
  /\ drivers \subseteq 1 .. MaxDrivers

\* A driver that a thread works with is stopped under it only by the handler that runs in this
\* very thread; and one that runs is never lost: it is the session's or that of a call that is
\* just opening the session, unless a call was interrupted there.
DriversKept ==
  [][/\ \A t \in Threads \ {Main} :
          threadAt[t] = threadAt'[t] /\ works[t] \in drivers => works[t] \in drivers'
     /\ \A d \in drivers' :
          \/ d = session'.driver
          \/ \E t \in Threads : works'[t] = d
          \/ interrupted']_browserVars
=============================================================================
