-------------------------- MODULE MCDispatchStore ---------------------------
(* A small instance of DispatchStore: two callers and two plans of two steps. *)
EXTENDS DispatchStore, TLC

CONSTANTS p1, p2, alice, none, bad, planA, planB, blank, text, free

\* The first step has every outcome, the second two rival results, the third does not exist.
PersistCalls == {[op |-> "persist", owner |-> alice, plan |-> planA], [op |-> "persist", owner |-> none, plan |-> planB]}
RecordCalls ==
  [op : {"record"}, step : {1}, status : {"succeeded", "failed", "retry_wait"}, payload : {text}]
  \cup [op : {"record"}, step : {2}, status : {"succeeded"}, payload : {text, blank}]
  \cup [op : {"record"}, step : {3}, status : {"succeeded"}, payload : {text}]
MCCalls == PersistCalls \cup RecordCalls \cup {[op |-> "next"], [op |-> "brief"]}

Finished(o, p) ==
  [FreshBundle(o, p) EXCEPT !.steps = [i \in StepIds |-> [status |-> "succeeded", payload |-> text, at |-> 0]]]

\* Nothing, unreadable bytes, and finished bundles: one whose owner no longer validates,
\* one of the same owner as a persist call but with other segments.
MCLegacy == {Absent, Corrupt, Finished(bad, planA), Finished(alice, planB)}

\* For the liveness run.
MCFewCalls ==
  {[op |-> "persist", owner |-> alice, plan |-> planA], [op |-> "next"], [op |-> "brief"],
   [op |-> "record", step |-> 1, status |-> "succeeded", payload |-> text]}
MCNothing == {Absent}

Symmetry == Permutations({p1, p2})
=============================================================================
