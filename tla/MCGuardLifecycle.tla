-------------------------- MODULE MCGuardLifecycle --------------------------
(* Small instances of GuardLifecycle: two sessions and two pids. *)
EXTENDS GuardLifecycle, TLC

CONSTANTS s1, s2, p1, p2, none

\* No heartbeat yet, and one that an earlier session has left.
MCBeats == {none, Ttl + 1}
=============================================================================
