----------------------------- MODULE MCLoopAuto -----------------------------
(* Small instances of LoopAuto: two workers on a bundle of two or three steps. *)
EXTENDS LoopAuto, TLC

CONSTANTS w1, w2, alice, none, bad, plan, blank, text, nobody

Fresh == FreshBundle(alice, plan)

\* A fresh bundle, and one that a worker, killed before these were started, has left
\* with a running step.
MCStored == {Fresh, Claim(Fresh, 1, 0)}
MCFresh == {Fresh}

Symmetry == Permutations({w1, w2})
=============================================================================
