---------------------------- MODULE MCRunLease ----------------------------
(* Small instances of RunLease.  A tick is 15 seconds of the defaults. *)
EXTENDS RunLease, TLC

CONSTANTS w1, w2, r1, r2

TwoWorkers == {w1, w2}
TwoRuns == {r1, r2}
Symmetric == Permutations(TwoWorkers) \cup Permutations(TwoRuns)
=============================================================================
