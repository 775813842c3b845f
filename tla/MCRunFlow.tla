----------------------------- MODULE MCRunFlow -----------------------------
(* A small instance of RunFlow. *)
EXTENDS RunFlow

CONSTANTS w1, w2

TwoWorkers == {w1, w2}
=============================================================================
