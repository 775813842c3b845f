------------------------ MODULE MCProcessShutdown ------------------------
(* A small instance of ProcessShutdown. *)
EXTENDS ProcessShutdown

CONSTANTS w1, w2, consumer

TwoWorkers == {w1, w2}
OneOther == {consumer}
=============================================================================
