------------------------- MODULE MCCapturePipeline -------------------------
(* Small instances of CapturePipeline. *)
EXTENDS CapturePipeline, TLC

CONSTANTS c1, c2, m1, m2, p1, p2

MCCommands == {c1, c2}
MCProcs == {p1, p2}

(* Two commands, published once each. *)
TwoMessages == {m1, m2}
OneEach == (m1 :> c1) @@ (m2 :> c2)
=============================================================================
