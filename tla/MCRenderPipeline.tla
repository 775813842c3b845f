------------------------- MODULE MCRenderPipeline -------------------------
(* A small instance of RenderPipeline. *)
EXTENDS RenderPipeline

CONSTANTS j1, j2, b1, b2

TwoJobs == {j1, j2}
TwoBrowsers == {b1, b2}
=============================================================================
