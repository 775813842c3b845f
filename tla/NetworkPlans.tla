--------------------------- MODULE NetworkPlans ---------------------------
(***************************************************************************)
(* What RunFlow and RunLease share: the worker loops, and the sequences of *)
(* network operations that one execution of process_run may perform, by    *)
(* the classification of its source.  RunFlow shows that every execution   *)
(* performs one of them (NetworkPlan); RunLease sets their deadlines       *)
(* against the lease of a claim.                                           *)
(***************************************************************************)
CONSTANT Workers  \* worker loops, of one or of several processes

(* A blob run performs no network operation, and only the ordinary path    *)
(* escalates to a render.                                                  *)
Plans == [blob |-> {<< >>},
          plain |-> {<< >>, <<"fetch">>, <<"fetch", "render">>},
          provider |-> {<< >>, <<"fetch">>, <<"fetch", "fetch">>, <<"fetch", "render">>},
          youtube |-> {<< >>, <<"fetch">>, <<"fetch", "fetch">>}]
=============================================================================
