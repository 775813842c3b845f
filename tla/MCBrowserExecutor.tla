-------------------------- MODULE MCBrowserExecutor --------------------------
(* A job for a page with a redirect to a refused address, an image, and a  *)
(* request of its own to a refused address; and a job whose target is      *)
(* refused.                                                                *)
EXTENDS BrowserExecutor

PageRequestSet == {"url", "hop", "image", "beacon"}

OneRefused == [j \in Jobs |-> IF j = "j1" THEN "url" ELSE "beacon"]
=============================================================================
