-------------------------- MODULE MCMediaArchive --------------------------
(* Small instances of MediaArchive: two runs of one video and one of       *)
(* another; "big" is over the item cap, two files fill the budget.         *)
EXTENDS MediaArchive

CONSTANTS r1, r2, r3

ThreeRuns == {r1, r2, r3}
TwoVideos == [r \in ThreeRuns |-> IF r = r3 THEN "w" ELSE "v"]
Media == [v \in {"v", "w"} |-> IF v = "v" THEN {"a", "big"} ELSE {"b"}]
Lengths == [d \in Digests |-> CASE d = "a" -> 2 [] d = "b" -> 3 [] OTHER -> 4]
=============================================================================
