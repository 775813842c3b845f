-------------------------- MODULE MCArtifactStore --------------------------
(* Small instances of ArtifactStore.  The limits are 2 wire and 3 decoded  *)
(* bytes: "exact" meets both, "long", "huge" and "bomb" pass one, and      *)
(* "joined" passes the wire limit only behind its first member.            *)
EXTENDS ArtifactStore, TLC

CONSTANTS c1, c2

TwoCalls == {c1, c2}
AllBodies == {"empty", "small", "exact", "long", "huge", "bomb", "joined"}
Wires == [b \in AllBodies |-> CASE b = "empty" -> 0 [] b = "small" -> 1 [] b \in {"long", "huge", "joined"} -> 3 [] OTHER -> 2]
Members == [b \in AllBodies |-> IF b = "joined" THEN 1 ELSE Wires[b]]
Plains == [b \in AllBodies |-> CASE b = "empty" -> 0 [] b = "bomb" -> 4 [] b \in {"small", "joined"} -> 2 [] OTHER -> 3]
CallSymmetry == Permutations(TwoCalls)
=============================================================================
