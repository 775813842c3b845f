-------------------------- MODULE CaptureLifecycle --------------------------
(***************************************************************************)
(* What the extractor promises to the platform about a capture command,    *)
(* with no delivery, process, lease or transaction in sight: a command is  *)
(* accepted once, and an accepted command is settled at most once, as a    *)
(* success or as a failure.  Every change of state carries, in the same    *)
(* step, exactly the outgoing messages that announce it.                   *)
(*                                                                         *)
(* CapturePipeline implements this specification.                          *)
(***************************************************************************)
EXTENDS Naturals

CONSTANT Commands      \* the command identifiers

VARIABLES outcome,     \* what became of each command
          announced    \* how many messages of each kind were enqueued for it

vars == <<outcome, announced>>

(* The kinds of outgoing message: the operation reports (queued, succeeded, *)
(* partially succeeded, failed) and the extracted-document fact.            *)
Kinds == {"queued", "document", "succeeded", "partial", "failed"}

Outcomes == {"unknown", "accepted", "succeeded", "failed"}

(* The row counts `rows` after one more message of each kind in ks. *)
Announce(rows, ks) == [k \in Kinds |-> IF k \in ks THEN rows[k] + 1 ELSE rows[k]]

Init == /\ outcome = [c \in Commands |-> "unknown"]
        /\ announced = [c \in Commands |-> [k \in Kinds |-> 0]]

Step(c, from, to, ks) ==
    /\ outcome[c] = from
    /\ outcome' = [outcome EXCEPT ![c] = to]
    /\ announced' = [announced EXCEPT ![c] = Announce(@, ks)]

Accept(c) == Step(c, "unknown", "accepted", {"queued"})

(* A success is announced with its document, or as a partial success when  *)
(* the document is too large for the bus.                                  *)
Succeed(c) == \/ Step(c, "accepted", "succeeded", {"document", "succeeded"})
              \/ Step(c, "accepted", "succeeded", {"partial"})

Fail(c) == Step(c, "accepted", "failed", {"failed"})

Next == \E c \in Commands : Accept(c) \/ Succeed(c) \/ Fail(c)

Spec == Init /\ [][Next]_vars
=============================================================================
