----------------------------- MODULE Delivery -----------------------------
(***************************************************************************)
(* What the outbox promises to the transactions that enqueue into it and   *)
(* to the consumers of the event stream.  A row is marked published only   *)
(* once the stream holds it; it is given up on only if no attempt could    *)
(* ever deliver it; and neither mark is taken back.  How rows are leased,  *)
(* attempted and retried, and by how many relays, is left open: a message  *)
(* may reach the stream long before its row says so, and more than once.   *)
(***************************************************************************)
EXTENDS Naturals, Sequences

CONSTANTS N,      \* rows the transactions ever enqueue
          Kinds,  \* what the broker makes of a row
          Never   \* the kinds no attempt can deliver

VARIABLES rows,       \* the kinds of the rows enqueued so far
          stored,     \* rows the event stream holds
          published,  \* rows marked published
          dead        \* rows marked undeliverable

vars == <<rows, stored, published, dead>>

Init == rows = << >> /\ stored = {} /\ published = {} /\ dead = {}

(* A row becomes durable with the transaction that enqueues it. *)
Accept ==
    /\ Len(rows) < N
    /\ \E k \in Kinds : rows' = Append(rows, k)
    /\ UNCHANGED <<stored, published, dead>>

(* The stream takes a row, once or again. *)
Deliver(r) ==
    /\ rows[r] \notin Never
    /\ stored' = stored \cup {r}
    /\ UNCHANGED <<rows, published, dead>>

Confirm(r) ==
    /\ r \in stored
    /\ published' = published \cup {r}
    /\ UNCHANGED <<rows, stored, dead>>

GiveUp(r) ==
    /\ rows[r] \in Never
    /\ dead' = dead \cup {r}
    /\ UNCHANGED <<rows, stored, published>>

Next == Accept \/ \E r \in DOMAIN rows : Deliver(r) \/ Confirm(r) \/ GiveUp(r)

Spec == Init /\ [][Next]_vars
=============================================================================
