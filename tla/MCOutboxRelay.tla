--------------------------- MODULE MCOutboxRelay ---------------------------
(* A small instance of OutboxRelay. *)
EXTENDS OutboxRelay

CONSTANTS p1, p2

TwoRelays == {p1, p2}
=============================================================================
