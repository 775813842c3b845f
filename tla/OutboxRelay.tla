---------------------------- MODULE OutboxRelay ----------------------------
(***************************************************************************)
(* The outbox relay: passes that lease due rows of extractor.outbox_events, *)
(* publish them to JetStream one by one, record each outcome on its row,   *)
(* and fold the pass into the publisher's health verdict; and the process  *)
(* health that this verdict and the dependency probe make up together.     *)
(*                                                                         *)
(* Rows are numbered in the order they were enqueued.  Time is abstracted  *)
(* to events: a claim's 30 seconds end, a backoff ends, a row turns 300    *)
(* seconds old.  Among the rows whose next_attempt_at has come, the order  *)
(* of next_attempt_at is the order in which they became due, which is what *)
(* `queue' keeps.                                                          *)
(***************************************************************************)
EXTENDS Faults, Sequences, FiniteSets

CONSTANTS N,                 \* rows the transactions ever enqueue
          Relays,            \* extractor processes, one relay loop each
          Limit,             \* outbox_batch_size
          UnhealthyAttempts  \* UNHEALTHY_ATTEMPTS

Rows == 1 .. N

(* What the broker makes of a row: it takes it, never acknowledges it, or  *)
(* the row is larger than the server accepts.                              *)
Kinds == {"plain", "refused", "oversize"}

ASSUME RowsAssumption == N \in Nat
ASSUME LimitAssumption == Limit \in Nat \ {0} /\ UnhealthyAttempts \in Nat

VARIABLES
    \* the database
    rows,       \* the kinds of the rows inserted so far
    published,  \* rows with published_at
    dead,       \* rows with dead_lettered_at
    queue,      \* rows whose next_attempt_at has come, earliest first
    claim,      \* "live" while claimed_until of a row lies ahead, else "none"
    attempts,   \* failed attempts of a row, counted up to UnhealthyAttempts
    aged,       \* unpublished rows older than UNHEALTHY_AGE_SECONDS
    \* the broker
    stored,     \* rows the event stream holds
    \* one relay loop per process
    pc,         \* "idle", "publish" (next row) or "mark" (record its outcome)
    batch,      \* claimed rows not yet attempted
    row,        \* the row being attempted
    result,     \* its outcome: "ok", "transient" or "permanent"
    report,     \* the pass's OutboxReport, each count as zero or not
    healthy,    \* OutboxHealth, stored in publisher_healthy
    \* one dependency probe per process
    dependencies  \* dependencies_healthy

database == <<rows, published, dead, queue, claim, attempts, aged>>
relay    == <<pc, batch, row, result, report, healthy>>
vars     == <<database, stored, relay, dependencies, faults>>

NoReport == [claimed |-> FALSE, failed |-> FALSE]

TypeOK ==
    /\ rows \in Seq(Kinds) /\ Len(rows) <= N
    /\ published \subseteq Rows /\ dead \subseteq Rows /\ aged \subseteq Rows
    /\ queue \in Seq(Rows)
    /\ claim \in [Rows -> {"none", "live"}]
    /\ attempts \in [Rows -> 0 .. UnhealthyAttempts]
    /\ stored \subseteq Rows
    /\ pc \in [Relays -> {"idle", "publish", "mark"}]
    /\ batch \in [Relays -> SUBSET Rows]
    /\ row \in [Relays -> Rows \cup {0}]
    /\ result \in [Relays -> {"none", "ok", "transient", "permanent"}]
    /\ report \in [Relays -> [claimed : BOOLEAN, failed : BOOLEAN]]
    /\ healthy \in [Relays -> BOOLEAN] /\ dependencies \in [Relays -> BOOLEAN]
    /\ faults \in 0 .. MaxFaults

Init ==
    /\ rows = << >>
    /\ published = {} /\ dead = {} /\ aged = {} /\ stored = {}
    /\ queue = << >>
    /\ claim = [r \in Rows |-> "none"]
    /\ attempts = [r \in Rows |-> 0]
    /\ pc = [p \in Relays |-> "idle"]
    /\ batch = [p \in Relays |-> {}]
    /\ row = [p \in Relays |-> 0]
    /\ result = [p \in Relays |-> "none"]
    /\ report = [p \in Relays |-> NoReport]
    /\ healthy = [p \in Relays |-> TRUE]
    /\ dependencies = [p \in Relays |-> TRUE]
    /\ faults = 0

-----------------------------------------------------------------------------
(* The rows.                                                               *)

(* A transaction inserts a row that is due at once (enqueue_json). *)
Enqueue ==
    /\ Len(rows) < N
    /\ \E k \in Kinds : rows' = Append(rows, k)
    /\ queue' = Append(queue, Len(rows) + 1)
    /\ UNCHANGED <<published, dead, claim, attempts, aged, stored, relay, dependencies, faults>>

Of(k) == {r \in DOMAIN rows : rows[r] = k}

Unpublished == {r \in DOMAIN rows : r \notin published \cup dead}

InQueue(r) == \E i \in 1 .. Len(queue) : queue[i] = r

Position(r) == CHOOSE i \in 1 .. Len(queue) : queue[i] = r

(* Variant: the oldest row first, whatever its next_attempt_at. *)
Precedes_OldestFirst(q, r) == q < r

Precedes(q, r) == Position(q) < Position(r)

(* The rows a pass may lease, and the first `limit' of them, which it does. *)
Due == {r \in Unpublished : InQueue(r) /\ claim[r] # "live"}

Batch == {r \in Due : Cardinality({q \in Due : Precedes(q, r)}) < Limit}

ClaimExpires(r) ==
    /\ claim[r] = "live"
    /\ claim' = [claim EXCEPT ![r] = "none"]
    /\ UNCHANGED <<rows, published, dead, queue, attempts, aged, stored, relay, dependencies, faults>>

(* least(300, 2^attempts) seconds after a failure the row is due again. *)
BackoffEnds(r) ==
    /\ r \in Unpublished /\ ~InQueue(r)
    /\ queue' = Append(queue, r)
    /\ UNCHANGED <<rows, published, dead, claim, attempts, aged, stored, relay, dependencies, faults>>

(* Rows turn UNHEALTHY_AGE_SECONDS old in the order they were enqueued. *)
RowAges(r) ==
    /\ r \in Unpublished \ aged
    /\ \A q \in Unpublished : q < r => q \in aged
    /\ aged' = aged \cup {r}
    /\ UNCHANGED <<rows, published, dead, queue, claim, attempts, stored, relay, dependencies, faults>>

-----------------------------------------------------------------------------
(* One pass: run_outbox_once, then OutboxHealth::observe.                  *)

ClaimBatch(p) ==
    /\ pc[p] = "idle"
    /\ batch' = [batch EXCEPT ![p] = Batch]
    /\ claim' = [r \in Rows |-> IF r \in Batch THEN "live" ELSE claim[r]]
    /\ report' = [report EXCEPT ![p] = [claimed |-> Batch # {}, failed |-> FALSE]]
    /\ pc' = [pc EXCEPT ![p] = "publish"]
    /\ UNCHANGED <<rows, published, dead, queue, attempts, aged, stored, row, result,
                   healthy, dependencies, faults>>

(* publisher.publish returns `outcome' for the next row of the batch. *)
Attempt(p, r, outcome) ==
    /\ pc[p] = "publish"
    /\ r \in batch[p]
    /\ batch' = [batch EXCEPT ![p] = @ \ {r}]
    /\ row' = [row EXCEPT ![p] = r]
    /\ result' = [result EXCEPT ![p] = outcome]
    /\ pc' = [pc EXCEPT ![p] = "mark"]
    /\ UNCHANGED <<database, report, healthy, dependencies>>

(* Classed before anything is sent: larger than max_payload less headroom. *)
PublishTooLarge(p, r) ==
    /\ r \in Of("oversize")
    /\ Attempt(p, r, "permanent")
    /\ UNCHANGED <<stored, faults>>

PublishAcknowledged(p, r) ==
    /\ r \in Of("plain")
    /\ Attempt(p, r, "ok")
    /\ stored' = stored \cup {r}
    /\ UNCHANGED faults

(* Variant: the acknowledgement is not awaited. *)
PublishUnacknowledged_AsPublished(p, r) ==
    /\ r \notin Of("oversize")
    /\ Attempt(p, r, "ok")
    /\ UNCHANGED <<stored, faults>>

(* No acknowledgement: the broker refused or was unreachable, or it stored *)
(* the message and the acknowledgement was lost.  For a row that is not    *)
(* always refused this is a fault.                                         *)
PublishUnacknowledged(p, r) ==
    /\ r \notin Of("oversize")
    /\ Attempt(p, r, "transient")
    /\ \/ /\ r \in Of("refused")
          /\ UNCHANGED <<stored, faults>>
       \/ /\ r \in Of("plain")
          /\ Fault
          /\ stored' \in {stored, stored \cup {r}}

(* Every outcome is written by outbox_id alone, whoever holds the claim. *)
Release(p) == claim' = [claim EXCEPT ![row[p]] = "none"]

Marked(p) ==
    /\ pc' = [pc EXCEPT ![p] = "publish"]
    /\ row' = [row EXCEPT ![p] = 0]
    /\ result' = [result EXCEPT ![p] = "none"]
    /\ UNCHANGED <<rows, stored, batch, healthy, dependencies, faults>>

MarkPublished(p) ==
    /\ pc[p] = "mark" /\ result[p] = "ok"
    /\ published' = published \cup {row[p]}
    /\ aged' = aged \ {row[p]}
    /\ Release(p)
    /\ Marked(p)
    /\ UNCHANGED <<dead, queue, attempts, report>>

FailedAttempt(p) ==
    attempts' = [attempts EXCEPT ![row[p]] = IF @ < UnhealthyAttempts THEN @ + 1 ELSE @]

(* The queue without row r, which a late mark may no longer find there. *)
Without(r) ==
    IF InQueue(r)
    THEN SubSeq(queue, 1, Position(r) - 1) \o SubSeq(queue, Position(r) + 1, Len(queue))
    ELSE queue

(* Variant: a row that has failed often enough is given up on. *)
MarkTransient_GivesUp(p) ==
    /\ pc[p] = "mark" /\ result[p] = "transient"
    /\ FailedAttempt(p)
    /\ queue' = Without(row[p])
    /\ dead' = IF attempts'[row[p]] = UnhealthyAttempts THEN dead \cup {row[p]} ELSE dead
    /\ Release(p)
    /\ report' = [report EXCEPT ![p].failed = TRUE]
    /\ Marked(p)
    /\ UNCHANGED <<published, aged>>

(* mark_transient: next_attempt_at moves into the future. *)
MarkTransient(p) ==
    /\ pc[p] = "mark" /\ result[p] = "transient"
    /\ FailedAttempt(p)
    /\ queue' = Without(row[p])
    /\ Release(p)
    /\ report' = [report EXCEPT ![p].failed = TRUE]
    /\ Marked(p)
    /\ UNCHANGED <<published, dead, aged>>

MarkUndeliverable(p) ==
    /\ pc[p] = "mark" /\ result[p] = "permanent"
    /\ FailedAttempt(p)
    /\ dead' = dead \cup {row[p]}
    /\ aged' = aged \ {row[p]}
    /\ Release(p)
    /\ Marked(p)
    /\ UNCHANGED <<published, queue, report>>

(* The oldest row still in the retry set has failed often or waited long. *)
Stuck(r) == attempts[r] >= UnhealthyAttempts \/ r \in aged

HeadStuck == \E r \in Unpublished : Stuck(r) /\ \A q \in Unpublished : r <= q

(* Variants: failures do not count; the verdict never recovers. *)
Verdict_IgnoresFailures(p) == report[p].claimed \/ Unpublished = {} \/ healthy[p]
Verdict_Latched(p) == healthy[p] /\ ~(report[p].failed /\ HeadStuck)

Verdict(p) ==
    IF report[p].failed THEN ~HeadStuck
    ELSE report[p].claimed \/ Unpublished = {} \/ healthy[p]

Observe(p) ==
    /\ pc[p] = "publish" /\ batch[p] = {}
    /\ healthy' = [healthy EXCEPT ![p] = Verdict(p)]
    /\ report' = [report EXCEPT ![p] = NoReport]
    /\ pc' = [pc EXCEPT ![p] = "idle"]
    /\ UNCHANGED <<database, stored, batch, row, result, dependencies, faults>>

(* A crash, or a database error that ends the loop and with it the process; *)
(* the next process starts with a healthy verdict, and mark_ready follows  *)
(* its own connections to the database and the broker.                     *)
Stop(p) ==
    /\ pc[p] # "idle"
    /\ Fault
    /\ pc' = [pc EXCEPT ![p] = "idle"]
    /\ batch' = [batch EXCEPT ![p] = {}]
    /\ row' = [row EXCEPT ![p] = 0]
    /\ result' = [result EXCEPT ![p] = "none"]
    /\ report' = [report EXCEPT ![p] = NoReport]
    /\ healthy' = [healthy EXCEPT ![p] = TRUE]
    /\ dependencies' = [dependencies EXCEPT ![p] = TRUE]
    /\ UNCHANGED <<database, stored>>

-----------------------------------------------------------------------------
(* The dependency probe: `select 1', then the state of the connection to   *)
(* the broker.  It fails in an outage that the relay need not notice.      *)

ProbeSucceeds(p) ==
    /\ dependencies' = [dependencies EXCEPT ![p] = TRUE]
    /\ UNCHANGED <<database, stored, relay, faults>>

ProbeFails(p) ==
    /\ Fault
    /\ dependencies' = [dependencies EXCEPT ![p] = FALSE]
    /\ UNCHANGED <<database, stored, relay>>

(* What /ready answers of a process that is neither starting nor draining. *)
IsReady(p) == dependencies[p] /\ healthy[p]

-----------------------------------------------------------------------------
Publish(p, r) == PublishTooLarge(p, r) \/ PublishAcknowledged(p, r) \/ PublishUnacknowledged(p, r)
Mark(p) == MarkPublished(p) \/ MarkTransient(p) \/ MarkUndeliverable(p)

(* The relay loop's next step. *)
RelayStep(p) == ClaimBatch(p) \/ (\E r \in Rows : Publish(p, r)) \/ Mark(p) \/ Observe(p)

Next ==
    \/ Enqueue
    \/ \E r \in Rows : ClaimExpires(r) \/ BackoffEnds(r) \/ RowAges(r)
    \/ \E p \in Relays : RelayStep(p) \/ Stop(p) \/ ProbeSucceeds(p) \/ ProbeFails(p)

Spec == Init /\ [][Next]_vars

(* The intervals keep ticking, a publish returns, claims and backoffs end. *)
(* Rows need not arrive, nor age.                                          *)
Fairness ==
    /\ \A r \in Rows : WF_vars(ClaimExpires(r) \/ BackoffEnds(r))
    /\ \A p \in Relays : WF_vars(RelayStep(p)) /\ WF_vars(ProbeSucceeds(p))

FairSpec == Spec /\ Fairness

-----------------------------------------------------------------------------
(* Properties.                                                             *)

(* The marks on a row are true, however late they are written and however  *)
(* many relays attempted it: published_at stands only on rows JetStream    *)
(* holds, dead_lettered_at only on rows no retry could deliver (and never  *)
(* beside published_at, which the table forbids).  The types hold.         *)
MarksAreTrue == TypeOK /\ published \subseteq stored /\ dead \subseteq Of("oversize") \ published

Promise == INSTANCE Delivery WITH Never <- {"oversize"}

(* The relays keep the promise of Delivery: whatever they claim, attempt   *)
(* and mark late or twice (run_outbox_once writes outcomes by outbox_id    *)
(* alone), a row is confirmed after the stream took it, given up on only   *)
(* if it is too large, and keeps its mark.                                 *)
ImplementsDelivery == Promise!Spec

(* Every row the broker accepts is published in the end, also behind rows  *)
(* it always refuses and with batches of `limit'; every oversize row is    *)
(* taken out of the retry set.                                             *)
EveryRowSettles == <>[](Of("plain") \subseteq published /\ Of("oversize") \subseteq dead)

(* A row that is always refused becomes the oldest one in the end and      *)
(* withdraws the readiness of some process, again after every recovery,    *)
(* however healthy its probe finds the database and the connection.        *)
RefusedHeadWithdrawsReadiness == []<>(Of("refused") # {} => \E p \in Relays : ~IsReady(p))

(* An outage ends: unless a row is refused for ever, every process answers *)
(* ready for good once the faults are over.                                *)
OutageEndsReady == <>[](Of("refused") = {} => \A p \in Relays : IsReady(p))
=============================================================================
