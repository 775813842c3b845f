--------------------------- MODULE CapturePipeline ---------------------------
(***************************************************************************)
(* The path of a capture command through the extractor: JetStream delivers *)
(* it at least once, the command consumer turns it into one inbox record,  *)
(* one queued run and one queued report in one transaction, and the worker *)
(* loop leases the run, executes it and commits one terminal transition    *)
(* with its outgoing messages.                                             *)
(*                                                                         *)
(* Several extractor processes may run at once (a claim skips rows another *)
(* process has locked); each has one consumer loop and one worker loop.    *)
(* A process may stop between any two steps and is restarted by systemd,   *)
(* so stopping only loses what it held in memory.  Time is abstracted to   *)
(* two events, the end of an ack_wait and the end of a lease, which may    *)
(* come at any moment.                                                     *)
(***************************************************************************)
EXTENDS Naturals, FiniteSets, Sequences

CONSTANTS Commands,     \* command identifiers
          Messages,     \* messages in the command stream
          CommandOf,    \* the command a message carries
          Malformed,    \* messages decode_capture or url_source refuse
          Procs,        \* extractor processes
          None,         \* no message, no run
          MaxDeliver,   \* CAPTURE_MAX_DELIVER of the durable consumer
          Prefetch,     \* bound: messages a client holds that it has not handed to its loop
          MaxFaults     \* bound: process exits, database errors, lost acks

ASSUME CommandOfAssumption == CommandOf \in [Messages -> Commands]
ASSUME MalformedAssumption == Malformed \subseteq Messages
ASSUME NoneAssumption == None \notin Commands /\ None \notin Messages
ASSUME BoundsAssumption == MaxDeliver \in Nat \ {0} /\ Prefetch \in Nat /\ MaxFaults \in Nat

VARIABLES
    \* the broker
    deliverable,  \* messages the durable consumer may hand out now
    deliveries,   \* times each message was handed out
    acked,        \* messages acknowledged
    \* one command consumer per process
    buffer,       \* messages pulled by messages(), oldest first
    hand,         \* the message being handled, or None
    decided,      \* its handler returned: only the acknowledgement is left
    \* the database
    inbox,        \* command_ids in extractor.inbox_events
    status,       \* status of the command's run ("absent" before intake)
    queuedAt,     \* queued_at of the run
    lease,        \* claimed_until of the run: "none", "live" or "lapsed"
    outbox,       \* rows of extractor.outbox_events, counted by kind
    \* one worker loop per process
    job,          \* the command whose run is being executed, or None
    overrun,      \* processes executing past the end of their own lease
    \* bookkeeping
    faults        \* faults so far, capped by MaxFaults

broker   == <<deliverable, deliveries, acked>>
consumer == <<buffer, hand, decided>>
database == <<inbox, status, queuedAt, lease, outbox>>
worker   == <<job, overrun>>
vars     == <<broker, consumer, database, worker, faults>>

Statuses == {"absent", "queued", "running", "succeeded", "failed"}
Terminal == {"succeeded", "failed"}
Kinds    == {"queued", "document", "succeeded", "partial", "failed"}

TypeOK ==
    /\ deliverable \subseteq Messages
    /\ deliveries \in [Messages -> 0 .. MaxDeliver]
    /\ acked \subseteq Messages
    /\ buffer \in [Procs -> Seq(Messages)]
    /\ hand \in [Procs -> Messages \cup {None}]
    /\ decided \in [Procs -> BOOLEAN]
    /\ inbox \subseteq Commands
    /\ status \in [Commands -> Statuses]
    /\ queuedAt \in [Commands -> Nat]
    /\ lease \in [Commands -> {"none", "live", "lapsed"}]
    /\ outbox \in [Commands -> [Kinds -> Nat]]
    /\ job \in [Procs -> Commands \cup {None}]
    /\ overrun \subseteq Procs
    /\ faults \in 0 .. MaxFaults

Init ==
    /\ deliverable = Messages
    /\ deliveries = [m \in Messages |-> 0]
    /\ acked = {}
    /\ buffer = [p \in Procs |-> << >>]
    /\ hand = [p \in Procs |-> None]
    /\ decided = [p \in Procs |-> FALSE]
    /\ inbox = {}
    /\ status = [c \in Commands |-> "absent"]
    /\ queuedAt = [c \in Commands |-> 0]
    /\ lease = [c \in Commands |-> "none"]
    /\ outbox = [c \in Commands |-> [k \in Kinds |-> 0]]
    /\ job = [p \in Procs |-> None]
    /\ overrun = {}
    /\ faults = 0

-----------------------------------------------------------------------------
(* The broker and the command consumer.                                    *)

(* The pull of consumer.messages() is answered, also while the loop is     *)
(* busy: ack_wait starts to run before the loop sees the message.          *)
Deliver(p, m) ==
    /\ Len(buffer[p]) < Prefetch
    /\ m \in deliverable
    /\ deliverable' = deliverable \ {m}
    /\ deliveries' = [deliveries EXCEPT ![m] = @ + 1]
    /\ buffer' = [buffer EXCEPT ![p] = Append(@, m)]
    /\ UNCHANGED <<acked, hand, decided, database, worker, faults>>

(* messages.next(): the loop takes the oldest message of its client. *)
Take(p) ==
    /\ hand[p] = None
    /\ buffer[p] # << >>
    /\ hand' = [hand EXCEPT ![p] = Head(buffer[p])]
    /\ buffer' = [buffer EXCEPT ![p] = Tail(@)]
    /\ UNCHANGED <<broker, decided, database, worker, faults>>

(* An unacknowledged message becomes deliverable again after ack_wait,     *)
(* whether it still waits in a client, its handler is busy or it is lost,  *)
(* until max_deliver is reached.                                           *)
AckWaitExpires(m) ==
    /\ m \notin acked \cup deliverable
    /\ deliveries[m] \in 1 .. MaxDeliver - 1
    /\ deliverable' = deliverable \cup {m}
    /\ UNCHANGED <<deliveries, acked, consumer, database, worker, faults>>

(* enqueue_event: one more outbox row of each kind in ks for the command. *)
Enqueue(c, ks) ==
    outbox' = [outbox EXCEPT ![c] = [k \in Kinds |-> IF k \in ks THEN @[k] + 1 ELSE @[k]]]

(* queued_at is the transaction's timestamp: intake order. *)
NextQueuedAt == Cardinality(inbox) + 1

(* Variant: the inbox conflict is not taken as a duplicate. *)
Intake_NoDedup(m) ==
    LET c == CommandOf[m] IN
    IF m \in Malformed
    THEN UNCHANGED database
    ELSE /\ inbox' = inbox \cup {c}
         /\ status' = [status EXCEPT ![c] = "queued"]
         /\ queuedAt' = [queuedAt EXCEPT ![c] = NextQueuedAt]
         /\ Enqueue(c, {"queued"})
         /\ UNCHANGED lease

(* The intake transaction of consume_capture.  A refused message rolls it  *)
(* back and a known command_id makes it a no-op; otherwise the inbox       *)
(* record, the run and the queued report commit together.                  *)
Intake(m) ==
    LET c == CommandOf[m] IN
    IF m \in Malformed \/ c \in inbox
    THEN UNCHANGED database
    ELSE /\ inbox' = inbox \cup {c}
         /\ status' = [status EXCEPT ![c] = "queued"]
         /\ queuedAt' = [queuedAt EXCEPT ![c] = NextQueuedAt]
         /\ Enqueue(c, {"queued"})
         /\ UNCHANGED lease

(* consume_capture returns Applied, Duplicate or a permanent refusal: in   *)
(* every case the loop goes on to acknowledge.                             *)
ConsumeCapture(p) ==
    /\ hand[p] # None /\ ~decided[p]
    /\ Intake(hand[p])
    /\ decided' = [decided EXCEPT ![p] = TRUE]
    /\ UNCHANGED <<broker, buffer, hand, worker, faults>>

(* Variant: a Database error is acknowledged like a refusal. *)
ConsumeFails_Acks(p) ==
    /\ hand[p] # None /\ ~decided[p]
    /\ faults < MaxFaults
    /\ faults' = faults + 1
    /\ Intake(hand[p]) \/ UNCHANGED database
    /\ decided' = [decided EXCEPT ![p] = TRUE]
    /\ UNCHANGED <<broker, buffer, hand, worker>>

(* consume_capture returns a Database error, and the loop goes on to the   *)
(* next message without acknowledging.  The connection may have failed     *)
(* before the transaction committed or after, so both effects are possible. *)
ConsumeFails(p) ==
    /\ hand[p] # None /\ ~decided[p]
    /\ faults < MaxFaults
    /\ faults' = faults + 1
    /\ Intake(hand[p]) \/ UNCHANGED database
    /\ hand' = [hand EXCEPT ![p] = None]
    /\ UNCHANGED <<broker, buffer, decided, worker>>

(* message.ack() reaches the broker. *)
Ack(p) ==
    /\ hand[p] # None /\ decided[p]
    /\ acked' = acked \cup {hand[p]}
    /\ deliverable' = deliverable \ {hand[p]}
    /\ hand' = [hand EXCEPT ![p] = None]
    /\ decided' = [decided EXCEPT ![p] = FALSE]
    /\ UNCHANGED <<deliveries, buffer, database, worker, faults>>

(* message.ack() fails: the loop logs it and goes on. *)
AckLost(p) ==
    /\ hand[p] # None /\ decided[p]
    /\ faults < MaxFaults
    /\ faults' = faults + 1
    /\ hand' = [hand EXCEPT ![p] = None]
    /\ decided' = [decided EXCEPT ![p] = FALSE]
    /\ UNCHANGED <<broker, buffer, database, worker>>

-----------------------------------------------------------------------------
(* The worker loop.                                                        *)

(* Variants: the claim ignores claimed_until; a lapsed claim is never retaken. *)
Claimable_IgnoresLease(c) == status[c] \in {"queued", "running"}
Claimable_QueuedOnly(c) == status[c] = "queued"

(* The where clause of the claim. *)
Claimable(c) == status[c] = "queued" \/ (status[c] = "running" /\ lease[c] # "live")

(* claim_queued_run: the oldest claimable run is leased to p.  Every       *)
(* process claims under the same name, so only claimed_until tells.        *)
ClaimQueuedRun(p, c) ==
    /\ job[p] = None
    /\ Claimable(c)
    /\ \A d \in Commands : Claimable(d) => queuedAt[c] <= queuedAt[d]
    /\ status' = [status EXCEPT ![c] = "running"]
    /\ lease' = [lease EXCEPT ![c] = "live"]
    /\ job' = [job EXCEPT ![p] = c]
    /\ UNCHANGED <<broker, consumer, inbox, queuedAt, outbox, overrun, faults>>

(* A poll that finds nothing to claim drops its permit and waits again. *)
PollFindsNothing(p) ==
    /\ job[p] = None
    /\ \A c \in Commands : ~Claimable(c)
    /\ UNCHANGED vars

(* claimed_until passes.  Nothing renews a lease. *)
LeaseExpires(c) ==
    /\ lease[c] = "live"
    /\ lease' = [lease EXCEPT ![c] = "lapsed"]
    /\ overrun' = overrun \cup {p \in Procs : job[p] = c}
    /\ UNCHANGED <<broker, consumer, inbox, status, queuedAt, outbox, job, faults>>

(* process_run returned: the permit is dropped and the loop polls again. *)
Return(p) ==
    /\ job' = [job EXCEPT ![p] = None]
    /\ overrun' = overrun \ {p}
    /\ UNCHANGED <<consumer, faults>>

(* The whole process stops: its client, its consumer and its worker lose   *)
(* what they held, so one stop may end several deliveries.                 *)
Stop(p) ==
    /\ job' = [job EXCEPT ![p] = None]
    /\ overrun' = overrun \ {p}
    /\ buffer' = [buffer EXCEPT ![p] = << >>]
    /\ hand' = [hand EXCEPT ![p] = None]
    /\ decided' = [decided EXCEPT ![p] = FALSE]
    /\ faults < MaxFaults
    /\ faults' = faults + 1

(* The guard of every terminal update: where run_id = $1 and status = 'running'. *)
Executing(c) == status[c] = "running"

(* The terminal transaction: the run leaves 'running', its claim is        *)
(* cleared and the messages in ks are enqueued, all or nothing.            *)
Settle(c, to, ks) ==
    /\ status' = [status EXCEPT ![c] = to]
    /\ lease' = [lease EXCEPT ![c] = "none"]
    /\ Enqueue(c, ks)
    /\ UNCHANGED <<inbox, queuedAt>>

(* Variant: the document is sent whatever its size. *)
CompletionEvents_Unguarded == {{"document", "succeeded"}, {"document", "partial"}}

(* enqueue_completion_events: a document that fits max_event_bytes is sent *)
(* with a success report, a larger one only as a partial success.          *)
CompletionEvents == {{"document", "succeeded"}, {"partial"}}

(* complete: the update applies; or the run already succeeded and this is  *)
(* a Duplicate; or it already failed, InvalidRunState leaves process_run   *)
(* and with it the worker loop, and the process stops.                     *)
CompleteDocument(p) ==
    /\ job[p] # None
    /\ \/ /\ Executing(job[p])
          /\ \E ks \in CompletionEvents : Settle(job[p], "succeeded", ks)
          /\ Return(p)
       \/ /\ status[job[p]] = "succeeded"
          /\ UNCHANGED database
          /\ Return(p)
       \/ /\ ~Executing(job[p]) /\ status[job[p]] # "succeeded"
          /\ UNCHANGED database
          /\ Stop(p)
    /\ UNCHANGED broker

(* fail_run and reject: the update applies, or the run left 'running' and  *)
(* the call is a Duplicate.                                                *)
FailRun(p) ==
    /\ job[p] # None
    /\ IF Executing(job[p])
       THEN Settle(job[p], "failed", {"failed"})
       ELSE UNCHANGED database
    /\ Return(p)
    /\ UNCHANGED broker

(* A crash, a forced cancellation at the end of the shutdown grace, or an  *)
(* error that process_run, a claim or a transaction returns to the worker  *)
(* loop, which ends the process.                                           *)
ProcessExits(p) ==
    /\ buffer[p] # << >> \/ hand[p] # None \/ job[p] # None
    /\ Stop(p)
    /\ UNCHANGED <<broker, database>>

-----------------------------------------------------------------------------
Next ==
    \/ \E p \in Procs, m \in Messages : Deliver(p, m)
    \/ \E p \in Procs : Take(p)
    \/ \E m \in Messages : AckWaitExpires(m)
    \/ \E p \in Procs : ConsumeCapture(p)
    \/ \E p \in Procs : ConsumeFails(p)
    \/ \E p \in Procs : Ack(p)
    \/ \E p \in Procs : AckLost(p)
    \/ \E p \in Procs, c \in Commands : ClaimQueuedRun(p, c)
    \/ \E p \in Procs : PollFindsNothing(p)
    \/ \E c \in Commands : LeaseExpires(c)
    \/ \E p \in Procs : CompleteDocument(p)
    \/ \E p \in Procs : FailRun(p)
    \/ \E p \in Procs : ProcessExits(p)

Spec == Init /\ [][Next]_vars

(* Every loop keeps polling, a process that stops is restarted, time       *)
(* passes, and every external call of process_run has a deadline, so a     *)
(* started execution returns.  Faults, deliveries and claims are finite,   *)
(* so it is enough that something happens while something can.             *)
FairSpec == Spec /\ WF_vars(Next)

-----------------------------------------------------------------------------
(* Properties.                                                             *)

(* A command has a run exactly when it has an inbox record, and the outbox *)
(* holds exactly the messages the run's status calls for: one queued       *)
(* report, at most one terminal report, and the document only beside a     *)
(* full success.  Intake and the terminal updates keep this across         *)
(* redelivery, unknown commits, re-claims and workers racing on one run.   *)
ReportsMatchRun ==
    \A c \in Commands :
        /\ (c \in inbox) = (status[c] # "absent")
        /\ outbox[c]["queued"] = IF status[c] = "absent" THEN 0 ELSE 1
        /\ outbox[c]["failed"] = IF status[c] = "failed" THEN 1 ELSE 0
        /\ outbox[c]["succeeded"] + outbox[c]["partial"]
              = IF status[c] = "succeeded" THEN 1 ELSE 0
        /\ outbox[c]["document"] = outbox[c]["succeeded"]

(* The consumer acknowledges only durable outcomes: once the broker has    *)
(* forgotten a well-formed message, its command is in the inbox.           *)
AckedIsDurable == \A m \in acked \ Malformed : CommandOf[m] \in inbox

(* A copy of the message is with a client or its loop. *)
Held(m) ==
    \E p \in Procs : hand[p] = m \/ \E i \in 1 .. Len(buffer[p]) : buffer[p][i] = m

(* max_deliver is not used up by ack_wait alone: a message the broker has  *)
(* given up on, that no consumer will still handle, met a fault.  One stop *)
(* ends every delivery its process held, so one fault can be enough.       *)
Abandoned(m) == deliveries[m] = MaxDeliver /\ m \notin acked /\ ~Held(m)

AbandonedOnlyByFaults == \A m \in Messages : Abandoned(m) => faults > 0

(* The lease keeps a run to one worker: of the processes executing a run,  *)
(* at most one is still inside its own lease.                              *)
OneFreshExecutor ==
    \A p, q \in Procs \ overrun : job[p] = job[q] /\ job[p] # None => p = q

(* What the proofs add to the invariants above.  A claim is present        *)
(* exactly while the run is running; a worker only holds a run that was    *)
(* claimed; a lapsed lease leaves no executor inside it; an idle consumer  *)
(* has nothing to acknowledge; a handler that returned left a durable      *)
(* record behind; a deliverable message has a delivery left; and without   *)
(* faults a message that was delivered is held until it is acknowledged.   *)
ClaimIsWhole == \A c \in Commands : (lease[c] = "none") = (status[c] # "running")

JobsAreClaimed ==
    \A p \in Procs : job[p] # None => status[job[p]] \notin {"absent", "queued"}

LapsedMeansOverrun ==
    \A p \in Procs : job[p] # None /\ lease[job[p]] = "lapsed" => p \in overrun

IdleIsUndecided == \A p \in Procs : hand[p] = None => ~decided[p]

DecidedIsDurable ==
    \A p \in Procs : hand[p] # None /\ decided[p] /\ hand[p] \notin Malformed
                        => CommandOf[hand[p]] \in inbox

DeliverableHasRoom == \A m \in deliverable : deliveries[m] < MaxDeliver

DeliveredIsHeld ==
    faults = 0 => \A m \in Messages \ acked : deliveries[m] > 0 => Held(m)

InductiveInv ==
    /\ TypeOK /\ IsFiniteSet(inbox)
    /\ ReportsMatchRun /\ AckedIsDurable /\ OneFreshExecutor
    /\ ClaimIsWhole /\ JobsAreClaimed /\ LapsedMeansOverrun
    /\ IdleIsUndecided /\ DecidedIsDurable
    /\ DeliverableHasRoom /\ DeliveredIsHeld

(* The first terminal transition wins: whatever a late worker does, a      *)
(* settled run keeps its status and sends nothing more.                    *)
TerminalIsFinal ==
    [][\A c \in Commands : status[c] \in Terminal =>
           status'[c] = status[c] /\ outbox'[c] = outbox[c]]_vars

(* The platform's view of a run: queued and running are both "accepted". *)
Outcome == [c \in Commands |-> CASE status[c] = "absent" -> "unknown"
                                 [] status[c] \in {"queued", "running"} -> "accepted"
                                 [] OTHER -> status[c]]

Lifecycle == INSTANCE CaptureLifecycle WITH outcome <- Outcome, announced <- outbox

(* The pipeline implements the promise made to the platform: each command  *)
(* is accepted once and settled at most once, and the outbox rows written  *)
(* in a transaction are exactly the announcement of its change of state.   *)
ImplementsLifecycle == Lifecycle!Spec

(* Every well-formed command reaches a terminal status, however often it   *)
(* is redelivered or re-claimed, unless the broker gave up on its message  *)
(* before any intake: a command in the inbox is never lost.                *)
EveryCommandSettles ==
    <>[](\A m \in Messages \ Malformed :
            \/ status[CommandOf[m]] \in Terminal
            \/ Abandoned(m) /\ CommandOf[m] \notin inbox)
=============================================================================
