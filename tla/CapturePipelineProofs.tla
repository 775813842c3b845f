----------------------- MODULE CapturePipelineProofs -----------------------
(***************************************************************************)
(* Proofs about CapturePipeline, for any number of commands, messages and  *)
(* processes, any max_deliver and any number of faults.  InductiveInv      *)
(* holds initially and every action preserves it; the invariants, the      *)
(* finality of a terminal status and the refinement follow.                *)
(***************************************************************************)
EXTENDS CapturePipeline, FiniteSetTheorems, TLAPS

USE CommandOfAssumption, MalformedAssumption, NoneAssumption, BoundsAssumption

(* After a fault nothing is claimed about what the consumers hold. *)
LEMMA FaultExcuses ==
    ASSUME TypeOK, faults' = faults + 1
    PROVE  DeliveredIsHeld'
BY DEF TypeOK, DeliveredIsHeld

(* A message keeps a holder when none puts it down. *)
LEMMA KeepsHolder ==
    ASSUME NEW m, Held(m),
           \A p \in Procs : hand[p] = m => hand'[p] = m,
           \A p \in Procs : \A i \in 1 .. Len(buffer[p]) :
               buffer[p][i] = m => \/ hand'[p] = m
                                   \/ \E k \in 1 .. Len(buffer'[p]) : buffer'[p][k] = m
    PROVE  Held(m)'
BY Zenon DEF Held

-----------------------------------------------------------------------------
(* The two transactions.                                                   *)

(* The typing of the database. *)
DatabaseOK ==
    /\ inbox \subseteq Commands /\ IsFiniteSet(inbox)
    /\ status \in [Commands -> Statuses]
    /\ queuedAt \in [Commands -> Nat]
    /\ lease \in [Commands -> {"none", "live", "lapsed"}]
    /\ outbox \in [Commands -> [Kinds -> Nat]]

(* The intake transaction keeps the outbox in step with the runs, touches  *)
(* no run a worker could hold, forgets no command, and leaves the command  *)
(* of a well-formed message in the inbox.                                  *)
LEMMA IntakeStep ==
    ASSUME InductiveInv, NEW m \in Messages, Intake(m)
    PROVE  /\ DatabaseOK' /\ ReportsMatchRun' /\ ClaimIsWhole'
           /\ lease' = lease
           /\ \A c \in Commands : status[c] \notin {"absent", "queued"} => status'[c] = status[c]
           /\ inbox \subseteq inbox'
           /\ m \notin Malformed => CommandOf[m] \in inbox'
<1> DEFINE c == CommandOf[m]
<1>0. c \in Commands /\ DatabaseOK
    BY DEF InductiveInv, TypeOK, DatabaseOK
<1>1. CASE m \in Malformed \/ c \in inbox
    BY <1>0, <1>1 DEF Intake, InductiveInv, DatabaseOK, database, ReportsMatchRun, ClaimIsWhole
<1>2. CASE ~(m \in Malformed \/ c \in inbox)
  <2>1. /\ inbox' = inbox \cup {c}
        /\ status' = [status EXCEPT ![c] = "queued"]
        /\ queuedAt' = [queuedAt EXCEPT ![c] = Cardinality(inbox) + 1]
        /\ Enqueue(c, {"queued"})
        /\ lease' = lease
      BY <1>2 DEF Intake, NextQueuedAt
  <2>2. status[c] = "absent"
      BY <1>0, <1>2 DEF InductiveInv, ReportsMatchRun
  <2>3. IsFiniteSet(inbox') /\ Cardinality(inbox) \in Nat
      BY <2>1, FS_AddElement, FS_CardinalityType DEF InductiveInv
  <2>4. DatabaseOK'
      BY <1>0, <2>1, <2>3 DEF InductiveInv, DatabaseOK, Statuses, Enqueue
  <2>5. ReportsMatchRun'
      BY <1>0, <2>1, <2>2 DEF InductiveInv, DatabaseOK, ReportsMatchRun, Enqueue, Kinds
  <2>6. ClaimIsWhole'
      BY <1>0, <2>1, <2>2 DEF InductiveInv, DatabaseOK, ClaimIsWhole
  <2> QED
      BY <1>0, <2>1, <2>2, <2>4, <2>5, <2>6 DEF InductiveInv, DatabaseOK
<1> QED
    BY <1>1, <1>2

(* The terminal transaction keeps the outbox in step with the runs and     *)
(* clears the claim of the run it settles.                                 *)
LEMMA SettleStep ==
    ASSUME InductiveInv, NEW c \in Commands, Executing(c), NEW to, NEW ks,
           Settle(c, to, ks),
           \/ to = "failed" /\ ks = {"failed"}
           \/ to = "succeeded" /\ ks \in CompletionEvents
    PROVE  /\ DatabaseOK' /\ ReportsMatchRun' /\ ClaimIsWhole'
           /\ inbox' = inbox
           /\ lease' = [lease EXCEPT ![c] = "none"]
           /\ status' = [status EXCEPT ![c] = to]
           /\ to \in Terminal
<1>0. DatabaseOK
    BY DEF InductiveInv, TypeOK, DatabaseOK
<1>1. DatabaseOK'
    BY <1>0 DEF DatabaseOK, Settle, Enqueue, Statuses
<1>2. ReportsMatchRun'
  <2>1. \A d \in Commands : d # c => outbox'[d] = outbox[d] /\ status'[d] = status[d]
      BY <1>0 DEF InductiveInv, DatabaseOK, Settle, Enqueue
  <2>2. /\ status'[c] = to
        /\ \A k \in Kinds : outbox'[c][k] = IF k \in ks THEN outbox[c][k] + 1 ELSE outbox[c][k]
        /\ \A k \in Kinds : outbox[c][k] \in Nat
      BY <1>0 DEF InductiveInv, DatabaseOK, Settle, Enqueue
  <2>3. /\ c \in inbox
        /\ outbox[c]["queued"] = 1 /\ outbox[c]["failed"] = 0
        /\ outbox[c]["succeeded"] = 0 /\ outbox[c]["partial"] = 0
        /\ outbox[c]["document"] = 0
      BY <2>2 DEF InductiveInv, ReportsMatchRun, Executing, Kinds
  <2>0. ReportsMatchRun /\ inbox' = inbox
      BY Zenon DEF InductiveInv, Settle
  <2>4. CASE to = "failed" /\ ks = {"failed"}
      BY ONLY <2>0, <2>1, <2>2, <2>3, <2>4, SMTT(30) DEF ReportsMatchRun, Kinds
  <2>5. CASE to = "succeeded" /\ ks = {"document", "succeeded"}
      BY ONLY <2>0, <2>1, <2>2, <2>3, <2>5, SMTT(30) DEF ReportsMatchRun, Kinds
  <2>6. CASE to = "succeeded" /\ ks = {"partial"}
      BY ONLY <2>0, <2>1, <2>2, <2>3, <2>6, SMTT(30) DEF ReportsMatchRun, Kinds
  <2> QED
      BY <2>4, <2>5, <2>6 DEF CompletionEvents
<1>3. ClaimIsWhole'
    BY <1>0 DEF InductiveInv, DatabaseOK, ClaimIsWhole, Settle
<1> QED
    BY <1>1, <1>2, <1>3 DEF Settle, Terminal

-----------------------------------------------------------------------------
(* One lemma per action of the broker and the command consumer.            *)

(* The conjuncts about the worker and the database depend on nothing else. *)
WorkerInv == OneFreshExecutor /\ JobsAreClaimed /\ LapsedMeansOverrun

(* The intake transaction leaves the workers as they were. *)
LEMMA IntakeKeepsWorkers ==
    ASSUME InductiveInv, NEW m \in Messages, Intake(m), UNCHANGED worker
    PROVE  WorkerInv'
<1>1. /\ lease' = lease
      /\ \A c \in Commands : status[c] \notin {"absent", "queued"} => status'[c] = status[c]
    BY IntakeStep
<1> QED
    BY <1>1 DEF InductiveInv, TypeOK, WorkerInv, worker, OneFreshExecutor, JobsAreClaimed,
                LapsedMeansOverrun

(* A delivery to a client, first or again, keeps the invariant. *)
LEMMA DeliverInductive ==
    ASSUME InductiveInv, NEW p \in Procs, NEW m \in Messages, Deliver(p, m)
    PROVE  InductiveInv'
<1> USE DEF InductiveInv
<1>0. /\ buffer \in [Procs -> Seq(Messages)] /\ buffer[p] \in Seq(Messages)
      /\ buffer' = [buffer EXCEPT ![p] = Append(buffer[p], m)] /\ hand' = hand
    BY DEF TypeOK, Deliver
<1>1. TypeOK'
  <2>1. buffer' \in [Procs -> Seq(Messages)]
      BY <1>0
  <2>2. deliveries' \in [Messages -> 0 .. MaxDeliver] /\ deliverable' \subseteq Messages
      BY DEF TypeOK, Deliver, DeliverableHasRoom
  <2> QED
      BY <2>1, <2>2 DEF TypeOK, Deliver, database, worker
<1>2. DeliveredIsHeld'
  <2> SUFFICES ASSUME faults = 0, NEW n \in Messages, n \notin acked, deliveries'[n] > 0
               PROVE  Held(n)'
      BY DEF DeliveredIsHeld, Deliver
  <2>1. CASE n = m
    <3>1. buffer'[p] = Append(buffer[p], m)
        BY <1>0
    <3>2. Len(buffer'[p]) \in 1 .. Len(buffer'[p]) /\ buffer'[p][Len(buffer'[p])] = m
        BY <1>0, <3>1
    <3> QED
        BY <2>1, <3>2, Zenon DEF Held
  <2>2. CASE n # m
    <3>1. Held(n)
        BY <2>2 DEF DeliveredIsHeld, Deliver, TypeOK
    <3>2. ASSUME NEW q \in Procs, NEW i \in 1 .. Len(buffer[q]), buffer[q][i] = n
          PROVE  i \in 1 .. Len(buffer'[q]) /\ buffer'[q][i] = n
        BY <1>0, <3>2
    <3> QED
        BY <1>0, <3>1, <3>2, KeepsHolder, Zenon
  <2> QED
      BY <2>1, <2>2
<1>3. DeliverableHasRoom'
    BY DEF DeliverableHasRoom, Deliver, TypeOK
<1>4. IdleIsUndecided' /\ DecidedIsDurable'
    BY DEF IdleIsUndecided, DecidedIsDurable, Deliver, database
<1> QED
    BY <1>1, <1>2, <1>3, <1>4
    DEF Deliver, database, worker, ReportsMatchRun, AckedIsDurable, OneFreshExecutor,
        ClaimIsWhole, JobsAreClaimed, LapsedMeansOverrun

(* The loop takes the oldest message of its client. *)
LEMMA TakeInductive ==
    ASSUME InductiveInv, NEW p \in Procs, Take(p)
    PROVE  InductiveInv'
<1> USE DEF InductiveInv
<1>0. /\ buffer \in [Procs -> Seq(Messages)] /\ buffer[p] \in Seq(Messages) /\ buffer[p] # << >>
      /\ hand \in [Procs -> Messages \cup {None}] /\ hand[p] = None
      /\ buffer' = [buffer EXCEPT ![p] = Tail(buffer[p])]
      /\ hand' = [hand EXCEPT ![p] = Head(buffer[p])]
      /\ UNCHANGED <<broker, decided, database, worker, faults>>
    BY DEF TypeOK, Take
<1>1. TypeOK'
  <2>1. buffer' \in [Procs -> Seq(Messages)] /\ hand' \in [Procs -> Messages \cup {None}]
      BY <1>0
  <2> QED
      BY <1>0, <2>1 DEF TypeOK, broker, database, worker
<1>2. DeliveredIsHeld'
  <2> SUFFICES ASSUME faults = 0, NEW n \in Messages, n \notin acked, deliveries[n] > 0
               PROVE  Held(n)'
      BY <1>0 DEF DeliveredIsHeld, broker
  <2>1. Held(n)
      BY DEF DeliveredIsHeld
  <2>2. \A q \in Procs : hand[q] = n => hand'[q] = n
      BY <1>0
  <2>3. ASSUME NEW q \in Procs, NEW i \in 1 .. Len(buffer[q]), buffer[q][i] = n
        PROVE  \/ hand'[q] = n
               \/ \E k \in 1 .. Len(buffer'[q]) : buffer'[q][k] = n
    <3>1. CASE q # p
        BY <1>0, <2>3, <3>1
    <3>2. CASE q = p /\ i = 1
        BY <1>0, <2>3, <3>2
    <3>3. CASE q = p /\ i # 1
      <4>1. i - 1 \in 1 .. Len(Tail(buffer[p])) /\ Tail(buffer[p])[i - 1] = buffer[p][i]
          BY <1>0, <3>3
      <4>2. buffer'[q] = Tail(buffer[p])
          BY <1>0, <3>3
      <4> QED
          BY <2>3, <3>3, <4>1, <4>2, Zenon
    <3> QED
        BY <3>1, <3>2, <3>3
  <2> QED
      BY <2>1, <2>2, <2>3, KeepsHolder, Zenon
<1>3. IdleIsUndecided' /\ DecidedIsDurable'
    BY <1>0 DEF IdleIsUndecided, DecidedIsDurable, database
<1> QED
    BY <1>0, <1>1, <1>2, <1>3
    DEF broker, database, worker, ReportsMatchRun, AckedIsDurable, OneFreshExecutor,
        ClaimIsWhole, JobsAreClaimed, LapsedMeansOverrun, DeliverableHasRoom

(* The broker takes a message back when ack_wait runs out. *)
LEMMA AckWaitExpiresInductive ==
    ASSUME InductiveInv, NEW m \in Messages, AckWaitExpires(m)
    PROVE  InductiveInv'
<1> USE DEF InductiveInv
<1>1. TypeOK' /\ DeliverableHasRoom'
    BY DEF TypeOK, DeliverableHasRoom, AckWaitExpires, consumer, database, worker
<1>2. DeliveredIsHeld'
    BY DEF DeliveredIsHeld, Held, AckWaitExpires, consumer
<1> QED
    BY <1>1, <1>2
    DEF AckWaitExpires, consumer, database, worker, ReportsMatchRun, AckedIsDurable,
        OneFreshExecutor, ClaimIsWhole, JobsAreClaimed, LapsedMeansOverrun,
        IdleIsUndecided, DecidedIsDurable

(* The intake transaction of consume_capture commits. *)
LEMMA ConsumeCaptureInductive ==
    ASSUME InductiveInv, NEW p \in Procs, ConsumeCapture(p)
    PROVE  InductiveInv'
<1> USE DEF InductiveInv
<1>0. hand[p] \in Messages /\ Intake(hand[p]) /\ UNCHANGED <<broker, buffer, hand, worker, faults>>
    BY DEF ConsumeCapture, TypeOK
<1>1. /\ DatabaseOK' /\ ReportsMatchRun' /\ ClaimIsWhole'
      /\ inbox \subseteq inbox'
      /\ hand[p] \notin Malformed => CommandOf[hand[p]] \in inbox'
    BY <1>0, IntakeStep
<1>2. WorkerInv'
    BY <1>0, IntakeKeepsWorkers
<1>3. TypeOK'
    BY <1>0, <1>1 DEF TypeOK, DatabaseOK, ConsumeCapture, broker, worker
<1>4. AckedIsDurable' /\ DecidedIsDurable' /\ IdleIsUndecided'
    BY <1>0, <1>1 DEF AckedIsDurable, DecidedIsDurable, IdleIsUndecided, ConsumeCapture, TypeOK, broker
<1>5. DeliverableHasRoom' /\ DeliveredIsHeld'
    BY <1>0 DEF DeliverableHasRoom, DeliveredIsHeld, Held, broker
<1> QED
    BY <1>1, <1>2, <1>3, <1>4, <1>5 DEF DatabaseOK, WorkerInv

(* consume_capture fails, with its transaction committed or not. *)
LEMMA ConsumeFailsInductive ==
    ASSUME InductiveInv, NEW p \in Procs, ConsumeFails(p)
    PROVE  InductiveInv'
<1> USE DEF InductiveInv
<1>0. /\ hand[p] \in Messages /\ hand[p] # None
      /\ hand' = [hand EXCEPT ![p] = None]
      /\ faults < MaxFaults /\ faults' = faults + 1
      /\ UNCHANGED <<broker, buffer, decided, worker>>
    BY DEF ConsumeFails, TypeOK
<1>1. /\ DatabaseOK' /\ ReportsMatchRun' /\ ClaimIsWhole' /\ inbox \subseteq inbox' /\ WorkerInv'
  <2>1. CASE Intake(hand[p])
      BY <1>0, <2>1, IntakeStep, IntakeKeepsWorkers
  <2>2. CASE UNCHANGED database
      BY <1>0, <2>2 DEF DatabaseOK, TypeOK, WorkerInv, database, worker, ReportsMatchRun, ClaimIsWhole,
                        OneFreshExecutor, JobsAreClaimed, LapsedMeansOverrun
  <2> QED
      BY <2>1, <2>2 DEF ConsumeFails
<1>2. TypeOK'
    BY <1>0, <1>1 DEF TypeOK, DatabaseOK, broker, worker
<1>3. AckedIsDurable' /\ DecidedIsDurable' /\ IdleIsUndecided'
    BY <1>0, <1>1 DEF AckedIsDurable, DecidedIsDurable, IdleIsUndecided, ConsumeFails, TypeOK, broker
<1>4. DeliveredIsHeld'
    BY <1>0, FaultExcuses, Zenon
<1>5. DeliverableHasRoom'
    BY <1>0 DEF DeliverableHasRoom, broker
<1> QED
    BY <1>1, <1>2, <1>3, <1>4, <1>5 DEF DatabaseOK, WorkerInv

(* The broker receives the acknowledgement of a decided message. *)
LEMMA AckInductive ==
    ASSUME InductiveInv, NEW p \in Procs, Ack(p)
    PROVE  InductiveInv'
<1> USE DEF InductiveInv
<1>0. hand[p] \in Messages /\ hand' = [hand EXCEPT ![p] = None]
    BY DEF Ack, TypeOK
<1>1. TypeOK' /\ DeliverableHasRoom'
    BY <1>0 DEF TypeOK, Ack, DeliverableHasRoom, database, worker
<1>2. AckedIsDurable' /\ DecidedIsDurable' /\ IdleIsUndecided'
    BY <1>0 DEF AckedIsDurable, DecidedIsDurable, IdleIsUndecided, Ack, TypeOK, database
<1>3. DeliveredIsHeld'
  <2> SUFFICES ASSUME faults = 0, NEW n \in Messages, n \notin acked', deliveries[n] > 0
               PROVE  Held(n)'
      BY DEF DeliveredIsHeld, Ack
  <2>1. n # hand[p] /\ Held(n) /\ buffer' = buffer
      BY DEF Ack, DeliveredIsHeld
  <2>2. \A q \in Procs : hand[q] = n => hand'[q] = n
      BY <1>0, <2>1 DEF TypeOK
  <2> QED
      BY <2>1, <2>2, KeepsHolder, Zenon
<1> QED
    BY <1>1, <1>2, <1>3
    DEF Ack, database, worker, ReportsMatchRun, OneFreshExecutor, ClaimIsWhole,
        JobsAreClaimed, LapsedMeansOverrun

(* The acknowledgement is lost on its way. *)
LEMMA AckLostInductive ==
    ASSUME InductiveInv, NEW p \in Procs, AckLost(p)
    PROVE  InductiveInv'
<1> USE DEF InductiveInv
<1>1. TypeOK' /\ DeliverableHasRoom'
    BY DEF TypeOK, AckLost, DeliverableHasRoom, broker, database, worker
<1>2. AckedIsDurable' /\ DecidedIsDurable' /\ IdleIsUndecided'
    BY DEF AckedIsDurable, DecidedIsDurable, IdleIsUndecided, AckLost, TypeOK, broker, database
<1>3. DeliveredIsHeld'
    BY FaultExcuses, Zenon DEF AckLost
<1> QED
    BY <1>1, <1>2, <1>3, ZenonT(30)
    DEF AckLost, database, worker, ReportsMatchRun, OneFreshExecutor, ClaimIsWhole,
        JobsAreClaimed, LapsedMeansOverrun

-----------------------------------------------------------------------------
(* One lemma per action of the worker loop.                                *)

(* The conjuncts about the broker and the consumers are kept by a step     *)
(* that leaves both alone and forgets no inbox record.                     *)
LEMMA BrokerUntouched ==
    ASSUME InductiveInv, UNCHANGED <<broker, consumer, faults>>, inbox \subseteq inbox'
    PROVE  /\ AckedIsDurable' /\ IdleIsUndecided' /\ DecidedIsDurable'
           /\ DeliverableHasRoom' /\ DeliveredIsHeld'
BY DEF InductiveInv, broker, consumer, AckedIsDurable, IdleIsUndecided, DecidedIsDurable,
       DeliverableHasRoom, DeliveredIsHeld, Held

(* claim_run gives a queued or an expired run to a worker. *)
LEMMA ClaimInductive ==
    ASSUME InductiveInv, NEW p \in Procs, NEW c \in Commands, ClaimQueuedRun(p, c)
    PROVE  InductiveInv'
<1> USE DEF InductiveInv
<1>1. /\ AckedIsDurable' /\ IdleIsUndecided' /\ DecidedIsDurable'
      /\ DeliverableHasRoom' /\ DeliveredIsHeld'
    BY BrokerUntouched DEF ClaimQueuedRun
<1>2. TypeOK' /\ IsFiniteSet(inbox)'
    BY DEF TypeOK, ClaimQueuedRun, broker, consumer, Statuses
<1>3. ReportsMatchRun' /\ ClaimIsWhole'
    BY DEF TypeOK, ReportsMatchRun, ClaimIsWhole, ClaimQueuedRun, Claimable
<1>4. \A q \in Procs : job[q] = c => q \in overrun
    BY DEF ClaimQueuedRun, Claimable, TypeOK, ClaimIsWhole, JobsAreClaimed, LapsedMeansOverrun
<1>5. OneFreshExecutor' /\ JobsAreClaimed' /\ LapsedMeansOverrun'
    BY <1>4 DEF ClaimQueuedRun, TypeOK, OneFreshExecutor, JobsAreClaimed, LapsedMeansOverrun
<1> QED
    BY <1>1, <1>2, <1>3, <1>5

(* The lease of a claim runs out under its worker. *)
LEMMA LeaseExpiresInductive ==
    ASSUME InductiveInv, NEW c \in Commands, LeaseExpires(c)
    PROVE  InductiveInv'
<1> USE DEF InductiveInv
<1>1. /\ AckedIsDurable' /\ IdleIsUndecided' /\ DecidedIsDurable'
      /\ DeliverableHasRoom' /\ DeliveredIsHeld'
    BY BrokerUntouched DEF LeaseExpires
<1>2. TypeOK' /\ IsFiniteSet(inbox)' /\ ReportsMatchRun' /\ ClaimIsWhole'
    BY DEF TypeOK, LeaseExpires, broker, consumer, ReportsMatchRun, ClaimIsWhole
<1>3. OneFreshExecutor' /\ JobsAreClaimed' /\ LapsedMeansOverrun'
    BY ZenonT(30) DEF LeaseExpires, TypeOK, OneFreshExecutor, JobsAreClaimed, LapsedMeansOverrun
<1> QED
    BY <1>1, <1>2, <1>3

(* A worker that gives up its run, after an unchanged or a settled         *)
(* database, keeps the invariant about the workers.                        *)
LEMMA ReleaseKeepsWorkers ==
    ASSUME InductiveInv, NEW p \in Procs,
           job' = [job EXCEPT ![p] = None], overrun' = overrun \ {p},
           \/ UNCHANGED <<status, lease>>
           \/ \E c \in Commands, to \in Terminal :
                 /\ status' = [status EXCEPT ![c] = to]
                 /\ lease' = [lease EXCEPT ![c] = "none"]
    PROVE  WorkerInv'
BY SMTT(30) DEF InductiveInv, TypeOK, WorkerInv, OneFreshExecutor, JobsAreClaimed, LapsedMeansOverrun, Terminal

(* The process stops over a database that is unchanged. *)
LEMMA StopInductive ==
    ASSUME InductiveInv, NEW p \in Procs, Stop(p), UNCHANGED <<broker, database>>
    PROVE  InductiveInv'
<1> USE DEF InductiveInv
<1>1. TypeOK' /\ DeliverableHasRoom' /\ IsFiniteSet(inbox)' /\ ReportsMatchRun' /\ ClaimIsWhole'
    BY SMTT(30) DEF TypeOK, Stop, DeliverableHasRoom, broker, database, ReportsMatchRun, ClaimIsWhole
<1>2. AckedIsDurable' /\ DecidedIsDurable' /\ IdleIsUndecided'
    BY DEF AckedIsDurable, DecidedIsDurable, IdleIsUndecided, Stop, TypeOK, broker, database
<1>3. WorkerInv'
    BY ReleaseKeepsWorkers, Zenon DEF Stop, database
<1>4. DeliveredIsHeld'
    BY FaultExcuses, Zenon DEF Stop
<1> QED
    BY <1>1, <1>2, <1>3, <1>4, ZenonT(30) DEF WorkerInv

(* The worker loop goes on after a terminal call that applied, or that     *)
(* found the run settled and changed nothing.                              *)
LEMMA ReturnInductive ==
    ASSUME InductiveInv, NEW p \in Procs, job[p] # None, Return(p), UNCHANGED broker,
           \/ UNCHANGED database
           \/ /\ Executing(job[p])
              /\ \/ Settle(job[p], "failed", {"failed"})
                 \/ \E ks \in CompletionEvents : Settle(job[p], "succeeded", ks)
    PROVE  InductiveInv'
<1> USE DEF InductiveInv
<1>0. job[p] \in Commands
    BY DEF TypeOK
<1>1. /\ DatabaseOK' /\ ReportsMatchRun' /\ ClaimIsWhole' /\ inbox' = inbox
      /\ \/ UNCHANGED <<status, lease>>
         \/ \E c \in Commands, to \in Terminal :
               /\ status' = [status EXCEPT ![c] = to]
               /\ lease' = [lease EXCEPT ![c] = "none"]
  <2>1. CASE UNCHANGED database
      BY <2>1, ZenonT(30) DEF database, DatabaseOK, TypeOK, ReportsMatchRun, ClaimIsWhole
  <2>2. CASE Executing(job[p]) /\ Settle(job[p], "failed", {"failed"})
      BY <1>0, <2>2, SettleStep, ZenonT(30)
  <2>3. CASE Executing(job[p]) /\ \E ks \in CompletionEvents : Settle(job[p], "succeeded", ks)
      BY <1>0, <2>3, SettleStep
  <2> QED
      BY <2>1, <2>2, <2>3, ZenonT(30)
<1>2. WorkerInv'
    BY <1>1, ReleaseKeepsWorkers, ZenonT(30) DEF Return
<1>3. /\ AckedIsDurable' /\ IdleIsUndecided' /\ DecidedIsDurable'
      /\ DeliverableHasRoom' /\ DeliveredIsHeld'
    BY <1>1, BrokerUntouched, ZenonT(30) DEF Return
<1>4. TypeOK'
    BY <1>1 DEF TypeOK, DatabaseOK, Return, broker, consumer
<1> QED
    BY <1>1, <1>2, <1>3, <1>4 DEF DatabaseOK, WorkerInv

-----------------------------------------------------------------------------
(* The theorems.                                                           *)

(* Every step of the pipeline, and every stuttering step, preserves the    *)
(* inductive invariant.                                                    *)
LEMMA StepInductive == InductiveInv /\ [Next]_vars => InductiveInv'
<1> SUFFICES ASSUME InductiveInv, [Next]_vars PROVE InductiveInv'
    OBVIOUS
<1>1. ASSUME NEW p \in Procs, NEW m \in Messages, Deliver(p, m) PROVE InductiveInv'
    BY <1>1, DeliverInductive
<1>2. ASSUME NEW m \in Messages, AckWaitExpires(m) PROVE InductiveInv'
    BY <1>2, AckWaitExpiresInductive
<1>3. ASSUME NEW p \in Procs, ConsumeCapture(p) PROVE InductiveInv'
    BY <1>3, ConsumeCaptureInductive
<1>4. ASSUME NEW p \in Procs, ConsumeFails(p) PROVE InductiveInv'
    BY <1>4, ConsumeFailsInductive
<1>5. ASSUME NEW p \in Procs, Ack(p) PROVE InductiveInv'
    BY <1>5, AckInductive
<1>6. ASSUME NEW p \in Procs, AckLost(p) PROVE InductiveInv'
    BY <1>6, AckLostInductive
<1>7. ASSUME NEW p \in Procs, NEW c \in Commands, ClaimQueuedRun(p, c) PROVE InductiveInv'
    BY <1>7, ClaimInductive
<1>8. ASSUME NEW c \in Commands, LeaseExpires(c) PROVE InductiveInv'
    BY <1>8, LeaseExpiresInductive
<1>9. ASSUME NEW p \in Procs, CompleteDocument(p) PROVE InductiveInv'
    BY <1>9, ReturnInductive, StopInductive DEF CompleteDocument
<1>10. ASSUME NEW p \in Procs, FailRun(p) PROVE InductiveInv'
    BY <1>10, ReturnInductive DEF FailRun
<1>11. ASSUME NEW p \in Procs, ProcessExits(p) PROVE InductiveInv'
    BY <1>11, StopInductive DEF ProcessExits
<1>13. ASSUME NEW p \in Procs, Take(p) PROVE InductiveInv'
    BY <1>13, TakeInductive
<1>12. CASE UNCHANGED vars
  <2> USE <1>12 DEF vars, broker, consumer, database, worker
  <2>1. TypeOK' /\ IsFiniteSet(inbox)'
      BY ZenonT(30) DEF InductiveInv, TypeOK
  <2>2. ReportsMatchRun' /\ ClaimIsWhole'
      BY DEF InductiveInv, ReportsMatchRun, ClaimIsWhole
  <2>3. OneFreshExecutor' /\ JobsAreClaimed' /\ LapsedMeansOverrun'
      BY DEF InductiveInv, OneFreshExecutor, JobsAreClaimed, LapsedMeansOverrun
  <2>4. AckedIsDurable' /\ IdleIsUndecided' /\ DecidedIsDurable' /\ DeliverableHasRoom'
      BY ZenonT(30) DEF InductiveInv, AckedIsDurable, IdleIsUndecided, DecidedIsDurable, DeliverableHasRoom
  <2>5. DeliveredIsHeld'
      BY DEF InductiveInv, DeliveredIsHeld, Held
  <2> QED
      BY <2>1, <2>2, <2>3, <2>4, <2>5, ZenonT(30) DEF InductiveInv
<1> QED
    BY <1>1, <1>2, <1>3, <1>4, <1>5, <1>6, <1>7, <1>8, <1>9, <1>10, <1>11, <1>12, <1>13
    DEF Next, PollFindsNothing

(* The inductive invariant holds initially. *)
LEMMA InitInductive == Init => InductiveInv
<1> SUFFICES ASSUME Init PROVE InductiveInv
    OBVIOUS
<1>1. IsFiniteSet(inbox)
    BY FS_EmptySet DEF Init
<1>2. TypeOK
    BY DEF Init, TypeOK, Statuses, Kinds
<1>3. ReportsMatchRun
    BY DEF Init, ReportsMatchRun, Kinds
<1>4. /\ AckedIsDurable /\ OneFreshExecutor /\ ClaimIsWhole /\ JobsAreClaimed
      /\ LapsedMeansOverrun /\ IdleIsUndecided /\ DecidedIsDurable
    BY DEF Init, AckedIsDurable, OneFreshExecutor, ClaimIsWhole, JobsAreClaimed,
           LapsedMeansOverrun, IdleIsUndecided, DecidedIsDurable
<1>5. DeliverableHasRoom /\ DeliveredIsHeld
    BY DEF Init, DeliverableHasRoom, DeliveredIsHeld
<1> QED
    BY <1>1, <1>2, <1>3, <1>4, <1>5 DEF InductiveInv

(* The inductive invariant holds in every reachable state of the pipeline. *)
THEOREM Inductive == Spec => []InductiveInv
BY InitInductive, StepInductive, PTL DEF Spec

(* Type correctness. *)
THEOREM TypeCorrect == Spec => []TypeOK
<1>1. InductiveInv => TypeOK
    BY DEF InductiveInv
<1> QED
    BY <1>1, Inductive, PTL

(* Run, inbox and outgoing messages always agree: whatever is redelivered, *)
(* re-claimed or lost, a command has at most one terminal report and the   *)
(* report says what became of its run.                                     *)
THEOREM ReportsAlwaysMatch == Spec => []ReportsMatchRun
<1>1. InductiveInv => ReportsMatchRun
    BY DEF InductiveInv
<1> QED
    BY <1>1, Inductive, PTL

(* No acknowledged well-formed command is missing from the inbox. *)
THEOREM AckedAlwaysDurable == Spec => []AckedIsDurable
<1>1. InductiveInv => AckedIsDurable
    BY DEF InductiveInv
<1> QED
    BY <1>1, Inductive, PTL

(* A lease admits one worker that is still inside it. *)
THEOREM LeaseExclusive == Spec => []OneFreshExecutor
<1>1. InductiveInv => OneFreshExecutor
    BY DEF InductiveInv
<1> QED
    BY <1>1, Inductive, PTL

(* The broker gives up on an unacknowledged message that no consumer still *)
(* holds only after a fault: without one, ack_wait may run out in a client *)
(* as often as it likes, and one of the copies is still acknowledged.      *)
THEOREM AbandonedByFaults == Spec => []AbandonedOnlyByFaults
<1>1. InductiveInv => AbandonedOnlyByFaults
    BY DEF InductiveInv, DeliveredIsHeld, AbandonedOnlyByFaults, Abandoned, TypeOK
<1> QED
    BY <1>1, Inductive, PTL

(* What a step does to the runs and the outbox: nothing, an intake, a      *)
(* claim, or the settlement of a running run.                              *)
LEMMA DatabaseSteps ==
    ASSUME InductiveInv, [Next]_vars
    PROVE  \/ UNCHANGED <<status, outbox>>
           \/ \E c \in Commands : /\ status[c] = "absent"
                                  /\ status' = [status EXCEPT ![c] = "queued"]
                                  /\ Enqueue(c, {"queued"})
           \/ \E c \in Commands : /\ Claimable(c)
                                  /\ status' = [status EXCEPT ![c] = "running"]
                                  /\ outbox' = outbox
           \/ \E c \in Commands : /\ Executing(c)
                                  /\ status' = [status EXCEPT ![c] = "failed"]
                                  /\ Enqueue(c, {"failed"})
           \/ \E c \in Commands, ks \in CompletionEvents :
                                  /\ Executing(c)
                                  /\ status' = [status EXCEPT ![c] = "succeeded"]
                                  /\ Enqueue(c, ks)
<1> DEFINE Goal == \/ UNCHANGED <<status, outbox>>
                   \/ \E c \in Commands : /\ status[c] = "absent"
                                          /\ status' = [status EXCEPT ![c] = "queued"]
                                          /\ Enqueue(c, {"queued"})
                   \/ \E c \in Commands : /\ Claimable(c)
                                          /\ status' = [status EXCEPT ![c] = "running"]
                                          /\ outbox' = outbox
                   \/ \E c \in Commands : /\ Executing(c)
                                          /\ status' = [status EXCEPT ![c] = "failed"]
                                          /\ Enqueue(c, {"failed"})
                   \/ \E c \in Commands, ks \in CompletionEvents :
                                          /\ Executing(c)
                                          /\ status' = [status EXCEPT ![c] = "succeeded"]
                                          /\ Enqueue(c, ks)
<1>1. ASSUME NEW m \in Messages, Intake(m) PROVE Goal
    BY <1>1, ZenonT(30) DEF Intake, database, InductiveInv, ReportsMatchRun
<1>2. ASSUME NEW p \in Procs, ConsumeCapture(p) \/ ConsumeFails(p) PROVE Goal
    BY <1>1, <1>2, ZenonT(30) DEF ConsumeCapture, ConsumeFails, database, InductiveInv, TypeOK
<1>3. ASSUME NEW p \in Procs, NEW c \in Commands, ClaimQueuedRun(p, c) PROVE Goal
    BY <1>3, Zenon DEF ClaimQueuedRun
<1>4. ASSUME NEW p \in Procs, CompleteDocument(p) PROVE Goal
    BY <1>4 DEF CompleteDocument, Settle, database, InductiveInv, TypeOK
<1>5. ASSUME NEW p \in Procs, FailRun(p) PROVE Goal
    BY <1>5 DEF FailRun, Settle, database, InductiveInv, TypeOK
<1> QED
    BY <1>2, <1>3, <1>4, <1>5, ZenonT(30)
    DEF Next, vars, database, Deliver, Take, AckWaitExpires, Ack, AckLost, PollFindsNothing,
        LeaseExpires, ProcessExits

(* A settled run keeps its status and sends nothing more. *)
THEOREM FinalityHolds == Spec => TerminalIsFinal
<1>1. ASSUME InductiveInv, [Next]_vars, NEW c \in Commands, status[c] \in Terminal
      PROVE  status'[c] = status[c] /\ outbox'[c] = outbox[c]
    BY <1>1, DatabaseSteps
    DEF Claimable, Executing, Terminal, Enqueue, InductiveInv, TypeOK
<1>2. InductiveInv /\ [Next]_vars =>
          [\A c \in Commands : status[c] \in Terminal =>
               status'[c] = status[c] /\ outbox'[c] = outbox[c]]_vars
    BY <1>1, Zenon
<1> QED
    BY <1>2, Inductive, PTL DEF Spec, TerminalIsFinal

(* The pipeline implements CaptureLifecycle. *)
THEOREM Refinement == Spec => ImplementsLifecycle
<1>1. Init => Lifecycle!Init
    BY DEF Init, Lifecycle!Init, Outcome, Kinds, Lifecycle!Kinds
<1>2. InductiveInv /\ [Next]_vars => [Lifecycle!Next]_(Lifecycle!vars)
  <2> SUFFICES ASSUME InductiveInv, [Next]_vars
               PROVE  Lifecycle!Next \/ UNCHANGED <<Outcome, outbox>>
      BY DEF Lifecycle!vars
  <2> USE DEF Outcome, InductiveInv, TypeOK, Statuses
  <2>1. CASE UNCHANGED <<status, outbox>>
      BY <2>1
  <2>2. ASSUME NEW c \in Commands, status[c] = "absent",
               status' = [status EXCEPT ![c] = "queued"], Enqueue(c, {"queued"})
        PROVE  Lifecycle!Next
      BY <2>2, Zenon DEF Lifecycle!Next, Lifecycle!Accept, Lifecycle!Step, Lifecycle!Announce,
                  Enqueue, Kinds, Lifecycle!Kinds
  <2>3. ASSUME NEW c \in Commands, Claimable(c),
               status' = [status EXCEPT ![c] = "running"], outbox' = outbox
        PROVE  UNCHANGED <<Outcome, outbox>>
      BY <2>3 DEF Claimable
  <2>4. ASSUME NEW c \in Commands, Executing(c),
               status' = [status EXCEPT ![c] = "failed"], Enqueue(c, {"failed"})
        PROVE  Lifecycle!Next
      BY <2>4, Zenon DEF Lifecycle!Next, Lifecycle!Fail, Lifecycle!Step, Lifecycle!Announce,
                  Executing, Enqueue, Kinds, Lifecycle!Kinds
  <2>5. ASSUME NEW c \in Commands, NEW ks \in CompletionEvents, Executing(c),
               status' = [status EXCEPT ![c] = "succeeded"], Enqueue(c, ks)
        PROVE  Lifecycle!Next
      BY <2>5, Zenon DEF Lifecycle!Next, Lifecycle!Succeed, Lifecycle!Step, Lifecycle!Announce,
                  Executing, Enqueue, CompletionEvents, Kinds, Lifecycle!Kinds
  <2> QED
      BY <2>1, <2>2, <2>3, <2>4, <2>5, DatabaseSteps, ZenonT(30)
<1> QED
    BY <1>1, <1>2, Inductive, PTL DEF Spec, ImplementsLifecycle, Lifecycle!Spec
=============================================================================
