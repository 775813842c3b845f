----------------------------- MODULE RunLease -----------------------------
(***************************************************************************)
(* The lease of a claimed run against the deadlines of what its worker     *)
(* does.  A claim is written once, for worker_lease_seconds, and nothing   *)
(* extends it; the worker meanwhile performs one of the network plans of   *)
(* process_run (RunFlow, NetworkPlan), each operation under its own total  *)
(* deadline.                                                               *)
(*                                                                         *)
(* Time is a tick of all timers.  tokio ends a fetch at its deadline.  The *)
(* wait for a render result is looser: request_render publishes and looks  *)
(* its consumer up before the deadline starts, and compares with it only   *)
(* between two pulls, so the wait may exceed it by those calls.  The code  *)
(* bounds neither them nor what surrounds the network operations; Prepare, *)
(* Overrun and Work stand for whatever bounds hold.                        *)
(***************************************************************************)
EXTENDS NetworkPlans, Integers, Sequences

CONSTANTS Runs,           \* extraction runs
          Lease,          \* bus.worker_lease_seconds
          FetchTimeout,   \* fetch.total_timeout_ms
          RenderTimeout,  \* render.total_timeout_ms
          Prepare,        \* bound on what precedes the first network operation
          Overrun,        \* bound on publication, consumer lookup and the last pull
          Work            \* bound on what follows the last network operation

ASSUME LeaseAssumption == /\ Lease \in Nat /\ FetchTimeout \in Nat /\ RenderTimeout \in Nat
                          /\ Prepare \in Nat /\ Overrun \in Nat /\ Work \in Nat

(* validate_bus: the only relation between the lease and a deadline that   *)
(* the configuration check demands.                                        *)
ASSUME ValidatedConfig == Lease > FetchTimeout

VARIABLES runStatus,  \* of each run
          lease,      \* time left until claimed_until
          phase,      \* of each worker
          job,        \* the run it executes
          plan,       \* the deadlines of its two network operations (0: none)
          timer       \* time left until the deadline of the current operation

leaseVars == <<runStatus, lease, phase, job, plan, timer>>

(* The longest each operation may take. *)
Deadline(operation) == IF operation = "fetch" THEN FetchTimeout ELSE RenderTimeout + Overrun

(* The deadlines of a sequence of operations, 0 for one it does not have.  *)
Deadlines(operations) ==
    [first |-> IF operations = << >> THEN 0 ELSE Deadline(operations[1]),
     second |-> IF Len(operations) < 2 THEN 0 ELSE Deadline(operations[2])]

(* What an execution may be given: the plans of every source. *)
Budgets == {Deadlines(operations) : operations \in UNION {Plans[c] : c \in DOMAIN Plans}}

Phases == {"idle", "start", "first", "second", "finish"}

LeaseTypeOK ==
    /\ runStatus \in [Runs -> {"queued", "running", "settled"}]
    /\ lease \in [Runs -> 0 .. Lease]
    /\ phase \in [Workers -> Phases]
    /\ job \in [Workers -> Runs]
    /\ plan \in [Workers -> Budgets]
    /\ timer \in [Workers -> Nat]

Executing(w) == phase[w] # "idle"

LeaseInit ==
    /\ runStatus = [r \in Runs |-> "queued"]
    /\ lease = [r \in Runs |-> 0]
    /\ phase = [w \in Workers |-> "idle"]
    /\ job \in [Workers -> Runs]
    /\ plan = [w \in Workers |-> Deadlines(<< >>)]
    /\ timer = [w \in Workers |-> 0]

(* Variant: the claim lasts as long as one fetch may. *)
ClaimQueuedRun_ShortLease(w, r) ==
    /\ ~Executing(w)
    /\ runStatus[r] = "queued" \/ (runStatus[r] = "running" /\ lease[r] = 0)
    /\ runStatus' = [runStatus EXCEPT ![r] = "running"]
    /\ lease' = [lease EXCEPT ![r] = FetchTimeout]
    /\ job' = [job EXCEPT ![w] = r]
    /\ \E p \in Budgets : plan' = [plan EXCEPT ![w] = p]
    /\ timer' = [timer EXCEPT ![w] = Prepare]
    /\ phase' = [phase EXCEPT ![w] = "start"]

(* claim_queued_run, and process_run starts. *)
ClaimQueuedRun(w, r) ==
    /\ ~Executing(w)
    /\ runStatus[r] = "queued" \/ (runStatus[r] = "running" /\ lease[r] = 0)
    /\ runStatus' = [runStatus EXCEPT ![r] = "running"]
    /\ lease' = [lease EXCEPT ![r] = Lease]
    /\ job' = [job EXCEPT ![w] = r]
    /\ \E p \in Budgets : plan' = [plan EXCEPT ![w] = p]
    /\ timer' = [timer EXCEPT ![w] = Prepare]
    /\ phase' = [phase EXCEPT ![w] = "start"]

(* The source is routed and its first operation starts. *)
StartFirst(w) ==
    /\ phase[w] = "start"
    /\ phase' = [phase EXCEPT ![w] = "first"]
    /\ timer' = [timer EXCEPT ![w] = plan[w].first]
    /\ UNCHANGED <<runStatus, lease, job, plan>>

(* The first operation is over: a second retrieval, or the wait for a      *)
(* render result.                                                          *)
StartSecond(w) ==
    /\ phase[w] = "first"
    /\ phase' = [phase EXCEPT ![w] = "second"]
    /\ timer' = [timer EXCEPT ![w] = plan[w].second]
    /\ UNCHANGED <<runStatus, lease, job, plan>>

(* The network is done: conversion, storage, the terminal transaction. *)
StartFinish(w) ==
    /\ phase[w] = "second"
    /\ phase' = [phase EXCEPT ![w] = "finish"]
    /\ timer' = [timer EXCEPT ![w] = Work]
    /\ UNCHANGED <<runStatus, lease, job, plan>>

(* The terminal transaction; a failed operation leads to it at once.  It   *)
(* clears claimed_until, whoever holds the claim, and changes nothing when *)
(* another worker has settled the run.                                     *)
Settle(w) ==
    /\ Executing(w)
    /\ IF runStatus[job[w]] = "running"
       THEN /\ runStatus' = [runStatus EXCEPT ![job[w]] = "settled"]
            /\ lease' = [lease EXCEPT ![job[w]] = 0]
       ELSE UNCHANGED <<runStatus, lease>>
    /\ phase' = [phase EXCEPT ![w] = "idle"]
    /\ UNCHANGED <<job, plan, timer>>

(* The process stops; its claim stays until it lapses. *)
Stop(w) ==
    /\ Executing(w)
    /\ phase' = [phase EXCEPT ![w] = "idle"]
    /\ UNCHANGED <<runStatus, lease, job, plan, timer>>

Tick ==
    /\ \A w \in Workers : Executing(w) => timer[w] > 0
    /\ timer' = [w \in Workers |-> IF Executing(w) THEN timer[w] - 1 ELSE timer[w]]
    /\ lease' = [r \in Runs |-> IF lease[r] > 0 THEN lease[r] - 1 ELSE 0]
    /\ UNCHANGED <<runStatus, phase, job, plan>>

LeaseNext ==
    \/ \E w \in Workers :
          \/ \E r \in Runs : ClaimQueuedRun(w, r)
          \/ StartFirst(w) \/ StartSecond(w) \/ StartFinish(w) \/ Settle(w) \/ Stop(w)
    \/ Tick

LeaseSpec == LeaseInit /\ [][LeaseNext]_leaseVars

-----------------------------------------------------------------------------
(* Properties.                                                             *)

(* What a lease beyond the first operation buys, when two workers execute  *)
(* the same run included: until its first operation is over a worker still *)
(* holds the claim of its run, or another worker has settled the run and   *)
(* cleared it.                                                             *)
FirstFetchIsCovered ==
    \A w \in Workers : phase[w] \in {"start", "first"} =>
        lease[job[w]] > 0 \/ runStatus[job[w]] = "settled"

(* The relation that validate_bus demands, with the work before the fetch. *)
FirstFits == Prepare + FetchTimeout < Lease

(* No run is executed by two workers at once.  It holds when the lease     *)
(* exceeds the longest plan (Fits), and nothing in the configuration check *)
(* demands that.                                                           *)
OneExecutor ==
    \A v, w \in Workers : Executing(v) /\ Executing(w) /\ job[v] = job[w] => v = w

Fits == \A p \in Budgets : Prepare + p.first + p.second + Work < Lease

(* "An escalated run SHALL renew its lease while awaiting a render result":*)
(* a worker that waits for one holds the claim of its unsettled run.       *)
EscalatedRunHoldsLease ==
    \A w \in Workers :
        phase[w] = "second" /\ plan[w].second = Deadline("render") /\ runStatus[job[w]] = "running"
            => lease[job[w]] > 0
=============================================================================
