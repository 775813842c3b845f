--------------------------- MODULE RenderPipeline ---------------------------
(***************************************************************************)
(* Rendering over the bus: the daily budget, the extractor's request and   *)
(* its wait on a durable that all requests share, and the browser worker's *)
(* at-least-once consumption with a completion marker per render_id.       *)
(*                                                                         *)
(* A job is one execution of a run that the policy lets escalate, with the *)
(* render_id it would publish under.                                       *)
(***************************************************************************)
EXTENDS Integers, Sequences, FiniteSets

CONSTANTS Jobs,        \* render jobs
          Browsers,    \* browser worker processes
          MaxPerDay,   \* render.max_escalations_per_day
          Days,        \* bound: days that begin
          MaxAwaiting, \* extractor worker loops, each with one request at a time
          Batch,       \* messages of one pull
          Prefetch,    \* messages a browser worker holds before it handles them
          MaxJobs,     \* max_jobs_per_process
          MaxDeliver,  \* max_deliver of the command durable
          MaxFaults    \* bound: faults of bus, marker bucket and processes

ASSUME JobsAssumption == IsFiniteSet(Jobs) /\ IsFiniteSet(Browsers)
ASSUME BudgetAssumption == MaxPerDay \in Nat /\ Days \in Nat \ {0}
ASSUME BusAssumption == MaxAwaiting \in Nat /\ Batch \in Nat \ {0} /\ Prefetch \in Nat \ {0}
                            /\ MaxJobs \in Nat \ {0} /\ MaxDeliver \in Nat \ {0} /\ MaxFaults \in Nat

VARIABLES
    request,    \* the extractor's side of each job
    day,        \* current_date
    escalated,  \* render_budgets of the day
    spent,      \* slots of all days
    commands,   \* jobs whose command is in the stream
    message,    \* the command durable's view of each: "ready", "out" or "acked"
    deliveries, \* deliveries so far
    markers,    \* the completions bucket
    events,     \* jobs with a completion or failure event, in stream order
    cursor,     \* events the shared durable has handed out
    exposed,    \* jobs that waited beside another one, or had a batch cut short
    buffer,     \* messages a browser worker has pulled, the first is in hand
    stage,      \* how far it is with the first
    handled,    \* jobs since it started
    faults,     \* faults so far
    excuse      \* faults after which a job may be rendered again

extractor == <<request, day, escalated, spent, cursor, exposed>>
browser   == <<buffer, stage, handled>>
vars      == <<extractor, commands, message, deliveries, markers, events, browser, faults, excuse>>

Open == {"budgeted", "awaiting"}
Closed == {"denied", "answered", "timeout", "transport", "gone"}
Stages == {"idle", "render", "publish", "mark", "ack", "skip", "down"}

Present(j) == \E i \in 1 .. Len(events) : events[i] = j
Count(j) == Cardinality({i \in 1 .. Len(events) : events[i] = j})
InHand(b, j) == Len(buffer[b]) > 0 /\ Head(buffer[b]) = j /\ stage[b] \in {"render", "publish", "mark"}

TypeOK ==
    /\ request \in [Jobs -> {"new"} \cup Open \cup Closed]
    /\ day \in 1 .. Days
    /\ escalated \in 0 .. MaxPerDay /\ spent \in Nat
    /\ commands \subseteq Jobs /\ markers \subseteq Jobs /\ exposed \subseteq Jobs
    /\ message \in [Jobs -> {"ready", "out", "acked"}]
    /\ deliveries \in [Jobs -> 0 .. MaxDeliver]
    /\ \A i \in 1 .. Len(events) : events[i] \in commands
    /\ cursor \in 0 .. Len(events)
    /\ \A b \in Browsers : Len(buffer[b]) <= Prefetch
    /\ stage \in [Browsers -> Stages]
    /\ handled \in [Browsers -> 0 .. MaxJobs - 1]
    /\ faults \in 0 .. MaxFaults
    /\ excuse \in [Jobs -> Nat]

Init ==
    /\ request = [j \in Jobs |-> "new"]
    /\ day = 1 /\ escalated = 0 /\ spent = 0
    /\ commands = {} /\ markers = {} /\ events = << >> /\ cursor = 0 /\ exposed = {}
    /\ message = [j \in Jobs |-> "ready"]
    /\ deliveries = [j \in Jobs |-> 0]
    /\ buffer = [b \in Browsers |-> << >>]
    /\ stage = [b \in Browsers |-> "idle"]
    /\ handled = [b \in Browsers |-> 0]
    /\ faults = 0
    /\ excuse = [j \in Jobs |-> 0]

Fault == faults < MaxFaults /\ faults' = faults + 1
Excuse(j) == excuse' = [excuse EXCEPT ![j] = @ + 1]
NoFault == UNCHANGED <<faults, excuse>>

-----------------------------------------------------------------------------
(* The extractor.                                                          *)

BusRest == UNCHANGED <<message, deliveries, markers, events, browser>>

NewDay ==
    /\ day < Days
    /\ day' = day + 1
    /\ escalated' = 0
    /\ UNCHANGED <<request, spent, cursor, exposed, commands>> /\ BusRest /\ NoFault

(* The cap of consume_render_budget: saturating_sub on a signed integer. *)
Cap == MaxPerDay - 1

(* Variant: the counter is compared with the maximum itself. *)
ConsumeRenderBudget_OffByOne(j) ==
    /\ request[j] = "new"
    /\ Cardinality({i \in Jobs : request[i] \in Open}) < MaxAwaiting
    /\ IF escalated <= MaxPerDay
       THEN /\ escalated' = escalated + 1
            /\ spent' = spent + 1
            /\ request' = [request EXCEPT ![j] = "budgeted"]
       ELSE /\ request' = [request EXCEPT ![j] = "denied"]
            /\ UNCHANGED <<escalated, spent>>
    /\ UNCHANGED <<day, cursor, exposed, commands>> /\ BusRest /\ NoFault

(* The update takes the day row's lock, so it is one step. *)
ConsumeRenderBudget(j) ==
    /\ request[j] = "new"
    /\ Cardinality({i \in Jobs : request[i] \in Open}) < MaxAwaiting
    /\ IF escalated <= Cap
       THEN /\ escalated' = escalated + 1
            /\ spent' = spent + 1
            /\ request' = [request EXCEPT ![j] = "budgeted"]
       ELSE /\ request' = [request EXCEPT ![j] = "denied"]
            /\ UNCHANGED <<escalated, spent>>
    /\ UNCHANGED <<day, cursor, exposed, commands>> /\ BusRest /\ NoFault

Awaiting == {i \in Jobs : request[i] = "awaiting"}

(* The command is stored and acknowledged, or the publication fails with   *)
(* or without the command in the stream.                                   *)
PublishCommand(j) ==
    /\ request[j] = "budgeted"
    /\ \/ /\ request' = [request EXCEPT ![j] = "awaiting"]
          /\ commands' = commands \cup {j}
          /\ exposed' = IF Awaiting = {} THEN exposed ELSE exposed \cup Awaiting \cup {j}
          /\ UNCHANGED faults
       \/ /\ Fault
          /\ request' = [request EXCEPT ![j] = "transport"]
          /\ commands' \in {commands, commands \cup {j}}
          /\ UNCHANGED exposed
    /\ UNCHANGED <<day, escalated, spent, cursor, excuse>> /\ BusRest

(* Variant: only the first message of a batch is looked at. *)
Pull_FirstOnly(j) ==
    /\ request[j] = "awaiting"
    /\ cursor' = IF cursor + Batch < Len(events) THEN cursor + Batch ELSE Len(events)
    /\ request' = IF cursor < Len(events) /\ events[cursor + 1] = j
                  THEN [request EXCEPT ![j] = "answered"] ELSE request
    /\ UNCHANGED <<day, escalated, spent, exposed, commands>> /\ BusRest /\ NoFault

(* One pull: the durable hands out the next messages without waiting for   *)
(* acknowledgements, whoever they are for.  A match ends the request and   *)
(* the rest of the batch is dropped with it; an error in the batch ends    *)
(* its reading, and what was not read is gone.                             *)
Pull(j) ==
    /\ request[j] = "awaiting"
    /\ LET upto == IF cursor + Batch < Len(events) THEN cursor + Batch ELSE Len(events)
       IN \E read \in cursor .. upto :
             /\ cursor' = upto
             /\ request' = IF \E i \in cursor + 1 .. read : events[i] = j
                           THEN [request EXCEPT ![j] = "answered"] ELSE request
             /\ \/ read = upto /\ UNCHANGED <<faults, exposed>>
                \/ read < upto /\ Fault /\ exposed' = exposed \cup {j}
    /\ UNCHANGED <<day, escalated, spent, commands, excuse>> /\ BusRest

(* The deadline passes, a pull fails, or the process stops. *)
AwaitEnds(j) ==
    /\ request[j] \in Open
    /\ \E end \in {"timeout", "transport", "gone"} :
          /\ end # "gone" => request[j] = "awaiting"
          /\ request' = [request EXCEPT ![j] = end]
    /\ UNCHANGED <<day, escalated, spent, cursor, exposed, commands>> /\ BusRest /\ NoFault

-----------------------------------------------------------------------------
(* The command durable and the browser worker.                             *)

Deliver(b, j) ==
    /\ stage[b] # "down" /\ Len(buffer[b]) < Prefetch
    /\ j \in commands /\ message[j] = "ready" /\ deliveries[j] < MaxDeliver
    /\ message' = [message EXCEPT ![j] = "out"]
    /\ deliveries' = [deliveries EXCEPT ![j] = @ + 1]
    /\ buffer' = [buffer EXCEPT ![b] = Append(@, j)]
    /\ UNCHANGED <<extractor, commands, markers, events, stage, handled>> /\ NoFault

Held(j) == \E b \in Browsers : \E i \in 1 .. Len(buffer[b]) : buffer[b][i] = j

(* ack_wait ends: of a delivery nobody holds any more, or, as a fault, of  *)
(* one that still waits or is being handled.                               *)
AckWaitExpires(j) ==
    /\ message[j] = "out"
    /\ IF Held(j) THEN Fault ELSE UNCHANGED faults
    /\ message' = [message EXCEPT ![j] = "ready"]
    /\ UNCHANGED <<extractor, commands, deliveries, markers, events, browser, excuse>>

Goto(b, to) == stage' = [stage EXCEPT ![b] = to]
Drop(b) == buffer' = [buffer EXCEPT ![b] = Tail(@)]

(* Variants: the marker is not looked up; it is put before the job is done. *)
LookUpMarker_Never(b) ==
    /\ stage[b] = "idle" /\ Len(buffer[b]) > 0
    /\ Goto(b, "render")
    /\ UNCHANGED <<extractor, commands, message, deliveries, markers, events, buffer, handled>> /\ NoFault

LookUpMarker_Claims(b) ==
    /\ stage[b] = "idle" /\ Len(buffer[b]) > 0
    /\ Goto(b, IF Head(buffer[b]) \in markers THEN "skip" ELSE "render")
    /\ markers' = markers \cup {Head(buffer[b])}
    /\ UNCHANGED <<extractor, commands, message, deliveries, events, buffer, handled>> /\ NoFault

(* A marker means the job is done; a failed lookup counts as none. *)
LookUpMarker(b) ==
    /\ stage[b] = "idle" /\ Len(buffer[b]) > 0
    /\ LET j == Head(buffer[b])
       IN \/ j \in markers /\ Goto(b, "skip") /\ NoFault
          \/ j \in markers /\ Goto(b, "render") /\ Fault /\ Excuse(j)
          \/ /\ j \notin markers
             /\ Goto(b, "render")
             /\ UNCHANGED faults
             /\ IF \E c \in Browsers \ {b} : InHand(c, j) THEN Excuse(j) ELSE UNCHANGED excuse
    /\ UNCHANGED <<extractor, commands, message, deliveries, markers, events, buffer, handled>>

(* Variant: an infrastructure error is acknowledged like a terminal one. *)
Render_AcksErrors(b) ==
    /\ stage[b] = "render"
    /\ Goto(b, "publish") \/ Goto(b, "skip")
    /\ UNCHANGED <<extractor, commands, message, deliveries, markers, events, buffer, handled>> /\ NoFault

(* The executor succeeds or fails for good; an infrastructure or storage   *)
(* error leaves the delivery unacknowledged.                               *)
Render(b) ==
    /\ stage[b] = "render"
    /\ \/ Goto(b, "publish") /\ UNCHANGED <<buffer, faults>>
       \/ Goto(b, "idle") /\ Drop(b) /\ Fault
    /\ UNCHANGED <<extractor, commands, message, deliveries, markers, events, handled, excuse>>

PublishEvent(b) ==
    /\ stage[b] = "publish"
    /\ LET j == Head(buffer[b])
       IN \/ events' = Append(events, j) /\ Goto(b, "mark") /\ UNCHANGED <<buffer, faults, excuse>>
          \/ events' = Append(events, j) /\ Goto(b, "idle") /\ Drop(b) /\ Fault /\ Excuse(j)
          \/ Goto(b, "idle") /\ Drop(b) /\ Fault /\ UNCHANGED <<events, excuse>>
    /\ UNCHANGED <<extractor, commands, message, deliveries, markers, handled>>

(* A failed put is ignored. *)
PutMarker(b) ==
    /\ stage[b] = "mark"
    /\ LET j == Head(buffer[b])
       IN \/ markers' = markers \cup {j} /\ NoFault
          \/ UNCHANGED markers /\ Fault /\ Excuse(j)
    /\ Goto(b, "ack")
    /\ UNCHANGED <<extractor, commands, message, deliveries, events, buffer, handled>>

(* A lost acknowledgement is ignored as well.  Only a rendered job counts  *)
(* towards the process's budget; the last one ends the process and drops   *)
(* what it had pulled.                                                     *)
Acknowledge(b) ==
    /\ stage[b] \in {"ack", "skip"}
    /\ \/ message' = [message EXCEPT ![Head(buffer[b])] = "acked"] /\ UNCHANGED faults
       \/ UNCHANGED message /\ Fault
    /\ IF stage[b] = "ack" /\ handled[b] + 1 = MaxJobs
       THEN /\ Goto(b, "down")
            /\ buffer' = [buffer EXCEPT ![b] = << >>]
            /\ handled' = [handled EXCEPT ![b] = 0]
       ELSE /\ Goto(b, "idle")
            /\ Drop(b)
            /\ handled' = [handled EXCEPT ![b] = IF stage[b] = "ack" THEN @ + 1 ELSE @]
    /\ UNCHANGED <<extractor, commands, deliveries, markers, events, excuse>>

BrowserCrash(b) ==
    /\ stage[b] # "down"
    /\ Fault
    /\ IF stage[b] = "mark" THEN Excuse(Head(buffer[b])) ELSE UNCHANGED excuse
    /\ Goto(b, "down")
    /\ buffer' = [buffer EXCEPT ![b] = << >>]
    /\ handled' = [handled EXCEPT ![b] = 0]
    /\ UNCHANGED <<extractor, commands, message, deliveries, markers, events>>

(* The supervisor. *)
BrowserRestart(b) ==
    /\ stage[b] = "down"
    /\ Goto(b, "idle")
    /\ UNCHANGED <<extractor, commands, message, deliveries, markers, events, buffer, handled>> /\ NoFault

-----------------------------------------------------------------------------
Handle(b) == LookUpMarker(b) \/ Render(b) \/ PublishEvent(b) \/ PutMarker(b) \/ Acknowledge(b)

Next ==
    \/ NewDay
    \/ \E j \in Jobs : ConsumeRenderBudget(j) \/ PublishCommand(j) \/ Pull(j) \/ AwaitEnds(j)
    \/ \E j \in Jobs : AckWaitExpires(j)
    \/ \E b \in Browsers :
          \/ \E j \in Jobs : Deliver(b, j)
          \/ Handle(b) \/ BrowserCrash(b) \/ BrowserRestart(b)

Spec == Init /\ [][Next]_vars

(* The durable delivers and redelivers, the worker handles what it holds,  *)
(* and the supervisor restarts it.  Deliveries and faults are finite, so   *)
(* it is enough that something happens while something can.                *)
FairSpec == Spec /\ WF_vars(Next)

-----------------------------------------------------------------------------
(* Properties.                                                             *)

(* No more commands are published than the budget of the days so far       *)
(* allows, whichever requests race for the last slot, also with a maximum  *)
(* of zero.  Deliveries, the prefetch buffer and the job budget keep to    *)
(* their limits too (TypeOK).                                              *)
BudgetRespected ==
    /\ TypeOK
    /\ Cardinality(commands) <= spent
    /\ spent <= day * MaxPerDay

(* A result is missed only to another request or to a broken batch: as     *)
(* long as a request is the only one that waits on the shared durable and  *)
(* every batch it pulled came whole, nothing handed out so far was for it, *)
(* whatever earlier requests left unread.                                  *)
AwaitedNotDropped ==
    \A j \in Awaiting \ exposed : \A i \in 1 .. cursor : events[i] # j

(* Neither the marker nor the acknowledgement of a command comes before    *)
(* its result is in the stream, so none of them can suppress the only one. *)
SettledCommandsHaveEvents ==
    \A j \in Jobs : j \in markers \/ message[j] = "acked" => Present(j)

(* A command yields one event, and another one only after a fault between  *)
(* publication and marker or a delivery to two workers at once.            *)
OneEventPerCommand == \A j \in Jobs : Count(j) <= 1 + excuse[j]

(* With fewer faults than deliveries every command is answered, through    *)
(* crashes and the recycling of the worker.                                *)
CommandsAreAnswered == <>[](\A j \in commands : Present(j))
=============================================================================
