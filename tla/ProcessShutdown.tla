-------------------------- MODULE ProcessShutdown --------------------------
(***************************************************************************)
(* The life of the extractor process: its tasks, the admission gate that   *)
(* the worker loops pass for every poll, and the shutdown that closes the  *)
(* gate, waits for admitted work within the grace period, cancels what is  *)
(* left and joins the tasks.                                               *)
(*                                                                         *)
(* Every atomic operation on the gate is a step of its own.  Memory is     *)
(* taken as sequentially consistent.                                       *)
(***************************************************************************)
EXTENDS Naturals, FiniteSets

CONSTANTS Workers,   \* worker loops
          Others,    \* the other background loops: consumer, outbox, dependency probe
          Server     \* the admin server, cancelled last

ASSUME TasksAssumption == IsFiniteSet(Workers)
ASSUME ServerAssumption == Server \notin Others /\ Workers \cap (Others \cup {Server}) = {}

VARIABLES
    main,       \* where run_initialized is
    lifecycle,  \* RuntimeHealth.state
    background, \* background_cancel
    serverStop, \* server_cancel
    accepting, active, \* AdmissionState
    forced,     \* AdmissionState.cancellation
    woken,      \* notify_waiters was called since drained() created its Notified
    at,         \* where each worker loop is
    after,      \* where it continues once its permit is released
    task,       \* the other tasks
    joined      \* tasks that join_next has returned

gate == <<accepting, active, forced, woken>>
processVars == <<main, lifecycle, background, serverStop, gate, at, after, task, joined>>

Tasks == Workers \cup Others \cup {Server}

MainPlaces == {"starting", "serving", "stopping", "closing", "closed", "notified", "waiting",
               "drained", "joining", "done", "failed"}
WorkerPlaces == {"poll", "load", "count", "check", "run", "release", "notify", "ended", "failed"}

(* Places where a worker is counted in active. *)
Counted == {"check", "run", "release"}

Over == {"ended", "failed"}
Status(t) == IF t \in Workers THEN at[t] ELSE task[t]

ProcessTypeOK ==
    /\ main \in MainPlaces
    /\ lifecycle \in {"starting", "ready", "draining"}
    /\ background \in BOOLEAN /\ serverStop \in BOOLEAN
    /\ accepting \in BOOLEAN /\ forced \in BOOLEAN /\ woken \in BOOLEAN
    /\ active \in Nat
    /\ at \in [Workers -> WorkerPlaces]
    /\ after \in [Workers -> {"poll", "ended", "failed"}]
    /\ task \in [Others \cup {Server} -> {"running"} \cup Over]
    /\ joined \subseteq Tasks

ProcessInit ==
    /\ main = "starting" /\ lifecycle = "starting"
    /\ background = FALSE /\ serverStop = FALSE
    /\ accepting = TRUE /\ active = 0 /\ forced = FALSE /\ woken = FALSE
    /\ at = [w \in Workers |-> "poll"]
    /\ after = [w \in Workers |-> "poll"]
    /\ task = [t \in Others \cup {Server} |-> "running"]
    /\ joined = {}

-----------------------------------------------------------------------------
(* worker_loop.                                                            *)

Move(w, from, to) == at[w] = from /\ at' = [at EXCEPT ![w] = to]
WorkerRest == UNCHANGED <<main, lifecycle, background, serverStop, task, joined>>

(* The biased select: cancellation wins over the tick. *)
Poll(w) ==
    /\ Move(w, "poll", IF background THEN "ended" ELSE "load")
    /\ WorkerRest /\ UNCHANGED <<gate, after>>

(* try_admit: the first load, the count, the second load. *)
LoadAccepting(w) ==
    /\ Move(w, "load", IF accepting THEN "count" ELSE "ended")
    /\ WorkerRest /\ UNCHANGED <<gate, after>>

Count(w) ==
    /\ Move(w, "count", "check")
    /\ active' = active + 1
    /\ WorkerRest /\ UNCHANGED <<accepting, forced, woken, after>>

(* Variant: without the second load. *)
CheckAgain_Never(w) ==
    /\ Move(w, "check", "run")
    /\ UNCHANGED after
    /\ WorkerRest /\ UNCHANGED gate

CheckAgain(w) ==
    /\ Move(w, "check", IF accepting THEN "run" ELSE "release")
    /\ after' = IF accepting THEN after ELSE [after EXCEPT ![w] = "ended"]
    /\ WorkerRest /\ UNCHANGED gate

(* The claimed run is over, or there was none, or an error ends the loop. *)
FinishRun(w) ==
    /\ Move(w, "run", "release")
    /\ \E next \in {"poll", "failed"} : after' = [after EXCEPT ![w] = next]
    /\ WorkerRest /\ UNCHANGED gate

(* The permit's token ends process_run at its next await. *)
AbortRun(w) ==
    /\ forced
    /\ Move(w, "run", "release")
    /\ after' = [after EXCEPT ![w] = "poll"]
    /\ WorkerRest /\ UNCHANGED gate

(* release_one: the last one out wakes the waiter. *)
ReleaseOne(w) ==
    /\ Move(w, "release", IF active = 1 THEN "notify" ELSE after[w])
    /\ active' = active - 1
    /\ WorkerRest /\ UNCHANGED <<accepting, forced, woken, after>>

NotifyWaiters(w) ==
    /\ Move(w, "notify", after[w])
    /\ woken' = TRUE
    /\ WorkerRest /\ UNCHANGED <<accepting, active, forced, after>>

-----------------------------------------------------------------------------
(* The other tasks.                                                        *)

Token(t) == IF t = Server THEN serverStop ELSE background

TaskStops(t) ==
    /\ task[t] = "running" /\ Token(t)
    /\ task' = [task EXCEPT ![t] = "ended"]
    /\ UNCHANGED <<main, lifecycle, background, serverStop, gate, at, after, joined>>

(* On its own: a database or bus error, or the end of the message stream. *)
TaskExits(t) ==
    /\ task[t] = "running"
    /\ \E end \in Over : task' = [task EXCEPT ![t] = end]
    /\ UNCHANGED <<main, lifecycle, background, serverStop, gate, at, after, joined>>

-----------------------------------------------------------------------------
(* run_initialized and ShutdownCoordinator::shutdown.                      *)

MainGoes(from, to) == main = from /\ main' = to
Aside == UNCHANGED <<at, after, task>>

MarkReady ==
    /\ MainGoes("starting", "serving")
    /\ lifecycle' = "ready"
    /\ UNCHANGED <<background, serverStop, gate, joined>> /\ Aside

(* A signal, or the first task that ends. *)
StopRequested ==
    /\ MainGoes("serving", "stopping")
    /\ \/ UNCHANGED joined
       \/ \E t \in Tasks : Status(t) \in Over /\ joined' = {t}
    /\ background' = TRUE
    /\ UNCHANGED <<lifecycle, serverStop, gate>> /\ Aside

BeginDrain ==
    /\ MainGoes("stopping", "closing")
    /\ lifecycle' = "draining"
    /\ UNCHANGED <<background, serverStop, gate, joined>> /\ Aside

(* close: its own notification finds no waiter, shutdown has not created one. *)
Close ==
    /\ MainGoes("closing", "closed")
    /\ accepting' = FALSE
    /\ UNCHANGED <<lifecycle, background, serverStop, active, forced, woken, joined>> /\ Aside

(* Variant: the count is read before the Notified exists. *)
Drained_LoadsFirst ==
    /\ \/ /\ main = "closed"
          /\ main' = IF active = 0 THEN "drained" ELSE "notified"
          /\ UNCHANGED woken
       \/ /\ MainGoes("notified", "waiting")
          /\ woken' = FALSE
       \/ /\ MainGoes("waiting", "closed")
          /\ woken
          /\ UNCHANGED woken
    /\ UNCHANGED <<lifecycle, background, serverStop, accepting, active, forced, joined>> /\ Aside

(* drained: create the Notified, read the count, wait, and again. *)
Drained ==
    /\ \/ /\ MainGoes("closed", "notified")
          /\ woken' = FALSE
       \/ /\ main = "notified"
          /\ main' = IF active = 0 THEN "drained" ELSE "waiting"
          /\ UNCHANGED woken
       \/ /\ MainGoes("waiting", "closed")
          /\ woken
          /\ UNCHANGED woken
    /\ UNCHANGED <<lifecycle, background, serverStop, accepting, active, forced, joined>> /\ Aside

(* The grace period ends first. *)
GraceEnds ==
    /\ MainGoes("waiting", "drained")
    /\ forced' = TRUE
    /\ UNCHANGED <<lifecycle, background, serverStop, accepting, active, woken, joined>> /\ Aside

StopServer ==
    /\ MainGoes("drained", "joining")
    /\ serverStop' = TRUE
    /\ UNCHANGED <<lifecycle, background, gate, joined>> /\ Aside

(* The first failed task ends the loop, and the rest of the set is dropped. *)
JoinNext ==
    /\ main = "joining"
    /\ \E t \in Tasks \ joined :
          /\ Status(t) \in Over
          /\ joined' = joined \cup {t}
          /\ main' = IF Status(t) = "failed" THEN "failed" ELSE "joining"
    /\ UNCHANGED <<lifecycle, background, serverStop, gate>> /\ Aside

AllJoined ==
    /\ MainGoes("joining", "done")
    /\ joined = Tasks
    /\ UNCHANGED <<lifecycle, background, serverStop, gate, joined>> /\ Aside

-----------------------------------------------------------------------------
Worker(w) ==
    \/ Poll(w) \/ LoadAccepting(w) \/ Count(w) \/ CheckAgain(w)
    \/ AbortRun(w) \/ ReleaseOne(w) \/ NotifyWaiters(w)

Shutdown == BeginDrain \/ Close \/ Drained \/ StopServer \/ JoinNext \/ AllJoined

Running == main \notin {"done", "failed"}

ProcessNext ==
    \/ /\ Running
       /\ \/ \E w \in Workers : Worker(w) \/ FinishRun(w)
          \/ \E t \in Others \cup {Server} : TaskStops(t) \/ TaskExits(t)
          \/ MarkReady \/ StopRequested \/ Shutdown \/ GraceEnds
    \/ ~Running /\ UNCHANGED processVars

ProcessSpec == ProcessInit /\ [][ProcessNext]_processVars

(* The runtime schedules every task that can go on.  A run need not end by *)
(* itself, nobody need ask the process to stop, and the grace period is as *)
(* long as one likes.                                                      *)
FairProcessSpec ==
    /\ ProcessSpec
    /\ \A w \in Workers : WF_processVars(Running /\ Worker(w))
    /\ \A t \in Others \cup {Server} : WF_processVars(Running /\ TaskStops(t))
    /\ WF_processVars(Running /\ Shutdown)

-----------------------------------------------------------------------------
(* Properties.                                                             *)

(* shutdown returns before the deadline only with no operation admitted,   *)
(* and none is admitted later: the second load of try_admit closes the     *)
(* race with close.                                                        *)
DrainedMeansIdle ==
    main \in {"drained", "joining", "done"} /\ ~forced => \A w \in Workers : at[w] # "run"

(* The count is that of the workers between fetch_add and fetch_sub,       *)
(* through refused admissions and aborted runs alike.                      *)
ActiveCountsPermits == active = Cardinality({w \in Workers : at[w] \in Counted})

(* A process that was asked to stop, or lost a task, ends; the one thing   *)
(* it may wait for is an admitted run that has not ended, and only until   *)
(* the grace period does.  No wake-up is lost: the release of the last     *)
(* permit ends the wait of drained without the deadline.                   *)
ShutdownEnds ==
    []<>(main \in {"starting", "serving"} \/ (main = "waiting" /\ active > 0) \/ ~Running)
=============================================================================
