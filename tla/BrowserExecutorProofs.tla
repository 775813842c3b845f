----------------------- MODULE BrowserExecutorProofs -----------------------
(***************************************************************************)
(* Proofs about BrowserExecutor: the renders that share a browser, each    *)
(* with its interception task, for any number of jobs, requests and faults.*)
(***************************************************************************)
EXTENDS BrowserExecutor, TLAPS

Places == {"waiting", "done"} \cup Running
JobStates == [pc : Places, result : Classes \cup {None}, counted : Nat]
Fates == {"unsent", "paused", "denied", "sent"}
Documents == [request : Requests \cup {None}, state : {"blank", "loading", "loaded", "failed"}]
TaskStates == [request : Requests \cup {None},
               step : {"idle", "judge", "refuse", "flag", "deny", "count", "continue"}]
FaultStates == [count : 0 .. MaxFaults, undisposed : SUBSET Jobs, starved : SUBSET Jobs]

(* TypeOK without the bound on the counters. *)
Typed ==
    /\ lock \in Jobs \cup {Free} /\ faults \in FaultStates
    /\ contexts \subseteq Jobs /\ enabled \subseteq Jobs /\ violated \subseteq Jobs
    /\ job \in [Jobs -> JobStates] /\ document \in [Jobs -> Documents]
    /\ net \in [Jobs -> [Requests -> Fates]] /\ task \in [Jobs -> TaskStates]
    /\ blocked \in [Jobs -> Nat]

Fate(j) == net[j][document[j].request]

(* A job has no context before it creates one; it ends with one only by    *)
(* the total timeout or a failed disposal.                                 *)
ContextInv(j) ==
    /\ job[j].pc \in {"waiting", "validate", "context"} => j \notin contexts
    /\ j \in contexts /\ job[j].pc = "done" => job[j].result = "total_timeout" \/ j \in faults.undisposed

(* A document that has loaded or failed is out of the task's reach. *)
DocumentInv(j) ==
    /\ document[j].state # "blank" => document[j].request \in Redirects \cup {Target[j]}
    /\ document[j].state \in {"loaded", "failed"} => Fate(j) \in {"sent", "denied"}

(* The request in the hands of the task is paused until the task denies    *)
(* it, and only heavy ones are denied without the flag.                    *)
TaskInv(j) ==
    /\ task[j].step # "idle" => task[j].request \in Requests
    /\ task[j].step \in {"judge", "refuse", "deny"} => net[j][task[j].request] = "paused"
    /\ task[j].step = "deny" => task[j].request \in Heavy

(* A denied document has raised the flag, or is about to. *)
FlagInv(j) ==
    document[j].state # "blank" /\ Fate(j) = "denied" => j \in violated \/ task[j].step = "flag"

(* From the settle window on the document is decided; when the flag is     *)
(* looked at, a denied document has raised it; after, it was not denied;   *)
(* unless the task was starved.                                            *)
ResultInv(j) ==
    /\ job[j].pc \in {"settle", "check", "content"} \/ job[j].result = "ok"
            => document[j].state \in {"loaded", "failed"}
    /\ job[j].pc = "check" /\ Fate(j) = "denied" => j \in violated \/ j \in faults.starved
    /\ job[j].pc = "content" \/ job[j].result = "ok" => Fate(j) # "denied" \/ j \in faults.starved

JobInv(j) == ContextInv(j) /\ DocumentInv(j) /\ TaskInv(j) /\ FlagInv(j) /\ ResultInv(j)

(* Faults are never forgotten. *)
FaultStep ==
    /\ faults' \in FaultStates
    /\ faults.undisposed \subseteq faults'.undisposed /\ faults.starved \subseteq faults'.starved

(* A step of job j leaves every other job alone. *)
Alone(j) ==
    /\ \A i \in Jobs \ {j} :
        /\ job'[i] = job[i] /\ net'[i] = net[i] /\ document'[i] = document[i] /\ task'[i] = task[i]
        /\ i \in contexts' <=> i \in contexts
        /\ i \in violated' <=> i \in violated
    /\ FaultStep

LEMMA OthersKept ==
    ASSUME NEW j \in Jobs, Alone(j), NEW i \in Jobs, i # j, JobInv(i)
    PROVE  JobInv(i)'
<1>1. ContextInv(i)'
    BY Zenon DEF Alone, JobInv, ContextInv, FaultStep
<1>2. DocumentInv(i)' /\ TaskInv(i)'
    BY Zenon DEF Alone, JobInv, DocumentInv, TaskInv, Fate
<1>3. FlagInv(i)' /\ ResultInv(i)'
    BY Zenon DEF Alone, JobInv, FlagInv, ResultInv, Fate, FaultStep
<1> QED
    BY <1>1, <1>2, <1>3, Zenon DEF JobInv

(* A fault is counted, within its bound. *)
LEMMA FaultCounted ==
    ASSUME Typed, NEW j \in Jobs, Fault \/ Undisposed(j) \/ Starved(j) \/ UNCHANGED faults
    PROVE  /\ FaultStep
           /\ Undisposed(j) => j \in faults'.undisposed
           /\ Starved(j) => j \in faults'.starved
<1>1. /\ faults = [count |-> faults.count, undisposed |-> faults.undisposed, starved |-> faults.starved]
      /\ faults.count \in 0 .. MaxFaults /\ faults.undisposed \in SUBSET Jobs /\ faults.starved \in SUBSET Jobs
      /\ MaxFaults \in Nat
    BY RequestsAssumption DEF RequestsAssumption, Typed, FaultStates
<1>2. \A n \in 0 .. MaxFaults : n < MaxFaults => n + 1 \in 0 .. MaxFaults
    BY <1>1
<1>3. ASSUME NEW n \in 0 .. MaxFaults, NEW u \in SUBSET Jobs, NEW v \in SUBSET Jobs,
             faults' = [count |-> n, undisposed |-> u, starved |-> v],
             faults.undisposed \subseteq u, faults.starved \subseteq v
      PROVE  FaultStep /\ faults'.undisposed = u /\ faults'.starved = v
    BY <1>3 DEF FaultStep, FaultStates
<1>4. ASSUME Undisposed(j) PROVE FaultStep /\ j \in faults'.undisposed
    <2>1. faults' = [count |-> faults.count + 1, undisposed |-> faults.undisposed \cup {j}, starved |-> faults.starved]
        BY <1>1, <1>4 DEF Undisposed
    <2>2. /\ faults.count + 1 \in 0 .. MaxFaults /\ faults.undisposed \cup {j} \in SUBSET Jobs
          /\ faults.undisposed \subseteq faults.undisposed \cup {j}
        BY <1>1, <1>2, <1>4 DEF Undisposed
    <2>3. FaultStep /\ faults'.undisposed = faults.undisposed \cup {j} /\ faults'.starved = faults.starved
        BY <1>1, <1>3, <2>1, <2>2, Zenon
    <2> QED
        BY <2>3
<1>5. ASSUME Starved(j) PROVE FaultStep /\ j \in faults'.starved
    <2>1. faults' = [count |-> faults.count + 1, undisposed |-> faults.undisposed, starved |-> faults.starved \cup {j}]
        BY <1>1, <1>5 DEF Starved
    <2>2. /\ faults.count + 1 \in 0 .. MaxFaults /\ faults.starved \cup {j} \in SUBSET Jobs
          /\ faults.starved \subseteq faults.starved \cup {j}
        BY <1>1, <1>2, <1>5 DEF Starved
    <2>3. FaultStep /\ faults'.undisposed = faults.undisposed /\ faults'.starved = faults.starved \cup {j}
        BY <1>1, <1>3, <2>1, <2>2, Zenon
    <2> QED
        BY <2>3
<1>6. CASE Fault
    <2>1. faults' = [count |-> faults.count + 1, undisposed |-> faults.undisposed, starved |-> faults.starved]
        BY <1>1, <1>6 DEF Fault
    <2> QED
        BY <1>1, <1>2, <1>3, <1>4, <1>5, <1>6, <2>1 DEF Fault
<1>7. CASE UNCHANGED faults
    BY <1>1, <1>3, <1>4, <1>5, <1>7
<1> QED
    BY <1>4, <1>5, <1>6, <1>7

-----------------------------------------------------------------------------
(* The steps of render_once.                                               *)

(* They leave the page and the task alone. *)
Aside == UNCHANGED <<net, document, task, violated, blocked>>

LEMMA JobStep ==
    ASSUME Typed, NEW j \in Jobs, JobInv(j), Aside,
           NEW s \in JobStates, job' = [job EXCEPT ![j] = s], FaultStep,
           lock' \in Jobs \cup {Free}, enabled' \in {enabled, enabled \cup {j}},
           contexts' \in {contexts, contexts \cup {j}, contexts \ {j}},
           ContextInv(j)', ResultInv(j)'
    PROVE  Typed' /\ Alone(j) /\ JobInv(j)'
<1>1. Typed'
    BY Zenon DEF Typed, Aside, FaultStep
<1>2. Alone(j)
    <2>1. \A i \in Jobs \ {j} : job'[i] = job[i]
        BY Zenon DEF Typed
    <2>2. \A i \in Jobs \ {j} : i \in contexts' <=> i \in contexts
        OBVIOUS
    <2> QED
        BY <2>1, <2>2, Zenon DEF Alone, Aside
<1>3. DocumentInv(j)' /\ TaskInv(j)' /\ FlagInv(j)'
    BY Zenon DEF JobInv, DocumentInv, TaskInv, FlagInv, Fate, Aside
<1> QED
    BY <1>1, <1>2, <1>3, Zenon DEF JobInv

(* Where a job stands after Go, Return or Leave. *)
LEMMA Goes ==
    ASSUME Typed, NEW j \in Jobs, NEW p \in Places, Go(j, p)
    PROVE  \E s \in JobStates :
                job' = [job EXCEPT ![j] = s] /\ job'[j] = s /\ s.pc = p /\ s.result = job[j].result
<1> DEFINE s == [job[j] EXCEPT !.pc = p]
<1>1. s \in JobStates /\ s.pc = p /\ s.result = job[j].result
    BY Zenon DEF Typed, JobStates
<1>2. job' = [job EXCEPT ![j] = s] /\ job'[j] = s
    BY Zenon DEF Typed, Go
<1> QED
    BY <1>1, <1>2, Zenon

Ending(j, p, r) == job' = [job EXCEPT ![j].pc = p, ![j].result = r]

LEMMA Ends ==
    ASSUME Typed, NEW j \in Jobs, NEW p \in Places, NEW r \in Classes \cup {None}, Ending(j, p, r)
    PROVE  \E s \in JobStates :
                job' = [job EXCEPT ![j] = s] /\ job'[j] = s /\ s.pc = p /\ s.result = r
<1> DEFINE s == [job[j] EXCEPT !.pc = p, !.result = r]
<1>1. s \in JobStates /\ s.pc = p /\ s.result = r
    BY Zenon DEF Typed, JobStates
<1>2. job' = [job EXCEPT ![j] = s] /\ job'[j] = s
    BY Zenon DEF Typed, Ending
<1> QED
    BY <1>1, <1>2, Zenon

(* Moving on before the settle window. *)
LEMMA GoStep ==
    ASSUME Typed, NEW j \in Jobs, JobInv(j), Aside,
           NEW p \in {"validate", "context", "page", "intercept", "goto"}, Go(j, p), UNCHANGED faults,
           lock' \in Jobs \cup {Free}, enabled' \in {enabled, enabled \cup {j}},
           \/ contexts' = contexts /\ (p \in {"validate", "context"} => j \notin contexts)
           \/ contexts' = contexts \cup {j} /\ p \notin {"validate", "context"}
    PROVE  Typed' /\ Alone(j) /\ JobInv(j)'
<1>1. PICK s \in JobStates : job' = [job EXCEPT ![j] = s] /\ job'[j] = s /\ s.pc = p /\ s.result = job[j].result
    BY Goes DEF Places, Running
<1>2. ContextInv(j)'
    BY <1>1 DEF ContextInv
<1>3. ResultInv(j)'
    BY <1>1 DEF JobInv, ResultInv, Aside, Fate
<1>4. FaultStep
    BY FaultCounted, Zenon
<1> QED
    BY <1>1, <1>2, <1>3, <1>4, JobStep, Zenon

(* Returning or leaving with an error. *)
Errors == Classes \ {"ok"}

LEMMA ErrorStep ==
    ASSUME Typed, NEW j \in Jobs, JobInv(j), Aside, NEW r \in Errors,
           \/ Leave(j, r) /\ UNCHANGED lock
           \/ Return(j, r) /\ (r = "total_timeout" \/ j \notin contexts),
           Fault \/ UNCHANGED faults, UNCHANGED contexts, UNCHANGED enabled
    PROVE  Typed' /\ Alone(j) /\ JobInv(j)'
<1>0. PICK p \in {"dispose", "done"} :
          /\ Ending(j, p, r)
          /\ p = "dispose" \/ r = "total_timeout" \/ j \notin contexts
    BY Zenon DEF Leave, Return, Ending
<1>1. p \in Places /\ r \in Classes \cup {None} /\ r # "ok"
    BY DEF Places, Running, Errors
<1>2. PICK s \in JobStates : job' = [job EXCEPT ![j] = s] /\ job'[j] = s /\ s.pc = p /\ s.result = r
    BY <1>0, <1>1, Ends
<1>3. ContextInv(j)'
    BY <1>0, <1>2 DEF ContextInv
<1>7. FaultStep
    BY FaultCounted, Zenon
<1>4. ResultInv(j)'
    BY <1>1, <1>2 DEF ResultInv
<1>5. lock' \in Jobs \cup {Free}
    BY DEF Leave, Return, Typed
<1>6. enabled' \in {enabled, enabled \cup {j}} /\ contexts' \in {contexts, contexts \cup {j}, contexts \ {j}}
    OBVIOUS
<1> QED
    BY <1>2, <1>3, <1>4, <1>5, <1>6, <1>7, JobStep, Zenon

LEMMA RenderSteps ==
    ASSUME Typed, NEW j \in Jobs, JobInv(j),
           \/ Lock(j) \/ Validate(j) \/ CreateContext(j) \/ NewPage(j) \/ InstallInterception(j)
           \/ GotoReturns(j) \/ Settled(j) \/ CheckPolicy(j) \/ Content(j) \/ Dispose(j)
           \/ NavigationTimeout(j) \/ TotalTimeout(j)
    PROVE  Typed' /\ Alone(j) /\ JobInv(j)'
<1>0. Aside
    BY Zenon DEF Aside, pageState, taskState, Lock, Validate, CreateContext, NewPage,
                 InstallInterception, GotoReturns, Settled, CheckPolicy, Content, Dispose,
                 NavigationTimeout, TotalTimeout
<1>1. /\ Free \in Jobs \cup {Free} /\ lock \in Jobs \cup {Free} /\ j \in Jobs \cup {Free}
      /\ \A p \in {"waiting", "validate", "context"} : job[j].pc = p => j \notin contexts
      /\ {"policy_blocked", "navigation_timeout", "total_timeout", "size_limit", "browser_unavailable"}
            \subseteq Errors
    BY DEF Typed, JobInv, ContextInv, Errors, Classes
<1>2. CASE Lock(j)
    <2>1. Go(j, "validate") /\ lock' = j /\ UNCHANGED contexts /\ UNCHANGED enabled /\ UNCHANGED faults /\ j \notin contexts
        BY <1>1, <1>2 DEF Lock, At, pageState
    <2> QED
        BY <1>0, <1>1, <2>1, GoStep
<1>3. CASE Validate(j)
    <2>1. UNCHANGED contexts /\ UNCHANGED enabled /\ j \notin contexts
        BY <1>1, <1>3 DEF Validate, At, pageState
    <2>2. CASE Go(j, "context") /\ UNCHANGED lock /\ UNCHANGED faults
        BY <1>0, <1>1, <2>1, <2>2, GoStep
    <2>3. CASE Return(j, "policy_blocked") /\ (Fault \/ UNCHANGED faults)
        BY <1>0, <1>1, <2>1, <2>3, ErrorStep, Zenon
    <2> QED
        BY <1>3, <2>2, <2>3, Zenon DEF Validate
<1>4. CASE CreateContext(j)
    <2>1. UNCHANGED enabled /\ j \notin contexts
        BY <1>1, <1>4 DEF CreateContext, At, pageState
    <2>2. CASE contexts' = contexts \cup {j} /\ Go(j, "page") /\ UNCHANGED lock /\ UNCHANGED faults
        BY <1>0, <1>1, <2>1, <2>2, GoStep
    <2>3. CASE Fault /\ Return(j, "browser_unavailable") /\ UNCHANGED contexts
        BY <1>0, <1>1, <2>1, <2>3, ErrorStep, Zenon
    <2> QED
        BY <1>4, <2>2, <2>3, Zenon DEF CreateContext
<1>5. CASE NewPage(j)
    <2>1. UNCHANGED lock /\ UNCHANGED contexts /\ UNCHANGED enabled
        BY <1>5 DEF NewPage, pageState
    <2>2. CASE Go(j, "intercept") /\ UNCHANGED faults
        BY <1>0, <1>1, <2>1, <2>2, GoStep
    <2>3. CASE Fault /\ Leave(j, "browser_unavailable")
        BY <1>0, <1>1, <2>1, <2>3, ErrorStep, Zenon
    <2> QED
        BY <1>5, <2>2, <2>3, Zenon DEF NewPage
<1>6. CASE InstallInterception(j)
    <2>1. UNCHANGED lock /\ UNCHANGED contexts
        BY <1>6 DEF InstallInterception
    <2>2. CASE Go(j, "goto") /\ enabled' = enabled \cup {j} /\ UNCHANGED faults
        BY <1>0, <1>1, <2>1, <2>2, GoStep
    <2>3. CASE Fault /\ Leave(j, "browser_unavailable") /\ UNCHANGED enabled
        BY <1>0, <1>1, <2>1, <2>3, ErrorStep, Zenon
    <2> QED
        BY <1>6, <2>2, <2>3, Zenon DEF InstallInterception
<1>7. CASE NavigationTimeout(j)
    BY <1>0, <1>1, <1>7, ErrorStep, Zenon DEF NavigationTimeout, pageState
<1>8. CASE TotalTimeout(j)
    BY <1>0, <1>1, <1>8, ErrorStep, Zenon DEF TotalTimeout, pageState
<1>15. (Fault \/ UNCHANGED faults) => FaultStep
    BY FaultCounted, Zenon
<1>9. ASSUME NEW p \in {"settle", "check", "content"}, Go(j, p), UNCHANGED lock /\ UNCHANGED contexts /\ UNCHANGED enabled /\ FaultStep,
             document[j].state \in {"loaded", "failed"}, job[j].pc \in {"goto", "settle", "check"},
             p = "check" /\ Fate(j) = "denied" => j \in violated \/ j \in faults'.starved,
             p = "content" => Fate(j) # "denied" \/ j \in faults'.starved
      PROVE  Typed' /\ Alone(j) /\ JobInv(j)'
    <2>0. p \in Places
        BY DEF Places, Running
    <2>1. PICK s \in JobStates : job' = [job EXCEPT ![j] = s] /\ job'[j] = s /\ s.pc = p /\ s.result = job[j].result
        BY <1>9, <2>0, Goes, Zenon
    <2>2. ContextInv(j)'
        BY <2>1 DEF ContextInv
    <2>3. ResultInv(j)'
        BY <1>0, <1>9, <2>1 DEF JobInv, ResultInv, Aside, Fate, FaultStep
    <2> QED
        BY <1>0, <1>1, <1>9, <2>1, <2>2, <2>3, JobStep, Zenon
<1>10. CASE GotoReturns(j)
    <2>1. /\ Go(j, "settle") /\ UNCHANGED lock /\ UNCHANGED contexts /\ UNCHANGED enabled /\ UNCHANGED faults
          /\ document[j].state \in {"loaded", "failed"} /\ job[j].pc = "goto"
        BY <1>10, Zenon DEF GotoReturns, At, pageState
    <2> QED
        BY <1>15, <2>1, <1>9
<1>11. CASE Settled(j)
    <2>1. /\ Go(j, "check") /\ UNCHANGED lock /\ UNCHANGED contexts /\ UNCHANGED enabled
          /\ job[j].pc = "settle"
          /\ IF task[j].step = "flag" THEN Starved(j) ELSE UNCHANGED faults
        BY <1>11, Zenon DEF Settled, At, TaskAt, pageState
    <2>2. FaultStep /\ (task[j].step = "flag" => j \in faults'.starved)
        BY <2>1, FaultCounted, Zenon
    <2>3. /\ document[j].state \in {"loaded", "failed"}
          /\ Fate(j) = "denied" => j \in violated \/ task[j].step = "flag"
        BY <2>1 DEF JobInv, ResultInv, FlagInv
    <2> QED
        BY <2>1, <2>2, <2>3, <1>9
<1>12. CASE CheckPolicy(j)
    <2>1. UNCHANGED lock /\ UNCHANGED contexts /\ UNCHANGED enabled /\ UNCHANGED faults /\ job[j].pc = "check"
        BY <1>12, Zenon DEF CheckPolicy, At, pageState
    <2>2. CASE j \in violated /\ Leave(j, "policy_blocked")
        BY <1>0, <1>1, <2>1, <2>2, ErrorStep, Zenon
    <2>3. CASE j \notin violated /\ Go(j, "content")
        <3>1. document[j].state \in {"loaded", "failed"} /\ (Fate(j) # "denied" \/ j \in faults'.starved)
            BY <2>1, <2>3 DEF JobInv, ResultInv
        <3> QED
            BY <1>15, <2>1, <2>3, <3>1, <1>9
    <2> QED
        BY <1>12, <2>2, <2>3, Zenon DEF CheckPolicy
<1>13. CASE Content(j)
    <2>1. UNCHANGED lock /\ UNCHANGED contexts /\ UNCHANGED enabled /\ job[j].pc = "content"
        BY <1>13, Zenon DEF Content, At, pageState
    <2>2. CASE Leave(j, "size_limit") /\ UNCHANGED faults
        BY <1>0, <1>1, <2>1, <2>2, ErrorStep, Zenon
    <2>3. CASE Fault /\ Leave(j, "browser_unavailable")
        BY <1>0, <1>1, <2>1, <2>3, ErrorStep, Zenon
    <2>4. CASE job' = [job EXCEPT ![j] = [pc |-> "dispose", result |-> "ok", counted |-> blocked[j]]] /\ UNCHANGED faults
        <3> DEFINE s == [pc |-> "dispose", result |-> "ok", counted |-> blocked[j]]
        <3>1. s \in JobStates /\ job'[j] = s
            BY <2>4 DEF JobStates, Places, Running, Classes, Typed
        <3>2. ContextInv(j)'
            BY <3>1 DEF ContextInv
        <3>3. ResultInv(j)'
            BY <1>0, <2>1, <2>4, <3>1 DEF JobInv, ResultInv, Aside, Fate
        <3> QED
            BY <1>0, <1>1, <1>15, <2>1, <2>4, <3>1, <3>2, <3>3, JobStep, Zenon
    <2> QED
        BY <1>13, <2>2, <2>3, <2>4, Zenon DEF Content
<1>14. CASE Dispose(j)
    <2>1. /\ Ending(j, "done", job[j].result) /\ lock' = Free
          /\ UNCHANGED enabled /\ "done" \in Places
        BY <1>14, Zenon DEF Dispose, Return, Ending, pageState, Places
    <2>2. job[j].result \in Classes \cup {None}
        BY Zenon DEF Typed, JobStates
    <2>3. (contexts' = contexts \ {j} /\ UNCHANGED faults) \/ (Undisposed(j) /\ UNCHANGED contexts)
        BY <1>14, Zenon DEF Dispose
    <2>8. FaultStep /\ (Undisposed(j) => j \in faults'.undisposed)
        BY <2>3, FaultCounted, Zenon
    <2>4. PICK s \in JobStates : job' = [job EXCEPT ![j] = s] /\ job'[j] = s /\ s.pc = "done" /\ s.result = job[j].result
        BY <2>1, <2>2, Ends
    <2>5. ContextInv(j)'
        BY <2>3, <2>4, <2>8 DEF ContextInv
    <2>6. ResultInv(j)'
        BY <1>0, <2>4, <2>8 DEF JobInv, ResultInv, Aside, Fate, FaultStep
    <2>7. contexts' \in {contexts, contexts \cup {j}, contexts \ {j}}
        BY <2>3
    <2> QED
        BY <1>0, <1>1, <2>1, <2>4, <2>5, <2>6, <2>7, <2>8, JobStep, Zenon
<1> QED
    BY <1>2, <1>3, <1>4, <1>5, <1>6, <1>7, <1>8, <1>10, <1>11, <1>12, <1>13, <1>14

-----------------------------------------------------------------------------
(* The steps of the page.                                                  *)

(* One request of job j changes its fate. *)
Fated(j, r, f) ==
    /\ net' \in [Jobs -> [Requests -> Fates]]
    /\ \A i \in Jobs \ {j} : net'[i] = net[i]
    /\ net'[j][r] = f
    /\ \A q \in Requests \ {r} : net'[j][q] = net[j][q]

LEMMA Fating ==
    ASSUME Typed, NEW j \in Jobs, NEW r \in Requests, NEW f \in Fates, net' = [net EXCEPT ![j][r] = f]
    PROVE  Fated(j, r, f)
    BY DEF Typed, Fated

LEMMA Issued ==
    ASSUME Typed, NEW j \in Jobs, NEW r \in Requests, Issue(j, r)
    PROVE  net[j][r] = "unsent" /\ \E f \in {"paused", "sent"} : Fated(j, r, f)
<1> DEFINE f == IF j \in enabled THEN "paused" ELSE "sent"
<1>1. f \in Fates /\ f \in {"paused", "sent"}
    BY DEF Fates
<1>2. net' = [net EXCEPT ![j][r] = f] /\ net[j][r] = "unsent"
    BY Zenon DEF Issue
<1> HIDE DEF f
<1> QED
    BY <1>1, <1>2, Fating, Zenon

(* What the page leaves alone. *)
PageAside == UNCHANGED <<lock, job, contexts, enabled, task, violated, blocked>>

(* A new request is none that the task holds. *)
LEMMA TaskKept ==
    ASSUME Typed, NEW j \in Jobs, JobInv(j), PageAside,
           UNCHANGED net \/ \E r \in Requests, f \in Fates : net[j][r] = "unsent" /\ Fated(j, r, f)
    PROVE  TaskInv(j)' /\ net' \in [Jobs -> [Requests -> Fates]] /\ \A i \in Jobs \ {j} : net'[i] = net[i]
<1>1. task' = task /\ TaskInv(j)
    BY Zenon DEF PageAside, JobInv
<1>2. ASSUME NEW r \in Requests, NEW f \in Fates, net[j][r] = "unsent", Fated(j, r, f) PROVE TaskInv(j)'
    BY <1>1, <1>2 DEF TaskInv, Fated
<1>3. CASE UNCHANGED net
    BY <1>1, <1>3, Zenon DEF TaskInv, Typed
<1> QED
    BY <1>2, <1>3, Zenon DEF Fated

(* The document moves on while goto waits for it. *)
LEMMA DocumentStep ==
    ASSUME Typed, NEW j \in Jobs, JobInv(j), PageAside, Fault \/ UNCHANGED faults,
           NEW d \in Documents, document' = [document EXCEPT ![j] = d],
           document[j].state \in {"blank", "loading"}, d.state # "blank",
           d.request \in Redirects \cup {Target[j]},
           UNCHANGED net \/ \E r \in Requests, f \in Fates : net[j][r] = "unsent" /\ Fated(j, r, f),
           d.state \in {"loaded", "failed"} => net'[j][d.request] \in {"sent", "denied"},
           net'[j][d.request] = "denied" => j \in violated \/ task[j].step = "flag"
    PROVE  Typed' /\ Alone(j) /\ JobInv(j)'
<1>1. document' \in [Jobs -> Documents] /\ document'[j] = d /\ \A i \in Jobs \ {j} : document'[i] = document[i]
    BY Zenon DEF Typed
<1>2. UNCHANGED lock /\ UNCHANGED job /\ UNCHANGED contexts /\ UNCHANGED enabled /\ UNCHANGED task
      /\ UNCHANGED violated /\ UNCHANGED blocked
    BY Zenon DEF PageAside
<1>8. FaultStep
    BY FaultCounted, Zenon
<1>3. Typed'
    BY <1>1, <1>2, <1>8, TaskKept, Zenon DEF Typed, FaultStep
<1>4. Alone(j)
    BY <1>1, <1>2, <1>8, TaskKept, Zenon DEF Alone
<1>5. ContextInv(j)'
    BY <1>2, <1>8, Zenon DEF JobInv, ContextInv, FaultStep
<1>6. DocumentInv(j)' /\ FlagInv(j)'
    BY <1>1, <1>2, Zenon DEF DocumentInv, FlagInv, Fate
<1>7. ResultInv(j)'
    BY <1>1, <1>2 DEF JobInv, ResultInv
<1> QED
    BY <1>3, <1>4, <1>5, <1>6, <1>7, TaskKept, Zenon DEF JobInv

LEMMA PageSteps ==
    ASSUME Typed, NEW j \in Jobs, JobInv(j), Goto(j) \/ BrowserStep(j)
    PROVE  Typed' /\ Alone(j) /\ JobInv(j)'
<1>0. /\ Target[j] \in Requests /\ Redirects \subseteq Requests /\ document[j] \in Documents
      /\ {"paused", "sent"} \subseteq Fates
      /\ DocumentInv(j) /\ FlagInv(j)
    BY RequestsAssumption DEF RequestsAssumption, Typed, JobInv, Fates
<1>1. CASE Goto(j)
    <2> DEFINE d == [request |-> Target[j], state |-> "loading"]
    <2>1. PageAside /\ UNCHANGED faults /\ document' = [document EXCEPT ![j] = d]
          /\ document[j].state = "blank" /\ Issue(j, Target[j])
        BY <1>1, Zenon DEF Goto, PageAside, taskState
    <2>2. d \in Documents /\ d.state = "loading" /\ d.request = Target[j]
        BY <1>0 DEF Documents
    <2>3. PICK f \in {"paused", "sent"} : net[j][Target[j]] = "unsent" /\ Fated(j, Target[j], f)
        BY <1>0, <2>1, Issued, Zenon
    <2>4. net'[j][Target[j]] # "denied"
        BY <2>3 DEF Fated
    <2> HIDE DEF d
    <2> QED
        BY <1>0, <2>1, <2>2, <2>3, <2>4, DocumentStep, Zenon
<1>2. CASE Answer(j)
    <2>1. PageAside /\ document[j].state = "loading" /\ document[j].request \in Redirects \cup {Target[j]}
        BY <1>0, <1>2 DEF Answer, PageAside, taskState, DocumentInv
    <2>2. ASSUME NEW t \in {"loaded", "failed"}, document' = [document EXCEPT ![j].state = t], UNCHANGED net,
                 Fate(j) \in {"sent", "denied"}, Fault \/ UNCHANGED faults
          PROVE  Typed' /\ Alone(j) /\ JobInv(j)'
        <3> DEFINE d == [document[j] EXCEPT !.state = t]
        <3>1. d \in Documents /\ d.state = t /\ d.request = document[j].request
            BY <1>0 DEF Documents
        <3>2. document' = [document EXCEPT ![j] = d]
            BY <2>2, Zenon DEF Typed
        <3> HIDE DEF d
        <3>3. net'[j][d.request] = Fate(j)
            BY <2>2, <3>1, Zenon DEF Fate
        <3>4. Fate(j) = "denied" => j \in violated \/ task[j].step = "flag"
            BY <1>0, <2>1 DEF FlagInv
        <3> QED
            BY <2>1, <2>2, <3>1, <3>2, <3>3, <3>4, DocumentStep, Zenon
    <2>3. ASSUME NEW r \in Redirects, Issue(j, r), document' = [document EXCEPT ![j].request = r], UNCHANGED faults
          PROVE  Typed' /\ Alone(j) /\ JobInv(j)'
        <3> DEFINE d == [document[j] EXCEPT !.request = r]
        <3>1. d \in Documents /\ d.state = "loading" /\ d.request = r
            BY <1>0, <2>1 DEF Documents
        <3>2. document' = [document EXCEPT ![j] = d]
            BY <2>3, Zenon DEF Typed
        <3> HIDE DEF d
        <3>3. PICK f \in {"paused", "sent"} : net[j][r] = "unsent" /\ Fated(j, r, f)
            BY <1>0, <2>3, Issued, Zenon
        <3>4. net'[j][r] # "denied"
            BY <3>3 DEF Fated
        <3> QED
            BY <1>0, <2>1, <2>3, <3>1, <3>2, <3>3, <3>4, DocumentStep, Zenon
    <2> QED
        BY <1>2, <2>2, <2>3, Zenon DEF Answer, Fate
<1>3. ASSUME NEW r \in Requests, PageRequests(j, r) PROVE Typed' /\ Alone(j) /\ JobInv(j)'
    <2>1. PageAside /\ UNCHANGED document /\ UNCHANGED faults /\ document[j].state = "loaded" /\ Issue(j, r)
        BY <1>3, Zenon DEF PageRequests, PageAside, taskState
    <2>2. PICK f \in {"paused", "sent"} : net[j][r] = "unsent" /\ Fated(j, r, f)
        BY <2>1, Issued, Zenon
    <2>3. Fate(j)' = Fate(j)
        <3>1. Fate(j) \in {"sent", "denied"} /\ document[j].request \in Requests
            BY <1>0, <2>1 DEF DocumentInv
        <3> QED
            BY <2>1, <2>2, <3>1 DEF Fate, Fated
    <2>4. TaskInv(j)' /\ net' \in [Jobs -> [Requests -> Fates]] /\ \A i \in Jobs \ {j} : net'[i] = net[i]
        BY <1>0, <2>1, <2>2, TaskKept
    <2>7. FaultStep
        BY <2>1, FaultCounted, Zenon
    <2>5. Typed' /\ Alone(j)
        BY <2>1, <2>4, <2>7, Zenon DEF Typed, Alone, PageAside
    <2>6. ContextInv(j)' /\ DocumentInv(j)' /\ FlagInv(j)' /\ ResultInv(j)'
        BY <2>1, <2>3, Zenon DEF JobInv, ContextInv, DocumentInv, FlagInv, ResultInv, PageAside
    <2> QED
        BY <2>4, <2>5, <2>6, Zenon DEF JobInv
<1> QED
    BY <1>1, <1>2, <1>3, Zenon DEF BrowserStep

-----------------------------------------------------------------------------
(* The steps of the interception task.                                     *)

(* What the task leaves alone. *)
TaskAside == UNCHANGED <<lock, job, contexts, document, enabled>>

(* The request the task decides was still paused, and not denied if it is  *)
(* the document, unless the task is about to raise the flag.               *)
LEMMA TaskMove ==
    ASSUME Typed, NEW j \in Jobs, JobInv(j), TaskAside, Fault \/ UNCHANGED faults,
           NEW t \in TaskStates, task' = [task EXCEPT ![j] = t],
           UNCHANGED violated \/ violated' = violated \cup {j}, blocked' \in [Jobs -> Nat],
           \/ UNCHANGED net
           \/ \E r \in Requests, f \in Fates :
                /\ net[j][r] = "paused" /\ Fated(j, r, f)
                /\ f = "denied" => t.step = "flag" \/ r \in Heavy,
           task[j].step = "flag" => j \in violated',
           t.step # "idle" => t.request \in Requests,
           t.step \in {"judge", "refuse", "deny"} => net'[j][t.request] = "paused",
           t.step = "deny" => t.request \in Heavy
    PROVE  Typed' /\ Alone(j) /\ JobInv(j)'
<1>1. task' \in [Jobs -> TaskStates] /\ task'[j] = t /\ \A i \in Jobs \ {j} : task'[i] = task[i]
    BY Zenon DEF Typed
<1>2. UNCHANGED lock /\ UNCHANGED job /\ UNCHANGED contexts /\ UNCHANGED document /\ UNCHANGED enabled
    BY Zenon DEF TaskAside
<1>3. violated \subseteq violated' /\ violated' \subseteq violated \cup {j}
    BY Zenon
<1>4. net' \in [Jobs -> [Requests -> Fates]] /\ \A i \in Jobs \ {j} : net'[i] = net[i]
    BY Zenon DEF Typed, Fated
<1>5. violated' \subseteq Jobs
    BY <1>3 DEF Typed
<1>13. FaultStep
    BY FaultCounted, Zenon
<1>6. Typed'
    BY <1>1, <1>2, <1>4, <1>5, <1>13, Zenon DEF Typed, FaultStep
<1>7. Alone(j)
    <2>1. \A i \in Jobs \ {j} : i \in violated' <=> i \in violated
        BY <1>3
    <2> QED
        BY <1>1, <1>2, <1>4, <1>13, <2>1, Zenon DEF Alone
<1>8. TaskInv(j)'
    BY <1>1, Zenon DEF TaskInv
<1>9. document[j].state # "blank" =>
        /\ Fate(j)' = "denied" => Fate(j) = "denied" \/ t.step = "flag"
        /\ Fate(j) \in {"sent", "denied"} => Fate(j)' = Fate(j)
    <2>1. document[j].state # "blank" => document[j].request \in Requests /\ document[j].request \notin Heavy
        BY RequestsAssumption DEF JobInv, DocumentInv, RequestsAssumption
    <2> QED
        BY <1>2, <2>1 DEF Fate, Fated
<1>10. FlagInv(j)'
    BY <1>1, <1>2, <1>3, <1>9 DEF JobInv, FlagInv
<1>11. DocumentInv(j)' /\ ContextInv(j)'
    BY <1>2, <1>9, <1>13 DEF JobInv, DocumentInv, ContextInv, FaultStep
<1>12. ResultInv(j)'
    BY <1>2, <1>3, <1>9, <1>13 DEF JobInv, DocumentInv, ResultInv, FaultStep
<1> QED
    BY <1>6, <1>7, <1>8, <1>10, <1>11, <1>12, Zenon DEF JobInv

(* What the answer to FailRequest does to the request. *)
LEMMA Denied ==
    ASSUME Typed, NEW j \in Jobs, TaskInv(j), task[j].step \in {"refuse", "deny"}, Fail(j)
    PROVE  \E r \in Requests : r = task[j].request /\ net[j][r] = "paused" /\ Fated(j, r, "denied")
    BY Fating, Zenon DEF Fail, TaskInv, Fates

LEMMA TaskSteps ==
    ASSUME Typed, NEW j \in Jobs, JobInv(j), TaskStep(j)
    PROVE  Typed' /\ Alone(j) /\ JobInv(j)'
<1> DEFINE r == task[j].request
<1>0. /\ TaskInv(j) /\ task[j] \in TaskStates /\ blocked \in [Jobs -> Nat]
      /\ Idle \in TaskStates /\ Idle.step = "idle"
    BY DEF Typed, JobInv, Idle, TaskStates
<1>1. TaskAside
    BY Zenon DEF TaskStep, TakePaused, Judge, Refuse, Flag, Deny, CountBlocked, Continue,
                 Page, TaskAside
<1>2. ASSUME NEW p \in {"refuse", "flag", "deny", "count", "continue"}, TaskGo(j, p)
      PROVE  \E t \in TaskStates : t.step = p /\ t.request = r /\ task' = [task EXCEPT ![j] = t]
    <2> DEFINE t == [task[j] EXCEPT !.step = p]
    <2>1. t \in TaskStates /\ t.step = p /\ t.request = r
        BY <1>0, <1>2 DEF TaskStates
    <2>2. task' = [task EXCEPT ![j] = t]
        BY <1>2, Zenon DEF TaskGo
    <2> HIDE DEF t
    <2> QED
        BY <2>1, <2>2, Zenon
<1>3. CASE TakePaused(j)
    <2>1. PICK q \in Requests : net[j][q] = "paused" /\ task' = [task EXCEPT ![j] = [request |-> q, step |-> "judge"]]
        BY <1>3, Zenon DEF TakePaused
    <2>2. UNCHANGED net /\ UNCHANGED violated /\ UNCHANGED blocked /\ UNCHANGED faults /\ task[j].step = "idle"
        BY <1>3, Zenon DEF TakePaused, TaskAt
    <2> DEFINE t == [request |-> q, step |-> "judge"]
    <2>3. t \in TaskStates /\ t.step = "judge" /\ t.request = q /\ net'[j][q] = "paused" /\ t.step # "deny"
          /\ task[j].step # "flag"
        BY <2>1, <2>2 DEF TaskStates
    <2>4. task' = [task EXCEPT ![j] = t]
        BY <2>1, Zenon
    <2> HIDE DEF t
    <2> QED
        BY <1>0, <1>1, <2>1, <2>2, <2>3, <2>4, TaskMove, Zenon
<1>4. CASE Judge(j)
    <2>1. UNCHANGED net /\ UNCHANGED violated /\ UNCHANGED blocked /\ task[j].step = "judge"
          /\ (Fault \/ UNCHANGED faults)
        BY <1>4, Zenon DEF Judge, TaskAt
    <2>2. PICK p \in {"refuse", "deny", "continue"} : TaskGo(j, p) /\ (p = "deny" => r \in Heavy)
        BY <1>4 DEF Judge
    <2>3. PICK t \in TaskStates : t.step = p /\ t.request = r /\ task' = [task EXCEPT ![j] = t]
        BY <1>2, <2>2
    <2>4. r \in Requests /\ net'[j][r] = "paused" /\ task[j].step # "flag"
        BY <1>0, <2>1 DEF TaskInv
    <2> QED
        BY <1>0, <1>1, <2>1, <2>2, <2>3, <2>4, TaskMove, Zenon
<1>5. CASE Refuse(j)
    <2>1. UNCHANGED violated /\ UNCHANGED blocked /\ task[j].step = "refuse" /\ TaskGo(j, "flag")
          /\ (Fail(j) \/ FailFails(j))
        BY <1>5, Zenon DEF Refuse, TaskAt
    <2>2. PICK t \in TaskStates : t.step = "flag" /\ t.request = r /\ task' = [task EXCEPT ![j] = t]
        BY <1>2, <2>1
    <2>3. r \in Requests /\ task[j].step # "flag" /\ t.step \notin {"judge", "refuse", "deny"} /\ t.step # "deny"
        BY <1>0, <2>1, <2>2 DEF TaskInv
    <2>4. CASE Fail(j)
        <3>1. PICK q \in Requests : net[j][q] = "paused" /\ Fated(j, q, "denied")
            BY <1>0, <2>1, <2>4, Denied
        <3>2. "denied" \in Fates /\ UNCHANGED faults
            BY <2>4 DEF Fates, Fail
        <3> QED
            BY <1>0, <1>1, <2>1, <2>2, <2>3, <3>1, <3>2, TaskMove, Zenon
    <2>5. CASE FailFails(j)
        <3>1. UNCHANGED net /\ (Fault \/ UNCHANGED faults)
            BY <2>5, Zenon DEF FailFails
        <3> QED
            BY <1>0, <1>1, <2>1, <2>2, <2>3, <3>1, TaskMove, Zenon
    <2> QED
        BY <2>1, <2>4, <2>5, Zenon
<1>6. CASE Flag(j)
    <2>1. UNCHANGED net /\ violated' = violated \cup {j} /\ UNCHANGED blocked /\ UNCHANGED faults
          /\ task' = [task EXCEPT ![j] = Idle]
        BY <1>6, Zenon DEF Flag
    <2>2. j \in violated' /\ Idle.step \notin {"judge", "refuse", "deny"} /\ Idle.step # "deny"
        BY <1>0, <2>1
    <2> QED
        BY <1>0, <1>1, <2>1, <2>2, TaskMove, Zenon
<1>7. CASE Deny(j)
    <2>1. UNCHANGED violated /\ UNCHANGED blocked /\ task[j].step = "deny"
          /\ ((Fail(j) /\ TaskGo(j, "count")) \/ (FailFails(j) /\ TaskGo(j, "continue")))
        BY <1>7, Zenon DEF Deny, TaskAt
    <2>2. r \in Requests /\ r \in Heavy /\ task[j].step # "flag"
        BY <1>0, <2>1 DEF TaskInv
    <2>3. CASE Fail(j) /\ TaskGo(j, "count")
        <3>1. PICK t \in TaskStates : t.step = "count" /\ t.request = r /\ task' = [task EXCEPT ![j] = t]
            BY <1>2, <2>3
        <3>2. net[j][r] = "paused" /\ Fated(j, r, "denied")
            BY <1>0, <2>1, <2>3, Denied
        <3>3. "denied" \in Fates /\ UNCHANGED faults /\ t.step \notin {"judge", "refuse", "deny"} /\ t.step # "deny"
            BY <2>3, <3>1 DEF Fates, Fail
        <3> QED
            BY <1>0, <1>1, <2>1, <2>2, <3>1, <3>2, <3>3, TaskMove, Zenon
    <2>4. CASE FailFails(j) /\ TaskGo(j, "continue")
        <3>1. PICK t \in TaskStates : t.step = "continue" /\ t.request = r /\ task' = [task EXCEPT ![j] = t]
            BY <1>2, <2>4
        <3>2. UNCHANGED net /\ (Fault \/ UNCHANGED faults)
            BY <2>4, Zenon DEF FailFails
        <3>3. t.step \notin {"judge", "refuse", "deny"} /\ t.step # "deny"
            BY <3>1
        <3> QED
            BY <1>0, <1>1, <2>1, <2>2, <3>1, <3>2, <3>3, TaskMove, Zenon
    <2> QED
        BY <2>1, <2>3, <2>4, Zenon
<1>8. CASE CountBlocked(j)
    <2>1. UNCHANGED net /\ UNCHANGED violated /\ UNCHANGED faults /\ task[j].step = "count"
          /\ TaskGo(j, "continue")
        BY <1>8, Zenon DEF CountBlocked, TaskAt
    <2>2. blocked' \in [Jobs -> Nat]
        BY <1>0, <1>8 DEF CountBlocked
    <2>3. PICK t \in TaskStates : t.step = "continue" /\ t.request = r /\ task' = [task EXCEPT ![j] = t]
        BY <1>2, <2>1
    <2>4. r \in Requests /\ task[j].step # "flag" /\ t.step \notin {"judge", "refuse", "deny"} /\ t.step # "deny"
        BY <1>0, <2>1, <2>3 DEF TaskInv
    <2> QED
        BY <1>0, <1>1, <2>1, <2>2, <2>3, <2>4, TaskMove, Zenon
<1>9. CASE Continue(j)
    <2>1. UNCHANGED violated /\ UNCHANGED blocked /\ task[j].step = "continue"
          /\ task' = [task EXCEPT ![j] = Idle] /\ (Fault \/ UNCHANGED faults)
        BY <1>9, Zenon DEF Continue, TaskAt
    <2>2. task[j].step # "flag" /\ Idle.step \notin {"judge", "refuse", "deny"} /\ Idle.step # "deny"
        BY <1>0, <2>1
    <2>3. UNCHANGED net \/ (net[j][r] = "paused" /\ r \in Requests /\ Fated(j, r, "sent"))
        <3>1. r \in Requests /\ "sent" \in Fates
            BY <1>0, <2>1 DEF TaskInv, Fates
        <3>2. UNCHANGED net \/ (net[j][r] = "paused" /\ net' = [net EXCEPT ![j][r] = "sent"])
            BY <1>9 DEF Continue, Typed
        <3> QED
            BY <3>1, <3>2, Fating, Zenon
    <2>4. "sent" \in Fates /\ "sent" # "denied"
        BY DEF Fates
    <2> QED
        BY <1>0, <1>1, <2>1, <2>2, <2>3, <2>4, TaskMove, Zenon
<1> QED
    BY <1>3, <1>4, <1>5, <1>6, <1>7, <1>8, <1>9, Zenon DEF TaskStep

-----------------------------------------------------------------------------
(* The count of the blocked requests.                                      *)

(* Heavy requests the browser has denied. *)
Dropped(j) == {r \in Heavy : net[j][r] = "denied"}
Owed(j) == IF task[j].step = "count" THEN 1 ELSE 0

(* Every count, and the one about to be made, stands for another denied    *)
(* request: a denial is final, and the task counts it before the next.     *)
CountInv(j) ==
    /\ blocked[j] + Owed(j) <= Cardinality(Dropped(j))
    /\ job[j].counted <= Cardinality(Heavy)

(* The facts about finite sets that counting takes; Counting proves them.  *)
CountingFacts ==
    /\ \A S : IsFiniteSet(S) => Cardinality(S) \in Nat
    /\ \A S, T : IsFiniteSet(T) /\ S \subseteq T => IsFiniteSet(S) /\ Cardinality(S) <= Cardinality(T)
    /\ \A S, x : IsFiniteSet(S) /\ x \notin S => Cardinality(S \cup {x}) = Cardinality(S) + 1
    /\ \A S, x : IsFiniteSet(S) /\ x \in S => Cardinality(S \ {x}) = Cardinality(S) - 1
    /\ \A S : IsFiniteSet(S) => (Cardinality(S) = 0 <=> S = {})
    /\ IsFiniteSet({})

LEMMA DroppedFinite ==
    ASSUME CountingFacts, NEW j \in Jobs
    PROVE  IsFiniteSet(Dropped(j)) /\ Cardinality(Dropped(j)) \in Nat /\ Cardinality(Dropped(j)) <= Cardinality(Heavy)
           /\ IsFiniteSet(Dropped(j)') /\ Cardinality(Dropped(j)') \in Nat /\ Cardinality(Heavy) \in Nat
<1>0. Dropped(j) \subseteq Heavy /\ Dropped(j)' \subseteq Heavy
    BY Zenon DEF Dropped
<1>1. IsFiniteSet(Heavy)
    <2>1. IsFiniteSet(Requests) /\ Heavy \subseteq Requests
        BY RequestsAssumption, Zenon DEF RequestsAssumption
    <2> QED
        BY <2>1, Zenon DEF CountingFacts
<1>2. /\ IsFiniteSet(Dropped(j)) /\ Cardinality(Dropped(j)) <= Cardinality(Heavy)
      /\ IsFiniteSet(Dropped(j)')
    BY <1>0, <1>1, Zenon DEF CountingFacts
<1> QED
    BY <1>1, <1>2, Zenon DEF CountingFacts

(* One step of job j: nothing denied is undone. *)
LEMMA CountMove ==
    ASSUME CountingFacts, Typed, Typed', NEW j \in Jobs, CountInv(j), Dropped(j) \subseteq Dropped(j)',
           job'[j].counted \in {job[j].counted, blocked[j]},
           \/ blocked'[j] = blocked[j] /\ (Owed(j)' = 0 \/ task'[j] = task[j])
           \/ blocked'[j] = blocked[j] + 1 /\ Owed(j) = 1 /\ Owed(j)' = 0
           \/ /\ blocked'[j] = blocked[j] /\ Owed(j) = 0
              /\ \E r \in Heavy : Dropped(j)' = Dropped(j) \cup {r} /\ r \notin Dropped(j)
    PROVE  CountInv(j)'
<1>1. blocked[j] \in Nat /\ blocked'[j] \in Nat /\ Owed(j) \in {0, 1} /\ Owed(j)' \in {0, 1}
      /\ job[j].counted \in Nat
    <2>1. Owed(j) \in {0, 1} /\ Owed(j)' \in {0, 1}
        BY Zenon DEF Owed
    <2>2. blocked[j] \in Nat /\ blocked'[j] \in Nat /\ job[j].counted \in Nat
        BY Zenon DEF Typed, JobStates
    <2> QED
        BY <2>1, <2>2
<1>2. Cardinality(Dropped(j)) <= Cardinality(Dropped(j)')
    BY DroppedFinite DEF CountingFacts
<1>3. (\E r \in Heavy : Dropped(j)' = Dropped(j) \cup {r} /\ r \notin Dropped(j))
            => Cardinality(Dropped(j)') = Cardinality(Dropped(j)) + 1
    BY DroppedFinite, Zenon DEF CountingFacts
<1>4. task'[j] = task[j] => Owed(j)' = Owed(j)
    BY DEF Owed
<1> DEFINE b == blocked[j]  bb == blocked'[j]  c == Cardinality(Dropped(j))  cc == Cardinality(Dropped(j)')
           h == Cardinality(Heavy)  o == Owed(j)  oo == Owed(j)'
<1>5. b + o <= c /\ job[j].counted <= h
    BY DEF CountInv
<1>6. bb + oo <= cc
    <2>1. c \in Nat /\ cc \in Nat
        BY DroppedFinite
    <2>2. (bb = b /\ (oo = 0 \/ oo = o)) \/ (bb = b + 1 /\ o = 1 /\ oo = 0) \/ (bb = b /\ o = 0 /\ cc = c + 1)
        BY <1>3, <1>4
    <2>3. b \in Nat /\ bb \in Nat /\ o \in {0, 1} /\ oo \in {0, 1} /\ c <= cc
        BY <1>1, <1>2
    <2> HIDE DEF b, bb, c, cc, o, oo
    <2> QED
        BY <1>5, <2>1, <2>2, <2>3
<1>7. job'[j].counted <= h
    <2>1. c \in Nat /\ h \in Nat /\ c <= h /\ b \in Nat /\ o \in {0, 1}
        BY <1>1, DroppedFinite
    <2>2. b <= h
        <3> HIDE DEF b, c, h, o
        <3> QED
            BY <1>5, <2>1
    <2> QED
        BY <1>5, <2>2
<1> QED
    BY <1>6, <1>7 DEF CountInv

LEMMA RenderCounts ==
    ASSUME CountingFacts, Typed, Typed', NEW j \in Jobs, CountInv(j),
           \/ Lock(j) \/ Validate(j) \/ CreateContext(j) \/ NewPage(j) \/ InstallInterception(j)
           \/ GotoReturns(j) \/ Settled(j) \/ CheckPolicy(j) \/ Content(j) \/ Dispose(j)
           \/ NavigationTimeout(j) \/ TotalTimeout(j)
    PROVE  CountInv(j)' /\ UNCHANGED blocked
<1>1. Aside
    BY Zenon DEF Aside, pageState, taskState, Lock, Validate, CreateContext, NewPage,
                 InstallInterception, GotoReturns, Settled, CheckPolicy, Content, Dispose,
                 NavigationTimeout, TotalTimeout
<1>2. \/ \E p \in Places : Go(j, p)
      \/ \E p \in {"dispose", "done"}, r \in Classes \cup {None} : Ending(j, p, r)
      \/ job' = [job EXCEPT ![j] = [pc |-> "dispose", result |-> "ok", counted |-> blocked[j]]]
    <2>1. CASE Lock(j) \/ Validate(j) \/ CreateContext(j) \/ NewPage(j) \/ InstallInterception(j)
        BY <2>1 DEF Lock, Validate, CreateContext, NewPage, InstallInterception, Ending, Return,
                    Leave, Places, Running, Classes
    <2>2. CASE GotoReturns(j) \/ Settled(j) \/ CheckPolicy(j) \/ Content(j)
        BY <2>2 DEF GotoReturns, Settled, CheckPolicy, Content, Ending, Leave, Places,
                    Running, Classes
    <2>3. CASE NavigationTimeout(j) \/ TotalTimeout(j)
        BY <2>3 DEF NavigationTimeout, TotalTimeout, Ending, Return, Leave, Classes
    <2>4. CASE Dispose(j)
        <3>1. job[j].result \in Classes \cup {None}
            BY Zenon DEF Typed, JobStates
        <3> QED
            BY <2>4, <3>1, Zenon DEF Dispose, Return, Ending
    <2> QED
        BY <2>1, <2>2, <2>3, <2>4, Zenon
<1>3. job'[j].counted \in {job[j].counted, blocked[j]}
    <2>1. CASE \E p \in Places : Go(j, p)
        <3>1. PICK p \in Places : Go(j, p)
            BY <2>1, Zenon
        <3>2. job[j] \in JobStates /\ job'[j] = [job[j] EXCEPT !.pc = p]
            BY <3>1, Zenon DEF Go, Typed
        <3>3. job'[j].counted = job[j].counted
            BY <3>2, Zenon DEF JobStates
        <3> QED
            BY <3>3, Zenon
    <2>2. CASE \E p \in {"dispose", "done"}, r \in Classes \cup {None} : Ending(j, p, r)
        <3>1. PICK p \in {"dispose", "done"}, r \in Classes \cup {None} : Ending(j, p, r)
            BY <2>2, Zenon
        <3>2. job[j] \in JobStates /\ job'[j] = [job[j] EXCEPT !.pc = p, !.result = r]
            BY <3>1, Zenon DEF Ending, Typed
        <3>3. job'[j].counted = job[j].counted
            BY <3>2, Zenon DEF JobStates
        <3> QED
            BY <3>3, Zenon
    <2>3. CASE job' = [job EXCEPT ![j] = [pc |-> "dispose", result |-> "ok", counted |-> blocked[j]]]
        <3>1. job'[j] = [pc |-> "dispose", result |-> "ok", counted |-> blocked[j]]
            BY <2>3, Zenon DEF Typed
        <3> QED
            BY <3>1
    <2> QED
        BY <1>2, <2>1, <2>2, <2>3, Zenon
<1>4. UNCHANGED blocked /\ UNCHANGED task /\ Dropped(j)' = Dropped(j)
    BY <1>1, Zenon DEF Aside, Dropped
<1> QED
    BY <1>3, <1>4, CountMove, Zenon

LEMMA PageCounts ==
    ASSUME CountingFacts, Typed, Typed', NEW j \in Jobs, CountInv(j), Goto(j) \/ BrowserStep(j)
    PROVE  CountInv(j)' /\ UNCHANGED blocked
<1>1. UNCHANGED blocked /\ UNCHANGED task /\ UNCHANGED job
    BY Zenon DEF Goto, BrowserStep, Answer, PageRequests, taskState
<1>2. UNCHANGED net \/ \E r \in Requests : Issue(j, r)
    BY RequestsAssumption DEF Goto, BrowserStep, Answer, PageRequests, RequestsAssumption
<1>3. Dropped(j) \subseteq Dropped(j)'
    <2>1. ASSUME NEW r \in Requests, Issue(j, r) PROVE Dropped(j) \subseteq Dropped(j)'
        <3>1. PICK f \in {"paused", "sent"} : net[j][r] = "unsent" /\ Fated(j, r, f)
            BY <2>1, Issued, Zenon
        <3> QED
            BY RequestsAssumption, <3>1 DEF Dropped, Fated, RequestsAssumption
    <2> QED
        BY <1>2, <2>1, Zenon DEF Dropped
<1> QED
    BY <1>1, <1>3, CountMove, Zenon

LEMMA TaskCounts ==
    ASSUME CountingFacts, Typed, Typed', NEW j \in Jobs, JobInv(j), CountInv(j), TaskStep(j)
    PROVE  CountInv(j)' /\ \A i \in Jobs \ {j} : blocked'[i] = blocked[i]
<1>0. TaskInv(j) /\ job' = job /\ Heavy \subseteq Requests
    BY RequestsAssumption DEF JobInv, TaskStep, TakePaused, Judge, Refuse, Flag, Deny, CountBlocked, Continue,
           Page, RequestsAssumption
<1>1. CASE TakePaused(j) \/ Judge(j) \/ Flag(j)
    <2>1. UNCHANGED blocked /\ UNCHANGED net
        BY <1>1, Zenon DEF TakePaused, Judge, Flag
    <2>2. task'[j].step # "count"
        BY <1>1 DEF TakePaused, Judge, Flag, TaskGo, Idle, Typed, TaskStates
    <2>3. Dropped(j)' = Dropped(j) /\ Owed(j)' = 0
        BY <2>1, <2>2, Zenon DEF Dropped, Owed
    <2> QED
        BY <1>0, <2>1, <2>3, CountMove, Zenon
<1>2. CASE Refuse(j) \/ Deny(j)
    <2>1. UNCHANGED blocked /\ task[j].step \in {"refuse", "deny"} /\ Owed(j) = 0
        BY <1>2 DEF Refuse, Deny, TaskAt, Owed
    <2>2. CASE Fail(j)
        <3>1. PICK r \in Requests : r = task[j].request /\ net[j][r] = "paused" /\ Fated(j, r, "denied")
            BY <1>0, <2>1, <2>2, Denied
        <3>2. r \notin Dropped(j) /\ Dropped(j) \subseteq Dropped(j)'
            BY <1>0, <3>1 DEF Dropped, Fated
        <3>3. CASE Refuse(j)
            <4>1. Owed(j)' = 0
                BY <3>3 DEF Refuse, TaskGo, Owed, Typed, TaskStates
            <4> QED
                BY <1>0, <2>1, <3>2, <4>1, CountMove, Zenon
        <3>4. CASE Deny(j)
            <4>1. r \in Heavy
                BY <1>0, <3>1, <3>4 DEF Deny, TaskAt, TaskInv
            <4>2. Dropped(j)' = Dropped(j) \cup {r}
                BY <1>0, <3>1, <4>1 DEF Dropped, Fated
            <4> QED
                BY <1>0, <2>1, <3>2, <4>1, <4>2, CountMove, Zenon
        <3> QED
            BY <1>2, <3>3, <3>4, Zenon
    <2>3. CASE ~Fail(j)
        <3>1. UNCHANGED net
            BY <1>2, <2>3, Zenon DEF Refuse, Deny, FailFails
        <3>2. Owed(j)' = 0
            BY <1>2, <2>3 DEF Refuse, Deny, TaskGo, Owed, Typed, TaskStates
        <3>3. Dropped(j)' = Dropped(j)
            BY <3>1, Zenon DEF Dropped
        <3> QED
            BY <1>0, <2>1, <3>2, <3>3, CountMove, Zenon
    <2> QED
        BY <2>2, <2>3
<1>3. CASE CountBlocked(j)
    <2>1. UNCHANGED net /\ Owed(j) = 1
        BY <1>3 DEF CountBlocked, TaskAt, Owed
    <2>2. Owed(j)' = 0
        BY <1>3 DEF CountBlocked, TaskGo, Owed, Typed, TaskStates
    <2>3. blocked'[j] = blocked[j] + 1 /\ \A i \in Jobs \ {j} : blocked'[i] = blocked[i]
        BY <1>3 DEF CountBlocked, Typed
    <2>4. Dropped(j)' = Dropped(j)
        BY <2>1, Zenon DEF Dropped
    <2> QED
        BY <1>0, <2>1, <2>2, <2>3, <2>4, CountMove, Zenon
<1>4. CASE Continue(j)
    <2>1. UNCHANGED blocked /\ task' = [task EXCEPT ![j] = Idle]
        BY <1>4, Zenon DEF Continue
    <2>2. Owed(j)' = 0
        BY <2>1 DEF Owed, Idle, Typed
    <2>3. Dropped(j) \subseteq Dropped(j)'
        BY <1>0, <1>4 DEF Continue, Dropped, Typed
    <2> QED
        BY <1>0, <2>1, <2>2, <2>3, CountMove, Zenon
<1> QED
    BY <1>1, <1>2, <1>3, <1>4, Zenon DEF TaskStep

-----------------------------------------------------------------------------
(* The invariant of the executor.                                          *)

ExecutorInv == Typed /\ \A j \in Jobs : JobInv(j) /\ CountInv(j)

LEMMA ExecutorInit == ASSUME CountingFacts PROVE Init => ExecutorInv
<1> SUFFICES ASSUME Init PROVE ExecutorInv
    OBVIOUS
<1>1. Typed
    BY RequestsAssumption DEF Init, RequestsAssumption, Typed, JobStates, Places, Documents, TaskStates, Fates, Idle, FaultStates
<1>2. ASSUME NEW j \in Jobs PROVE JobInv(j)
    BY DEF Init, JobInv, ContextInv, DocumentInv, TaskInv, FlagInv, ResultInv, Idle, None
<1>3. ASSUME NEW j \in Jobs PROVE CountInv(j)
    <2>1. blocked[j] = 0 /\ Owed(j) = 0 /\ job[j].counted = 0
        BY DEF Init, Owed, Idle
    <2> QED
        BY <2>1, DroppedFinite DEF CountInv
<1> QED
    BY <1>1, <1>2, <1>3, Zenon DEF ExecutorInv

LEMMA ExecutorStep == ASSUME CountingFacts PROVE ExecutorInv /\ [Next]_(vars) => ExecutorInv'
<1> SUFFICES ASSUME ExecutorInv, [Next]_(vars) PROVE ExecutorInv'
    OBVIOUS
<1>1. CASE Next
    <2>1. PICK j \in Jobs : \/ Lock(j) \/ RenderStep(j) \/ TaskStep(j) \/ BrowserStep(j)
                            \/ NavigationTimeout(j) \/ TotalTimeout(j)
        BY <1>1, Zenon DEF Next
    <2>2. Typed /\ JobInv(j) /\ CountInv(j)
        BY Zenon DEF ExecutorInv
    <2>3. /\ Typed' /\ Alone(j) /\ JobInv(j)'
          /\ CountInv(j)' /\ \A i \in Jobs \ {j} : blocked'[i] = blocked[i]
        <3>1. CASE TaskStep(j)
            BY <2>2, <3>1, TaskSteps, TaskCounts, Zenon
        <3>2. CASE Goto(j) \/ BrowserStep(j)
            BY <2>2, <3>2, PageSteps, PageCounts, Zenon
        <3>3. CASE \/ Lock(j) \/ Validate(j) \/ CreateContext(j) \/ NewPage(j) \/ InstallInterception(j)
                   \/ GotoReturns(j) \/ Settled(j) \/ CheckPolicy(j) \/ Content(j) \/ Dispose(j)
                   \/ NavigationTimeout(j) \/ TotalTimeout(j)
            BY <2>2, <3>3, RenderSteps, RenderCounts, Zenon
        <3> QED
            BY <2>1, <3>1, <3>2, <3>3, Zenon DEF RenderStep
    <2>4. ASSUME NEW i \in Jobs, i # j PROVE JobInv(i)' /\ CountInv(i)'
        <3>1. JobInv(i)'
            BY <2>3, <2>4, OthersKept, Zenon DEF ExecutorInv
        <3>2. /\ blocked'[i] = blocked[i] /\ net'[i] = net[i] /\ task'[i] = task[i] /\ job'[i] = job[i]
              /\ CountInv(i)
            BY <2>3, <2>4, Zenon DEF ExecutorInv, Alone
        <3> QED
            BY <3>1, <3>2, Zenon DEF CountInv, Owed, Dropped
    <2> QED
        BY <2>3, <2>4, Zenon DEF ExecutorInv
<1>2. CASE UNCHANGED vars
    <2>1. /\ UNCHANGED lock /\ UNCHANGED job /\ UNCHANGED contexts /\ UNCHANGED enabled /\ UNCHANGED net
          /\ UNCHANGED document /\ UNCHANGED task /\ UNCHANGED violated /\ UNCHANGED blocked /\ UNCHANGED faults
        BY <1>2, Zenon DEF vars, pageState, taskState
    <2>2. Typed'
        BY <2>1, Zenon DEF ExecutorInv, Typed
    <2>3. ASSUME NEW j \in Jobs PROVE JobInv(j)' /\ CountInv(j)'
        <3>1. JobInv(j) /\ CountInv(j)
            BY Zenon DEF ExecutorInv
        <3>2. ContextInv(j)' /\ DocumentInv(j)' /\ TaskInv(j)' /\ FlagInv(j)'
            BY <2>1, <3>1, Zenon DEF JobInv, ContextInv, DocumentInv, TaskInv, FlagInv, Fate
        <3>3. ResultInv(j)' /\ CountInv(j)'
            BY <2>1, <3>1, Zenon DEF JobInv, ResultInv, Fate, CountInv, Owed, Dropped
        <3> QED
            BY <3>2, <3>3, Zenon DEF JobInv
    <2> QED
        BY <2>2, <2>3, Zenon DEF ExecutorInv
<1> QED
    BY <1>1, <1>2, Zenon

LEMMA ExecutorInvariance == ASSUME CountingFacts PROVE Spec => []ExecutorInv
    BY ExecutorInit, ExecutorStep, PTL DEF Spec

LEMMA ExecutorPromise ==
    ASSUME CountingFacts, ExecutorInv
    PROVE  RefusedDocumentIsNoResult /\ OnlyTimeoutsLeak
<1>1. RefusedDocumentIsNoResult
    BY Zenon DEF ExecutorInv, JobInv, ResultInv, Fate, RefusedDocumentIsNoResult
<1>2. ASSUME NEW j \in Jobs
      PROVE  blocked[j] \in 0 .. Cardinality(Heavy) /\ job[j].counted \in 0 .. Cardinality(Heavy)
    <2>1. blocked[j] \in Nat /\ Owed(j) \in {0, 1} /\ job[j].counted \in Nat
        BY DEF ExecutorInv, Typed, JobStates, Owed
    <2>2. blocked[j] + Owed(j) <= Cardinality(Dropped(j)) /\ job[j].counted <= Cardinality(Heavy)
        BY DEF ExecutorInv, CountInv
    <2> QED
        BY <2>1, <2>2, DroppedFinite
<1>3. job \in [Jobs -> [pc : Places, result : Classes \cup {None}, counted : 0 .. Cardinality(Heavy)]]
    <2>1. \A j \in Jobs : job[j] \in [pc : Places, result : Classes \cup {None}, counted : 0 .. Cardinality(Heavy)]
        BY <1>2 DEF ExecutorInv, Typed, JobStates
    <2> QED
        BY <2>1, Zenon DEF ExecutorInv, Typed
<1>4. blocked \in [Jobs -> 0 .. Cardinality(Heavy)]
    BY <1>2, Zenon DEF ExecutorInv, Typed
<1>5. TypeOK
    <2>1. Typed
        BY Zenon DEF ExecutorInv
    <2>2. net \in [Jobs -> [Requests -> {"unsent", "paused", "denied", "sent"}]]
        BY <2>1, Zenon DEF Typed, Fates
    <2>3. document \in [Jobs -> [request : Requests \cup {None}, state : {"blank", "loading", "loaded", "failed"}]]
        BY <2>1, Zenon DEF Typed, Documents
    <2>4. task \in [Jobs -> [request : Requests \cup {None},
                             step : {"idle", "judge", "refuse", "flag", "deny", "count", "continue"}]]
        BY <2>1, Zenon DEF Typed, TaskStates
    <2>5. job \in [Jobs -> [pc : {"waiting", "done"} \cup Running,
                            result : Classes \cup {None}, counted : 0 .. Cardinality(Heavy)]]
        BY <1>3, Zenon DEF Places
    <2>6. /\ lock \in Jobs \cup {Free} /\ faults \in FaultStates
          /\ contexts \subseteq Jobs /\ enabled \subseteq Jobs /\ violated \subseteq Jobs
        BY <2>1, Zenon DEF Typed
    <2>7. blocked \in [Jobs -> 0 .. Cardinality(Heavy)]
        BY <1>4, Zenon
    <2> QED
        BY <2>2, <2>3, <2>4, <2>5, <2>6, <2>7, Zenon DEF TypeOK, FaultStates
<1>6. \A j \in contexts : At(j, "done") => job[j].result = "total_timeout" \/ j \in faults.undisposed
    BY Zenon DEF ExecutorInv, Typed, JobInv, ContextInv, At
<1> QED
    BY <1>1, <1>5, <1>6 DEF OnlyTimeoutsLeak

-----------------------------------------------------------------------------
(* The results.                                                            *)

INSTANCE FiniteSetTheorems

LEMMA Counting == CountingFacts
    BY FS_CardinalityType, FS_Subset, FS_AddElement, FS_RemoveElement, FS_EmptySet DEF CountingFacts

(* A render that reports a page never reports one whose document request   *)
(* the policy refused, whatever the interleaving of its steps with those   *)
(* of its interception task and with the browser, unless that task was     *)
(* kept from running for the whole settle window.                          *)
THEOREM NoResultForARefusedDocument ==
    Spec => []RefusedDocumentIsNoResult
<1>1. ExecutorInv => RefusedDocumentIsNoResult
    BY Counting, ExecutorPromise
<1> QED
    BY <1>1, Counting, ExecutorInvariance, PTL

(* A finished render leaves its context open only after the total timeout  *)
(* or when its disposal failed, whatever else went wrong; and it never     *)
(* counts more blocked requests than there are.                            *)
THEOREM ContextsAreDisposedOf ==
    Spec => []OnlyTimeoutsLeak
<1>1. ExecutorInv => OnlyTimeoutsLeak
    BY Counting, ExecutorPromise
<1> QED
    BY <1>1, Counting, ExecutorInvariance, PTL
=============================================================================
