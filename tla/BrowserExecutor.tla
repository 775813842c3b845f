--------------------------- MODULE BrowserExecutor ---------------------------
(***************************************************************************)
(* ChromiumExecutor: one Chromium shared behind a mutex, one context per   *)
(* job, a task per job that judges every paused request, and two timeouts, *)
(* one around the navigation and one around the whole job.                 *)
(*                                                                         *)
(* A job's requests are its command URL, what that redirects to and what   *)
(* the page then loads.  A browser command may fail, and the browser may   *)
(* stop answering; then only the timeouts end a job.                       *)
(***************************************************************************)
EXTENDS Naturals, FiniteSets

CONSTANTS Jobs,       \* render commands
          Requests,   \* requests a page can make
          Target,     \* the command URL of each job
          Redirects,  \* where an answer to a document request may lead
          Forbidden,  \* requests the navigation policy refuses
          Heavy,      \* image, font and media requests
          Free,       \* the mutex is not held
          MaxFaults   \* bound: browser commands and lookups that fail

ASSUME RequestsAssumption ==
    /\ IsFiniteSet(Jobs) /\ IsFiniteSet(Requests)
    /\ Free \notin Jobs
    /\ Target \in [Jobs -> Requests] /\ Redirects \subseteq Requests
    /\ Forbidden \subseteq Requests /\ Heavy \subseteq Requests
    /\ Heavy \cap (Redirects \cup {Target[j] : j \in Jobs}) = {}  \* a document is of another type
    /\ MaxFaults \in Nat

VARIABLES
    lock,      \* the job that holds the browser
    job,       \* where each render stands, and its result
    contexts,  \* jobs whose browser context is open
    enabled,   \* jobs whose page pauses its requests
    net,       \* each job's requests as the browser sees them
    document,  \* the document request goto waits for, and how it ended
    task,      \* the request in the hands of a job's interception task
    violated,  \* jobs whose policy flag is up
    blocked,   \* blocked requests counted
    faults     \* faults so far, and the jobs that two kinds of them befell

pageState == <<net, document, enabled>>
taskState == <<task, violated, blocked>>
vars == <<lock, job, contexts, pageState, taskState, faults>>

None == "none"
Classes == {"ok", "policy_blocked", "navigation_timeout", "total_timeout", "size_limit",
            "browser_unavailable"}
Running == {"validate", "context", "page", "intercept", "goto", "settle", "check", "content",
            "dispose"}

TypeOK ==
    /\ lock \in Jobs \cup {Free}
    /\ job \in [Jobs -> [pc : {"waiting", "done"} \cup Running,
                         result : Classes \cup {None}, counted : 0 .. Cardinality(Heavy)]]
    /\ contexts \subseteq Jobs /\ enabled \subseteq Jobs /\ violated \subseteq Jobs
    /\ net \in [Jobs -> [Requests -> {"unsent", "paused", "denied", "sent"}]]
    /\ document \in [Jobs -> [request : Requests \cup {None},
                              state : {"blank", "loading", "loaded", "failed"}]]
    /\ task \in [Jobs -> [request : Requests \cup {None},
                          step : {"idle", "judge", "refuse", "flag", "deny", "count", "continue"}]]
    /\ blocked \in [Jobs -> 0 .. Cardinality(Heavy)]
    /\ faults \in [count : 0 .. MaxFaults, undisposed : SUBSET Jobs, starved : SUBSET Jobs]

Idle == [request |-> None, step |-> "idle"]

Init ==
    /\ lock = Free
    /\ job = [j \in Jobs |-> [pc |-> "waiting", result |-> None, counted |-> 0]]
    /\ contexts = {} /\ enabled = {} /\ violated = {}
    /\ net = [j \in Jobs |-> [r \in Requests |-> "unsent"]]
    /\ document = [j \in Jobs |-> [request |-> None, state |-> "blank"]]
    /\ task = [j \in Jobs |-> Idle]
    /\ blocked = [j \in Jobs |-> 0]
    /\ faults = [count |-> 0, undisposed |-> {}, starved |-> {}]

Fault == faults.count < MaxFaults /\ faults' = [faults EXCEPT !.count = @ + 1]

(* The disposal of a job's context failed. *)
Undisposed(j) ==
    faults.count < MaxFaults /\ faults' = [faults EXCEPT !.count = @ + 1, !.undisposed = @ \cup {j}]

(* A job's interception task, with only a store left to do, did not run    *)
(* for the whole settle window.                                            *)
Starved(j) ==
    faults.count < MaxFaults /\ faults' = [faults EXCEPT !.count = @ + 1, !.starved = @ \cup {j}]

At(j, pc) == job[j].pc = pc
TaskAt(j, step) == task[j].step = step
Go(j, pc) == job' = [job EXCEPT ![j].pc = pc]

(* The future of render_once is gone, whether it returned or was dropped. *)
Return(j, class) ==
    /\ job' = [job EXCEPT ![j].pc = "done", ![j].result = class]
    /\ lock' = Free

(* render_in_context returned: the context is still to be disposed of. *)
Leave(j, class) == job' = [job EXCEPT ![j].pc = "dispose", ![j].result = class]

(* render waits for the mutex with no limit; the total budget starts after. *)
Lock(j) ==
    /\ At(j, "waiting") /\ lock = Free
    /\ lock' = j
    /\ Go(j, "validate")
    /\ UNCHANGED <<contexts, pageState, taskState, faults>>

(* navigation_allowed: a lookup that fails refuses, like the policy. *)
Validate(j) ==
    /\ At(j, "validate")
    /\ \/ Target[j] \notin Forbidden /\ Go(j, "context") /\ UNCHANGED <<lock, faults>>
       \/ Target[j] \in Forbidden /\ Return(j, "policy_blocked") /\ UNCHANGED faults
       \/ Target[j] \notin Forbidden /\ Fault /\ Return(j, "policy_blocked")
    /\ UNCHANGED <<contexts, pageState, taskState>>

CreateContext(j) ==
    /\ At(j, "context")
    /\ \/ contexts' = contexts \cup {j} /\ Go(j, "page") /\ UNCHANGED <<lock, faults>>
       \/ Fault /\ Return(j, "browser_unavailable") /\ UNCHANGED contexts
    /\ UNCHANGED <<pageState, taskState>>

(* Variant: an error of new_page leaves render_once at once. *)
NewPage_Returns(j) ==
    /\ At(j, "page")
    /\ \/ Go(j, "intercept") /\ UNCHANGED <<lock, faults>>
       \/ Fault /\ Return(j, "browser_unavailable")
    /\ UNCHANGED <<contexts, pageState, taskState>>

(* The page is opened blank. *)
NewPage(j) ==
    /\ At(j, "page")
    /\ \/ Go(j, "intercept") /\ UNCHANGED faults
       \/ Fault /\ Leave(j, "browser_unavailable")
    /\ UNCHANGED <<lock, contexts, pageState, taskState>>

(* Listener first, then the Fetch domain, then the task; all before goto. *)
InstallInterception(j) ==
    /\ At(j, "intercept")
    /\ \/ Go(j, "goto") /\ enabled' = enabled \cup {j} /\ UNCHANGED faults
       \/ Fault /\ Leave(j, "browser_unavailable") /\ UNCHANGED enabled
    /\ UNCHANGED <<lock, contexts, net, document, taskState>>

(* The browser issues a request: it pauses when interception is on. *)
Issue(j, r) ==
    /\ net[j][r] = "unsent"
    /\ net' = [net EXCEPT ![j][r] = IF j \in enabled THEN "paused" ELSE "sent"]

(* page.goto issues the command URL and waits for the document. *)
Goto(j) ==
    /\ At(j, "goto") /\ document[j].state = "blank"
    /\ Issue(j, Target[j])
    /\ document' = [document EXCEPT ![j] = [request |-> Target[j], state |-> "loading"]]
    /\ UNCHANGED <<lock, job, contexts, enabled, taskState, faults>>

(* The network answers the document request: a page, a redirect, nothing. *)
Answer(j) ==
    LET d == document[j] IN
    /\ j \in contexts /\ d.state = "loading"
    /\ \/ /\ net[j][d.request] = "sent"
          /\ document' = [document EXCEPT ![j].state = "loaded"]
          /\ UNCHANGED <<net, faults>>
       \/ /\ net[j][d.request] = "sent"
          /\ \E r \in Redirects :
                /\ Issue(j, r)
                /\ document' = [document EXCEPT ![j].request = r]
          /\ UNCHANGED faults
       \/ /\ net[j][d.request] = "sent" /\ Fault
          /\ document' = [document EXCEPT ![j].state = "failed"]
          /\ UNCHANGED net
       \/ /\ net[j][d.request] = "denied"
          /\ document' = [document EXCEPT ![j].state = "failed"]
          /\ UNCHANGED <<net, faults>>
    /\ UNCHANGED <<lock, job, contexts, enabled, taskState>>

(* A loaded page requests what it likes, as long as its context lives. *)
PageRequests(j, r) ==
    /\ j \in contexts /\ document[j].state = "loaded"
    /\ r \notin Redirects /\ Issue(j, r)
    /\ UNCHANGED <<lock, job, contexts, enabled, document, taskState, faults>>

(* goto's error is dropped (.ok()); then the settle window. *)
GotoReturns(j) ==
    /\ At(j, "goto") /\ document[j].state \in {"loaded", "failed"}
    /\ Go(j, "settle")
    /\ UNCHANGED <<lock, contexts, pageState, taskState, faults>>

(* Variant: the flag is looked at without the settle window. *)
Settled_AtOnce(j) ==
    /\ At(j, "settle")
    /\ Go(j, "check")
    /\ UNCHANGED <<lock, contexts, pageState, taskState, faults>>

(* 750 ms later.  Nothing waits for the interception task; that it has not *)
(* stored the flag of a request it denied is a fault of its own.           *)
Settled(j) ==
    /\ At(j, "settle")
    /\ IF TaskAt(j, "flag") THEN Starved(j) ELSE UNCHANGED faults
    /\ Go(j, "check")
    /\ UNCHANGED <<lock, contexts, pageState, taskState>>

NavigationTimeout(j) ==
    /\ job[j].pc \in {"goto", "settle"}
    /\ Leave(j, "navigation_timeout")
    /\ UNCHANGED <<lock, contexts, pageState, taskState, faults>>

CheckPolicy(j) ==
    /\ At(j, "check")
    /\ IF j \in violated THEN Leave(j, "policy_blocked") ELSE Go(j, "content")
    /\ UNCHANGED <<lock, contexts, pageState, taskState, faults>>

(* The DOM, its size, and the evidence as it is now. *)
Content(j) ==
    /\ At(j, "content")
    /\ \/ /\ job' = [job EXCEPT ![j] = [pc |-> "dispose", result |-> "ok", counted |-> blocked[j]]]
          /\ UNCHANGED faults
       \/ Leave(j, "size_limit") /\ UNCHANGED faults
       \/ Fault /\ Leave(j, "browser_unavailable")
    /\ UNCHANGED <<lock, contexts, pageState, taskState>>

(* An error of the disposal is dropped (.ok()). *)
Dispose(j) ==
    /\ At(j, "dispose")
    /\ Return(j, job[j].result)
    /\ \/ contexts' = contexts \ {j} /\ UNCHANGED faults
       \/ Undisposed(j) /\ UNCHANGED contexts
    /\ UNCHANGED <<pageState, taskState>>

(* Variant: the budget bounds the navigation alone. *)
TotalTimeout_NavigationOnly(j) ==
    /\ job[j].pc \in {"goto", "settle"}
    /\ Return(j, "total_timeout")
    /\ UNCHANGED <<contexts, pageState, taskState, faults>>

(* timeout drops render_once where it stands: nothing after that await runs. *)
TotalTimeout(j) ==
    /\ job[j].pc \in Running
    /\ Return(j, "total_timeout")
    /\ UNCHANGED <<contexts, pageState, taskState, faults>>

TaskGo(j, step) == task' = [task EXCEPT ![j].step = step]
Page == <<lock, job, contexts, document, enabled>>

(* The next paused request; the stream ends with the context. *)
TakePaused(j) ==
    /\ TaskAt(j, "idle") /\ j \in contexts
    /\ \E r \in Requests :
          /\ net[j][r] = "paused"
          /\ task' = [task EXCEPT ![j] = [request |-> r, step |-> "judge"]]
    /\ UNCHANGED <<Page, net, violated, blocked, faults>>

Judge(j) ==
    LET r == task[j].request IN
    /\ TaskAt(j, "judge")
    /\ \/ r \in Forbidden /\ TaskGo(j, "refuse") /\ UNCHANGED faults
       \/ r \notin Forbidden /\ Fault /\ TaskGo(j, "refuse")
       \/ /\ r \notin Forbidden
          /\ TaskGo(j, IF r \in Heavy THEN "deny" ELSE "continue")
          /\ UNCHANGED faults
    /\ UNCHANGED <<Page, net, violated, blocked>>

(* FailRequest answered; or not, when it failed or its page is gone. *)
Fail(j) == j \in contexts /\ net' = [net EXCEPT ![j][task[j].request] = "denied"] /\ UNCHANGED faults
FailFails(j) == (Fault \/ (j \notin contexts /\ UNCHANGED faults)) /\ UNCHANGED net

(* deny_request: whether the denial worked is not looked at. *)
Refuse(j) ==
    /\ TaskAt(j, "refuse")
    /\ Fail(j) \/ FailFails(j)
    /\ TaskGo(j, "flag")
    /\ UNCHANGED <<Page, violated, blocked>>

Flag(j) ==
    /\ TaskAt(j, "flag")
    /\ violated' = violated \cup {j}
    /\ task' = [task EXCEPT ![j] = Idle]
    /\ UNCHANGED <<Page, net, blocked, faults>>

Deny(j) ==
    /\ TaskAt(j, "deny")
    /\ \/ Fail(j) /\ TaskGo(j, "count")
       \/ FailFails(j) /\ TaskGo(j, "continue")
    /\ UNCHANGED <<Page, violated, blocked>>

CountBlocked(j) ==
    /\ TaskAt(j, "count")
    /\ blocked' = [blocked EXCEPT ![j] = @ + 1]
    /\ TaskGo(j, "continue")
    /\ UNCHANGED <<Page, net, violated, faults>>

(* ContinueRequest: the browser has no such request when it was denied. *)
Continue(j) ==
    LET r == task[j].request IN
    /\ TaskAt(j, "continue")
    /\ \/ /\ net' = [net EXCEPT ![j][r] = IF @ = "paused" /\ j \in contexts THEN "sent" ELSE @]
          /\ UNCHANGED faults
       \/ Fault /\ UNCHANGED net
    /\ task' = [task EXCEPT ![j] = Idle]
    /\ UNCHANGED <<Page, violated, blocked>>

RenderStep(j) ==
    \/ Validate(j) \/ CreateContext(j) \/ NewPage(j) \/ InstallInterception(j)
    \/ Goto(j) \/ GotoReturns(j) \/ Settled(j) \/ CheckPolicy(j) \/ Content(j) \/ Dispose(j)

TaskStep(j) ==
    \/ TakePaused(j) \/ Judge(j) \/ Refuse(j) \/ Flag(j) \/ Deny(j) \/ CountBlocked(j)
    \/ Continue(j)

BrowserStep(j) == Answer(j) \/ \E r \in Requests : PageRequests(j, r)

Next ==
    \E j \in Jobs :
        \/ Lock(j) \/ RenderStep(j) \/ TaskStep(j) \/ BrowserStep(j)
        \/ NavigationTimeout(j) \/ TotalTimeout(j)

Spec == Init /\ [][Next]_vars

(* tokio's mutex is fair and its timer fires; the browser may hang.        *)
LiveSpec == Spec /\ \A j \in Jobs : SF_vars(Lock(j)) /\ WF_vars(TotalTimeout(j))

-----------------------------------------------------------------------------

(* A document that was refused on its way is never returned as a rendering:*)
(* the flag, raised by another task, is up when render_in_context looks,   *)
(* however the two interleave, as long as that task is not kept from its   *)
(* store for the whole settle window.                                      *)
RefusedDocumentIsNoResult ==
    \A j \in Jobs : job[j].result = "ok" /\ document[j].request # None
                        /\ net[j][document[j].request] = "denied"
                            => j \in faults.starved

(* A render that returned leaves its context open only when the total      *)
(* timeout dropped it or the disposal of this very context failed: every   *)
(* other way out, the error of each browser command included, disposes of  *)
(* it.  The types hold.                                                    *)
OnlyTimeoutsLeak ==
    TypeOK /\ \A j \in contexts :
        At(j, "done") => job[j].result = "total_timeout" \/ j \in faults.undisposed

(* Every render returns, also those queued behind one whose browser hangs. *)
EveryRenderReturns ==
    \A j \in Jobs : <>At(j, "done")
=============================================================================
