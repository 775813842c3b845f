----------------------------- MODULE RunProofs -----------------------------
(***************************************************************************)
(* Proofs about the worker loops, for any number of them: the evidence a   *)
(* run leaves (RunFlow) and the lease of a claim (RunLease).               *)
(***************************************************************************)
EXTENDS RunFlow, RunLease, TLAPS

-----------------------------------------------------------------------------
(* RunLease: the lease of a claim against the deadlines of an execution.   *)

(* The first operation of every plan of RunFlow is a fetch.                *)
LEMMA BudgetTypes ==
    Deadlines(<< >>) \in Budgets /\ \A p \in Budgets : p.first \in 0 .. FetchTimeout /\ p.second \in Nat
<1>1. ASSUME NEW p \in UNION {Plans[c] : c \in DOMAIN Plans}
      PROVE  p \in {<< >>, <<"fetch">>, <<"fetch", "fetch">>, <<"fetch", "render">>}
    BY DEF Plans
<1>2. << >> \in UNION {Plans[c] : c \in DOMAIN Plans}
    BY DEF Plans
<1>3. ASSUME NEW p \in {<< >>, <<"fetch">>, <<"fetch", "fetch">>, <<"fetch", "render">>}
      PROVE  Deadlines(p).first \in 0 .. FetchTimeout /\ Deadlines(p).second \in Nat
    BY LeaseAssumption DEF Deadlines, Deadline
<1> QED
    BY <1>1, <1>2, <1>3, Zenon DEF Budgets

(* The time a worker may still need. *)
Remaining(w) ==
    timer[w] + (IF phase[w] = "start" THEN plan[w].first + plan[w].second + Work
                ELSE IF phase[w] = "first" THEN plan[w].second + Work
                ELSE IF phase[w] = "second" THEN Work ELSE 0)

(* What follows the current phase takes a natural number of ticks. *)
LEMMA RestTypes ==
    ASSUME NEW first \in Nat, NEW second \in Nat, NEW now
    PROVE  (IF now = "start" THEN first + second + Work
            ELSE IF now = "first" THEN second + Work
            ELSE IF now = "second" THEN Work ELSE 0) \in Nat
BY LeaseAssumption DEF LeaseAssumption

(* It is some number of ticks.                                             *)
LEMMA RemainingTypes ==
    ASSUME LeaseTypeOK, NEW w \in Workers
    PROVE  Remaining(w) \in Nat /\ plan[w].first \in 0 .. FetchTimeout /\ plan[w].second \in Nat
<1>1. plan[w] \in Budgets /\ timer[w] \in Nat
    BY DEF LeaseTypeOK
<1>2. plan[w].first \in 0 .. FetchTimeout /\ plan[w].second \in Nat
    BY <1>1, BudgetTypes, Zenon
<1> QED
    BY <1>1, <1>2, LeaseAssumption DEF Remaining

(* The inductive invariant: an executed run is running, and its claim      *)
(* outlasts what its worker may still need.                                *)
LeaseOutlastsWork ==
    \A w \in Workers : Executing(w) =>
        runStatus[job[w]] = "running" /\ Remaining(w) < lease[job[w]]

LeaseInv == LeaseTypeOK /\ LeaseOutlastsWork /\ OneExecutor

(* Every step keeps the types. *)
LEMMA LeaseTypeStep == LeaseTypeOK /\ [LeaseNext]_leaseVars => LeaseTypeOK'
<1> SUFFICES ASSUME LeaseTypeOK, [LeaseNext]_leaseVars PROVE LeaseTypeOK'
    OBVIOUS
<1> USE LeaseAssumption, BudgetTypes DEF LeaseTypeOK, Phases
<1>1. ASSUME NEW w \in Workers, NEW r \in Runs, ClaimQueuedRun(w, r) PROVE LeaseTypeOK'
    BY <1>1 DEF ClaimQueuedRun
<1>2. ASSUME NEW w \in Workers, StartFirst(w) \/ StartSecond(w) PROVE LeaseTypeOK'
    <2>1. plan[w].first \in Nat /\ plan[w].second \in Nat
        <3>1. plan[w].first \in 0 .. FetchTimeout /\ plan[w].second \in Nat
            BY RemainingTypes, Zenon
        <3> QED
            BY ONLY <3>1, LeaseAssumption
    <2>2. timer' \in [Workers -> Nat] /\ phase' \in [Workers -> Phases]
        BY <1>2, <2>1 DEF StartFirst, StartSecond
    <2> QED
        BY <1>2, <2>2, ZenonT(30) DEF StartFirst, StartSecond
<1>3. ASSUME NEW w \in Workers, StartFinish(w) PROVE LeaseTypeOK'
    BY <1>3 DEF StartFinish
<1>4. ASSUME NEW w \in Workers, Settle(w) PROVE LeaseTypeOK'
    BY <1>4 DEF Settle
<1>5. ASSUME NEW w \in Workers, Stop(w) PROVE LeaseTypeOK'
    BY <1>5 DEF Stop
<1>6. ASSUME Tick PROVE LeaseTypeOK'
    BY <1>6 DEF Tick, Executing
<1>7. CASE UNCHANGED leaseVars
    BY <1>7 DEF leaseVars
<1> QED
    BY <1>1, <1>2, <1>3, <1>4, <1>5, <1>6, <1>7, ZenonT(30) DEF LeaseNext

(* All reachable states are well typed. *)
THEOREM TypeCorrect == LeaseSpec => []LeaseTypeOK
<1>1. LeaseInit => LeaseTypeOK
    BY LeaseAssumption, BudgetTypes DEF LeaseInit, LeaseTypeOK, Phases
<1> QED
    BY <1>1, LeaseTypeStep, PTL DEF LeaseSpec

(* When the lease exceeds every plan, a claim starts out long enough, time *)
(* takes equally from both, and no run with time left on its claim is      *)
(* claimed again.                                                          *)
LEMMA CoveredStep == Fits /\ LeaseInv /\ [LeaseNext]_leaseVars => LeaseInv'
<1> SUFFICES ASSUME Fits, LeaseInv, [LeaseNext]_leaseVars PROVE LeaseInv'
    OBVIOUS
<1>0. LeaseTypeOK'
    BY LeaseTypeStep DEF LeaseInv
<1> SUFFICES LeaseOutlastsWork' /\ OneExecutor'
    BY <1>0 DEF LeaseInv
<1> USE <1>0, LeaseAssumption, BudgetTypes DEF LeaseInv
<1>1. ASSUME NEW w \in Workers, NEW r \in Runs, ClaimQueuedRun(w, r)
      PROVE LeaseOutlastsWork' /\ OneExecutor'
    <2>1. \A v \in Workers : Executing(v) => job[v] # r
        BY <1>1, RemainingTypes DEF ClaimQueuedRun, LeaseOutlastsWork, LeaseTypeOK
    <2>2. PICK p \in Budgets : plan' = [plan EXCEPT ![w] = p] /\ timer' = [timer EXCEPT ![w] = Prepare]
        BY <1>1, Zenon DEF ClaimQueuedRun
    <2>3. Prepare + p.first + p.second + Work < Lease /\ p.first \in Nat /\ p.second \in Nat
        BY BudgetTypes DEF Fits
    <2>4. (Remaining(w) < lease[job[w]] /\ runStatus[job[w]] = "running")'
        BY <1>1, <2>2, <2>3 DEF ClaimQueuedRun, Remaining, LeaseTypeOK
    <2>5. ASSUME NEW v \in Workers, v # w, Executing(v)'
          PROVE (runStatus[job[v]] = "running" /\ Remaining(v) < lease[job[v]])' /\ job'[v] # r
        <3>1. Executing(v) /\ job'[v] = job[v] /\ timer'[v] = timer[v] /\ plan'[v] = plan[v]
                /\ phase'[v] = phase[v]
            BY <1>1, <2>2, <2>5 DEF ClaimQueuedRun, LeaseTypeOK, Executing
        <3>2. runStatus'[job[v]] = runStatus[job[v]] /\ lease'[job[v]] = lease[job[v]]
            BY <1>1, <2>1, <3>1 DEF ClaimQueuedRun, LeaseTypeOK
        <3> QED
            BY <2>1, <3>1, <3>2 DEF LeaseOutlastsWork, Remaining
    <2>6. LeaseOutlastsWork'
        BY <2>4, <2>5 DEF LeaseOutlastsWork
    <2>7. ASSUME NEW u \in Workers, NEW v \in Workers, Executing(u)', Executing(v)', job'[u] = job'[v]
          PROVE u = v
        <3>1. job'[w] = r
            BY <1>1 DEF ClaimQueuedRun, LeaseTypeOK
        <3>2. CASE u = w \/ v = w
            BY <2>5, <2>7, <3>1, <3>2
        <3>3. CASE u # w /\ v # w
            BY <1>1, <2>7, <3>3 DEF ClaimQueuedRun, OneExecutor, Executing, LeaseTypeOK
        <3> QED
            BY <3>2, <3>3
    <2> QED
        BY <2>6, <2>7 DEF OneExecutor
<1>2. ASSUME NEW w \in Workers, StartFirst(w) \/ StartSecond(w) \/ StartFinish(w)
      PROVE LeaseOutlastsWork' /\ OneExecutor'
    <2>1. UNCHANGED <<runStatus, lease, job, plan>> /\ \A v \in Workers : Executing(v)' => Executing(v)
        BY <1>2 DEF StartFirst, StartSecond, StartFinish, Executing, LeaseTypeOK
    <2>2. /\ timer[w] \in Nat /\ plan[w].first \in Nat /\ plan[w].second \in Nat
          /\ phase \in [Workers -> Phases] /\ timer \in [Workers -> Nat]
        BY RemainingTypes DEF LeaseTypeOK
    <2>3. \A v \in Workers : v # w => Remaining(v)' = Remaining(v)
        BY <1>2, <2>2 DEF StartFirst, StartSecond, StartFinish, Remaining
    <2>4. Remaining(w)' <= Remaining(w) /\ Remaining(w) \in Nat /\ Remaining(w)' \in Nat
        <3>1. CASE StartFirst(w)
            <4>1. phase[w] = "start" /\ phase'[w] = "first" /\ timer'[w] = plan[w].first /\ plan' = plan
                BY <2>2, <3>1 DEF StartFirst
            <4>2. /\ Remaining(w) = timer[w] + (plan[w].first + plan[w].second + Work)
                  /\ Remaining(w)' = plan[w].first + (plan[w].second + Work)
                BY <4>1, Zenon DEF Remaining
            <4> QED
                BY ONLY <2>2, <4>2, LeaseAssumption
        <3>2. CASE StartSecond(w)
            BY <2>2, <3>2 DEF StartSecond, Remaining
        <3>3. CASE StartFinish(w)
            BY <2>2, <3>3 DEF StartFinish, Remaining
        <3> QED
            BY <1>2, <3>1, <3>2, <3>3, Zenon
    <2>6. \A v \in Workers : Remaining(v) < lease[job[v]] => Remaining(v)' < lease[job[v]]
        <3>1. lease[job[w]] \in Nat
            BY DEF LeaseTypeOK
        <3>2. Remaining(w) < lease[job[w]] => Remaining(w)' < lease[job[w]]
            BY <2>4, <3>1
        <3> QED
            BY <2>3, <3>2, Zenon
    <2> QED
        BY <2>1, <2>6, Zenon DEF LeaseOutlastsWork, OneExecutor
<1>4. ASSUME NEW w \in Workers, Settle(w) PROVE LeaseOutlastsWork' /\ OneExecutor'
    BY <1>4 DEF Settle, LeaseOutlastsWork, OneExecutor, Remaining, LeaseTypeOK, Executing
<1>5. ASSUME NEW w \in Workers, Stop(w) PROVE LeaseOutlastsWork' /\ OneExecutor'
    BY <1>5 DEF Stop, LeaseOutlastsWork, OneExecutor, Remaining, LeaseTypeOK, Executing
<1>6. ASSUME Tick PROVE LeaseOutlastsWork' /\ OneExecutor'
    <2>1. /\ job' = job /\ phase' = phase /\ plan' = plan /\ runStatus' = runStatus
          /\ \A w \in Workers : Executing(w) => timer'[w] = timer[w] - 1 /\ timer[w] > 0
          /\ \A r \in Runs : lease[r] > 0 => lease'[r] = lease[r] - 1
        BY <1>6 DEF Tick, LeaseTypeOK
    <2>2. ASSUME NEW w \in Workers, Executing(w)
          PROVE  runStatus[job[w]] = "running" /\ Remaining(w)' < lease'[job[w]]
        <3>1. Remaining(w) < lease[job[w]] /\ runStatus[job[w]] = "running" /\ job[w] \in Runs
            BY <2>2 DEF LeaseOutlastsWork, LeaseTypeOK
        <3>2. lease[job[w]] \in Nat /\ timer[w] \in Nat /\ plan[w].first \in Nat
                /\ plan[w].second \in Nat /\ Remaining(w) \in Nat
            BY <3>1, RemainingTypes DEF LeaseTypeOK
        <3>3. Remaining(w)' = Remaining(w) - 1
            <4> DEFINE rest == IF phase[w] = "start" THEN plan[w].first + plan[w].second + Work
                               ELSE IF phase[w] = "first" THEN plan[w].second + Work
                               ELSE IF phase[w] = "second" THEN Work ELSE 0
            <4>1. Remaining(w) = timer[w] + rest /\ Remaining(w)' = timer'[w] + rest
                BY <2>1, Zenon DEF Remaining
            <4>2. rest \in Nat
                BY <3>2, RestTypes, Zenon
            <4>3. timer'[w] = timer[w] - 1
                BY <2>1, <2>2, Zenon
            <4> HIDE DEF rest
            <4> QED
                BY <3>2, <4>1, <4>2, <4>3
        <3>4. lease'[job[w]] = lease[job[w]] - 1
            BY <2>1, <3>1, <3>2
        <3> QED
            BY <3>1, <3>2, <3>3, <3>4
    <2> QED
        BY <2>1, <2>2, Zenon DEF LeaseOutlastsWork, OneExecutor, Executing
<1>7. CASE UNCHANGED leaseVars
    BY <1>7 DEF leaseVars, LeaseOutlastsWork, OneExecutor, Remaining, Executing
<1> QED
    BY <1>1, <1>2, <1>4, <1>5, <1>6, <1>7 DEF LeaseNext

(* A lease longer than the longest plan of network deadlines and the work  *)
(* around it keeps every run with one worker at a time.                    *)
THEOREM LeaseSuffices == ASSUME Fits PROVE LeaseSpec => []OneExecutor
<1>1. LeaseInit => LeaseInv
    BY LeaseAssumption, BudgetTypes DEF LeaseInit, LeaseInv, LeaseTypeOK, LeaseOutlastsWork, OneExecutor, Executing, Phases
<1>2. LeaseInv /\ [LeaseNext]_leaseVars => LeaseInv'
    BY CoveredStep
<1>3. LeaseInv => OneExecutor
    BY DEF LeaseInv
<1> QED
    BY <1>1, <1>2, <1>3, PTL DEF LeaseSpec

(* What a worker needs until its first operation is over. *)
UntilFirst(w) == timer[w] + (IF phase[w] = "start" THEN plan[w].first ELSE 0)

(* The claim outlasts it, unless the run has been settled under the worker. *)
FirstDeadline ==
    \A w \in Workers : phase[w] \in {"start", "first"} =>
        UntilFirst(w) < lease[job[w]] \/ runStatus[job[w]] = "settled"

(* A lease that exceeds the first retrieval and the work before it covers  *)
(* the first retrieval of every execution, until some worker settles the   *)
(* run: also when others execute the same run, and whatever the plan and   *)
(* the duration of the rest.                                               *)
THEOREM FirstRetrievalCovered == ASSUME FirstFits PROVE LeaseSpec => []FirstFetchIsCovered
<1> USE LeaseAssumption
<1>1. LeaseInit => FirstDeadline
    BY DEF LeaseInit, FirstDeadline
<1>2. ASSUME LeaseTypeOK, FirstDeadline, [LeaseNext]_leaseVars PROVE FirstDeadline'
    <2>1. ASSUME NEW w \in Workers, NEW r \in Runs, ClaimQueuedRun(w, r) PROVE FirstDeadline'
        <3>1. PICK p \in Budgets : plan' = [plan EXCEPT ![w] = p]
            BY <2>1, Zenon DEF ClaimQueuedRun
        <3>2. p.first \in 0 .. FetchTimeout
            BY BudgetTypes, Zenon
        <3>3. UntilFirst(w)' < lease'[job'[w]]
            BY <1>2, <2>1, <3>1, <3>2 DEF ClaimQueuedRun, UntilFirst, FirstFits, LeaseTypeOK
        <3>4. ASSUME NEW v \in Workers, phase'[v] \in {"start", "first"}, v # w
              PROVE  UntilFirst(v)' < lease'[job'[v]] \/ runStatus'[job'[v]] = "settled"
            <4>1. /\ phase'[v] = phase[v] /\ job'[v] = job[v] /\ timer'[v] = timer[v]
                  /\ plan'[v] = plan[v] /\ job[v] \in Runs
                BY <1>2, <2>1, <3>1, <3>4 DEF ClaimQueuedRun, LeaseTypeOK
            <4>2. /\ lease[job[v]] <= lease'[job[v]] /\ lease[job[v]] \in Nat /\ lease'[job[v]] \in Nat
                  /\ runStatus[job[v]] = "settled" => runStatus'[job[v]] = "settled"
                BY <1>2, <2>1, <4>1 DEF ClaimQueuedRun, LeaseTypeOK
            <4>3. UntilFirst(v)' = UntilFirst(v) /\ UntilFirst(v) \in Nat
                BY <1>2, <4>1, RemainingTypes DEF UntilFirst, LeaseTypeOK
            <4>4. UntilFirst(v) < lease[job[v]] \/ runStatus[job[v]] = "settled"
                BY <1>2, <3>4, <4>1, Zenon DEF FirstDeadline
            <4>5. ASSUME NEW t \in Nat, NEW before \in Nat, NEW now \in Nat, t < before, before <= now
                  PROVE  t < now
                BY <4>5
            <4> QED
                BY <4>1, <4>2, <4>3, <4>4, <4>5, Zenon
        <3> QED
            BY <3>3, <3>4, Zenon DEF FirstDeadline
    <2>2. ASSUME NEW w \in Workers, StartFirst(w) PROVE FirstDeadline'
        <3>1. plan[w].first \in Nat /\ timer[w] \in Nat
            BY <1>2, RemainingTypes DEF LeaseTypeOK
        <3>2. \A v \in Workers : phase'[v] \in {"start", "first"} => phase[v] \in {"start", "first"}
            BY <1>2, <2>2 DEF StartFirst, LeaseTypeOK
        <3>3. \A v \in Workers : v # w => UntilFirst(v)' = UntilFirst(v)
            BY <1>2, <2>2 DEF StartFirst, UntilFirst, LeaseTypeOK
        <3>4. UntilFirst(w)' <= UntilFirst(w) /\ UntilFirst(w) \in Nat /\ UntilFirst(w)' \in Nat
            BY <1>2, <2>2, <3>1 DEF StartFirst, UntilFirst, LeaseTypeOK
        <3>5. UntilFirst(w) < lease[job[w]] => UntilFirst(w)' < lease[job[w]]
            BY <1>2, <3>4 DEF LeaseTypeOK
        <3> QED
            BY <1>2, <2>2, <3>2, <3>3, <3>5, Zenon DEF FirstDeadline, StartFirst
    <2>3. ASSUME NEW w \in Workers, StartSecond(w) \/ StartFinish(w) \/ Stop(w) PROVE FirstDeadline'
        BY <1>2, <2>3 DEF StartSecond, StartFinish, Stop, FirstDeadline, UntilFirst, LeaseTypeOK
    <2>4. ASSUME NEW w \in Workers, Settle(w) PROVE FirstDeadline'
        BY <1>2, <2>4 DEF Settle, FirstDeadline, UntilFirst, LeaseTypeOK
    <2>5. ASSUME Tick PROVE FirstDeadline'
        <3> SUFFICES ASSUME NEW w \in Workers, phase[w] \in {"start", "first"},
                            UntilFirst(w) < lease[job[w]]
                     PROVE  UntilFirst(w)' < lease'[job[w]]
            BY <1>2, <2>5, Zenon DEF FirstDeadline, Tick
        <3>1. timer[w] \in Nat \ {0} /\ timer'[w] = timer[w] - 1
            BY <1>2, <2>5 DEF Tick, LeaseTypeOK, Executing
        <3>2. plan[w].first \in Nat
            BY <1>2, RemainingTypes
        <3>3. job[w] \in Runs /\ lease[job[w]] \in Nat
            BY <1>2 DEF LeaseTypeOK
        <3>4. UntilFirst(w) \in Nat /\ UntilFirst(w)' = UntilFirst(w) - 1
            BY <2>5, <3>1, <3>2 DEF Tick, UntilFirst
        <3>5. lease[job[w]] > 0
            BY <3>3, <3>4
        <3>6. lease'[job[w]] = lease[job[w]] - 1
            BY <2>5, <3>3, <3>5 DEF Tick
        <3> QED
            BY <3>3, <3>4, <3>6
    <2>6. CASE UNCHANGED leaseVars
        BY <1>2, <2>6, Zenon DEF leaseVars, FirstDeadline, UntilFirst
    <2> QED
        BY <1>2, <2>1, <2>2, <2>3, <2>4, <2>5, <2>6, ZenonT(30) DEF LeaseNext
<1>3. LeaseTypeOK /\ FirstDeadline => FirstFetchIsCovered
    <2> SUFFICES ASSUME LeaseTypeOK, NEW w \in Workers, UntilFirst(w) < lease[job[w]]
                 PROVE  lease[job[w]] > 0
        BY Zenon DEF FirstDeadline, FirstFetchIsCovered
    <2>1. UntilFirst(w) \in Nat /\ lease[job[w]] \in Nat
        BY RemainingTypes DEF UntilFirst, LeaseTypeOK
    <2> QED
        BY <2>1
<1> QED
    BY <1>1, <1>2, <1>3, TypeCorrect, PTL DEF LeaseSpec

-----------------------------------------------------------------------------
(* The inductive invariant of RunFlow.                                     *)

Gates == {"quality_not_rejected", "rendering_disabled", "not_an_empty_shell", "host_not_allowed",
          "daily_budget_exhausted", "escalate"}

(* The steps ss are ones that a run with this outcome may leave. *)
Explains(ss, st, cl) ==
    \/ ss = << >>
    \/ \E g \in Gates : ss = <<Step("render_policy", g)>> /\ cl = "quality"
    \/ \E o \in {"ok", "failed"} :
          /\ ss \in {<<Step("provider_attempt", "ok"), Step("resolved_target", o)>>,
                     <<Step("provider_attempt", "failed"), Step("html_fallback", o)>>}
          /\ (o = "ok") = (st = "succeeded") /\ st \in Terminal

(* The database row of the run and what was written with its last status. *)
OutcomeInv ==
    /\ source \in Sources
    /\ status \in {"queued", "running"} \cup Terminal
    /\ class \in {"none"} \cup FailureClass \cup QualityClass
    /\ candidates \in {"none", "rejected", "selected"}
    /\ documents = IF status = "succeeded" THEN 1 ELSE 0
    /\ candidates = "selected" <=> status = "succeeded"
    /\ candidates = "rejected" <=> class \in QualityClass
    /\ class # "none" <=> status = "failed"
    /\ retryable \in BOOLEAN /\ (retryable => class = "fetch")
    /\ status \notin Terminal => steps = << >>
    /\ Explains(steps, status, class)

Recorded(n) == \E i \in 1 .. Len(rows) : rows[i] = n

(* Only a terminal transaction records a blob copy. *)
RowsInv ==
    /\ fetches \in Nat /\ rows \in Seq(0 .. fetches)
    /\ NoDoubleInsert
    /\ status \notin Terminal => ~Recorded(0)

(* Places with a retrieval in hand that is not recorded. *)
Holding == {"page", "payload", "player", "captions", "fallback_page", "article_page", "budget", "request", "await"}

(* The places each classification leads to. *)
Ordinary == {"plain", "page", "budget", "request", "await", "again"}
PlacesOf(s) ==
    {"idle", "route"} \cup
    {p \in {"blob"} : s = "blob"} \cup
    {p \in Ordinary : s \in {"plain", "provider"}} \cup
    {p \in {"provider", "payload", "article", "article_page"} : s = "provider"} \cup
    {p \in {"watch", "player", "track", "captions", "archive"} : s = "youtube"} \cup
    {p \in {"fallback", "fallback_page"} : s \in {"provider", "youtube"}}

(* What the worker holds, at each place. *)
MineInv(w) ==
    /\ mine[w] \in 0 .. fetches
    /\ pc[w] \in Holding => mine[w] # 0 /\ ~Recorded(mine[w])
    /\ pc[w] \in {"route", "blob"} => mine[w] = 0

(* Where it may be, given the source and the status. *)
PlaceInv(w) ==
    /\ pc[w] \in PlacesOf(source)
    /\ pc[w] # "idle" => status # "queued"
    /\ pc[w] = "again" => status \in Terminal

(* The step it has collected, where the next one depends on it. *)
PendingInv(w) ==
    /\ pending[w] \in {<< >>, Attempted("ok"), Attempted("failed")}
    /\ pc[w] \in {"route", "plain", "provider", "watch", "track"} => pending[w] = << >>
    /\ pc[w] \in {"article", "article_page"} => pending[w] = Attempted("ok")
    /\ pc[w] \in {"fallback", "fallback_page"} => pending[w] = Attempted("failed")

(* The network operations it has performed. *)
NetInv(w) ==
    /\ net[w] \in Plans[source]
    /\ pc[w] \in {"route", "blob", "plain", "provider", "watch"} => net[w] = << >>
    /\ pc[w] \in {"page", "payload", "player", "track", "article", "budget", "request"} => net[w] = <<"fetch">>
    /\ pc[w] = "fallback" => net[w] \in {<< >>, <<"fetch">>}

WorkerInv(w) == MineInv(w) /\ PlaceInv(w) /\ PendingInv(w) /\ NetInv(w)

(* No two workers hold the same retrieval. *)
Apart == \A v, w \in Workers : v # w /\ pc[v] \in Holding /\ pc[w] \in Holding => mine[v] # mine[w]

(* What the workers under way may still retrieve, spend and request. *)
Two == {"route", "provider", "watch"}
One == Two \cup {"plain", "payload", "player", "track", "fallback", "article"}
Spending == {"route", "plain", "page", "budget"}
Rendering == Spending \cup {"request"}
In(Q) == {w \in Workers : pc[w] \in Q}

CountInv ==
    /\ claims \in 0 .. MaxClaims /\ slots \in Nat /\ renders \in Nat /\ diagnostics \in Nat
    /\ fetches + Cardinality(In(Two)) + Cardinality(In(One)) <= 2 * claims
    /\ slots + Cardinality(In(Spending)) <= claims
    /\ renders + Cardinality(In(Rendering)) <= claims

Shaped ==
    /\ pc \in [Workers -> Places] /\ mine \in [Workers -> Nat] /\ DOMAIN pending = Workers /\ DOMAIN net = Workers

RunInv == Shaped /\ OutcomeInv /\ RowsInv /\ (\A w \in Workers : WorkerInv(w)) /\ Apart /\ CountInv

-----------------------------------------------------------------------------
(* Facts about the constants of the model.                                 *)

LEMMA Joined ==
    ASSUME NEW a, NEW b
    PROVE  <<a>> \o <<b>> = <<a, b>> /\ Append(<<a>>, b) = <<a, b>> /\ Append(<< >>, a) = <<a>>
<1>1. ASSUME NEW s \in Seq({a, b}), Len(s) = 2, s[1] = a, s[2] = b PROVE s = <<a, b>>
    BY <1>1
<1>2. <<a>> \o <<b>> \in Seq({a, b}) /\ Len(<<a>> \o <<b>>) = 2 /\ (<<a>> \o <<b>>)[1] = a
      /\ (<<a>> \o <<b>>)[2] = b
    OBVIOUS
<1>3. Append(<<a>>, b) \in Seq({a, b}) /\ Len(Append(<<a>>, b)) = 2 /\ Append(<<a>>, b)[1] = a
      /\ Append(<<a>>, b)[2] = b
    OBVIOUS
<1>4. Append(<< >>, a) = <<a>>
    OBVIOUS
<1> QED
    BY <1>1, <1>2, <1>3, <1>4, Zenon

LEMMA ClassesApart ==
    /\ \A c \in FailureClass : c # "none" /\ c \notin QualityClass
    /\ \A c \in QualityClass : c # "none" /\ c # "fetch"
    /\ "none" \notin QualityClass
    BY DEF FailureClass, QualityClass, RenderFailureClass, BlobFailureClass

-----------------------------------------------------------------------------
(* What the statements do to the row of the run.                           *)

(* What a step leaves true of the row. *)
Kept == OutcomeInv' /\ source' = source /\ (status # "queued" => status' # "queued")
        /\ (status \in Terminal => status' \in Terminal)

LEMMA Unwritten ==
    ASSUME OutcomeInv, UNCHANGED source, UNCHANGED settled
    PROVE  Kept
    BY Zenon DEF settled, Kept, OutcomeInv

(* A run that is running has no steps yet. *)
LEMMA FirstSteps ==
    ASSUME OutcomeInv, status = "running", NEW ss, NEW st, NEW cl, Explains(ss, st, cl)
    PROVE  steps \o ss = ss
<1>1. steps = << >>
    BY DEF OutcomeInv, Terminal
<1>2. << >> \o << >> = << >>
    OBVIOUS
<1>3. \A g \in Gates : << >> \o <<Step("render_policy", g)>> = <<Step("render_policy", g)>>
    OBVIOUS
<1>4. \A a, b : << >> \o <<a, b>> = <<a, b>>
    OBVIOUS
<1> QED
    BY <1>1, <1>2, <1>3, <1>4, Zenon DEF Explains

LEMMA FailRunKeeps ==
    ASSUME OutcomeInv, status # "queued", UNCHANGED source,
           NEW cls \in FailureClass, NEW retry \in BOOLEAN, retry => cls = "fetch",
           NEW ss, Explains(ss, "failed", cls), FailRun(cls, retry, ss)
    PROVE  Kept /\ rows' = rows /\ status' \in Terminal
<1>1. CASE status = "running"
    <2>1. /\ status' = "failed" /\ class' = cls /\ retryable' = retry /\ steps' = ss
          /\ rows' = rows /\ documents' = documents /\ candidates' = candidates
        BY <1>1, FirstSteps, Zenon DEF FailRun
    <2>2. candidates \in {"none", "rejected", "selected"} /\ documents = 0 /\ candidates # "selected" /\ class = "none"
        BY <1>1 DEF OutcomeInv
    <2>3. candidates = "none"
        BY <2>2, ClassesApart DEF OutcomeInv
    <2>4. OutcomeInv'
        BY <2>1, <2>2, <2>3, ClassesApart DEF OutcomeInv, Terminal
    <2> QED
        BY <2>1, <2>4 DEF Kept, Terminal
<1>2. CASE status # "running"
    <2>1. UNCHANGED evidence /\ status \in Terminal
        BY <1>2 DEF FailRun, OutcomeInv, Terminal
    <2> QED
        BY <2>1, Unwritten, Zenon DEF evidence, settled
<1> QED
    BY <1>1, <1>2

LEMMA RejectKeeps ==
    ASSUME OutcomeInv, status # "queued", UNCHANGED source, NEW w,
           NEW cls \in QualityClass, NEW ss, Explains(ss, "failed", cls), Reject(w, cls, ss)
    PROVE  Kept /\ status' \in Terminal /\ (rows' = rows \/ (status = "running" /\ rows' = Append(rows, mine[w])))
<1>1. CASE status = "running"
    <2>1. /\ status' = "failed" /\ class' = cls /\ retryable' = FALSE /\ steps' = ss
          /\ rows' = Append(rows, mine[w]) /\ documents' = documents /\ candidates' = "rejected"
        BY <1>1, FirstSteps, Zenon DEF Reject
    <2>2. documents = 0
        BY <1>1 DEF OutcomeInv
    <2>3. OutcomeInv'
        BY <2>1, <2>2, ClassesApart, Zenon DEF OutcomeInv, Terminal
    <2> QED
        BY <1>1, <2>1, <2>3 DEF Kept, Terminal
<1>2. CASE status # "running"
    <2>1. UNCHANGED evidence /\ status \in Terminal
        BY <1>2 DEF Reject, OutcomeInv, Terminal
    <2> QED
        BY <2>1, Unwritten, Zenon DEF evidence, settled
<1> QED
    BY <1>1, <1>2

LEMMA CompleteKeeps ==
    ASSUME OutcomeInv, status # "queued", UNCHANGED source, NEW w,
           NEW ss, Explains(ss, "succeeded", "none"), NEW next, CompleteDocument(w, ss, next)
    PROVE  /\ Kept /\ status' \in Terminal /\ (Goto(w, next) \/ Goto(w, "idle"))
           /\ rows' = rows \/ (status = "running" /\ rows' = Append(rows, mine[w]))
<1>1. CASE status = "running"
    <2>1. /\ status' = "succeeded" /\ class' = class /\ retryable' = retryable /\ steps' = ss
          /\ rows' = Append(rows, mine[w]) /\ documents' = documents + 1 /\ candidates' = "selected"
          /\ Goto(w, next)
        BY <1>1, FirstSteps, Zenon DEF CompleteDocument
    <2>2. documents = 0 /\ class = "none"
        BY <1>1 DEF OutcomeInv
    <2>3. OutcomeInv'
        BY <2>1, <2>2, ClassesApart DEF OutcomeInv, Terminal
    <2> QED
        BY <1>1, <2>1, <2>3 DEF Kept, Terminal
<1>2. CASE status # "running"
    <2>1. UNCHANGED evidence /\ status \in Terminal /\ (Goto(w, next) \/ Goto(w, "idle"))
        BY <1>2 DEF CompleteDocument, OutcomeInv, Terminal
    <2> QED
        BY <2>1, Unwritten, Zenon DEF evidence, settled
<1> QED
    BY <1>1, <1>2

-----------------------------------------------------------------------------
(* What a step does to the recorded retrievals, the counts and the workers. *)

(* A row is appended only for a retrieval that has none. *)
LEMMA RowsStep ==
    ASSUME RowsInv, fetches' \in {fetches, fetches + 1}, status \in Terminal => status' \in Terminal, NEW n,
           \/ rows' = rows
           \/ /\ rows' = Append(rows, n) /\ n \in 0 .. fetches /\ ~Recorded(n)
              /\ n # 0 \/ status' \in Terminal
    PROVE  RowsInv' /\ \A m : Recorded(m)' => Recorded(m) \/ (rows' # rows /\ m = n)
<1>0. fetches \in Nat /\ fetches' \in Nat /\ rows \in Seq(0 .. fetches) /\ fetches <= fetches'
    BY DEF RowsInv
<1>1. CASE rows' = rows
    <2>1. rows \in Seq(0 .. fetches')
        BY <1>0
    <2>2. Recorded(0)' <=> Recorded(0)
        BY <1>1, Zenon DEF Recorded
    <2>3. RowsInv'
        BY <1>0, <1>1, <2>1, <2>2, Zenon DEF RowsInv, NoDoubleInsert
    <2> QED
        BY <1>1, <2>3, Zenon DEF Recorded
<1>2. CASE rows' = Append(rows, n) /\ n \in 0 .. fetches /\ ~Recorded(n) /\ (n # 0 \/ status' \in Terminal)
    <2>1. rows' \in Seq(0 .. fetches') /\ Len(rows') = Len(rows) + 1 /\ rows'[Len(rows) + 1] = n
          /\ \A i \in 1 .. Len(rows) : rows'[i] = rows[i]
        <3>1. n \in 0 .. fetches' /\ rows \in Seq(0 .. fetches')
            BY <1>0, <1>2
        <3>2. Append(rows, n) \in Seq(0 .. fetches') /\ Len(Append(rows, n)) = Len(rows) + 1
            BY <3>1
        <3>3. Append(rows, n)[Len(rows) + 1] = n /\ \A i \in 1 .. Len(rows) : Append(rows, n)[i] = rows[i]
            BY <3>1
        <3> QED
            BY <1>2, <3>2, <3>3, Zenon
    <2>2. \A m : Recorded(m)' => Recorded(m) \/ m = n
        <3>1. ASSUME NEW i \in 1 .. Len(rows'), ~Recorded(rows'[i]) PROVE rows'[i] = n
            <4>1. Len(rows) \in Nat /\ (i \in 1 .. Len(rows) \/ i = Len(rows) + 1)
                BY <1>0, <2>1, <3>1
            <4> QED
                BY <2>1, <3>1, <4>1, Zenon DEF Recorded
        <3> QED
            BY <3>1, Zenon DEF Recorded
    <2>3. NoDoubleInsert'
        BY <1>0, <1>2, <2>1 DEF NoDoubleInsert, Recorded, RowsInv
    <2>4. status' \notin Terminal => ~Recorded(0)'
        BY <1>2, <2>2 DEF RowsInv
    <2>5. rows' # rows
        BY <1>0, <2>1
    <2> QED
        BY <1>0, <2>1, <2>2, <2>3, <2>4, <2>5, Zenon DEF RowsInv
<1> QED
    BY <1>1, <1>2

(* The facts about finite sets that counting takes; Counting proves them.  *)
CountingFacts ==
    /\ \A S : IsFiniteSet(S) => Cardinality(S) \in Nat
    /\ \A S, T : IsFiniteSet(T) /\ S \subseteq T => IsFiniteSet(S)
    /\ \A S, x : IsFiniteSet(S) /\ x \notin S => Cardinality(S \cup {x}) = Cardinality(S) + 1
    /\ \A S, x : IsFiniteSet(S) /\ x \in S => Cardinality(S \ {x}) = Cardinality(S) - 1
    /\ \A S : IsFiniteSet(S) => (Cardinality(S) = 0 <=> S = {})
    /\ IsFiniteSet({})

Ind(p, Q) == IF p \in Q THEN 1 ELSE 0

(* One worker moves to place p. *)
LEMMA Moved ==
    ASSUME CountingFacts, Shaped, NEW w \in Workers, NEW p \in Places, pc' = [pc EXCEPT ![w] = p], NEW Q
    PROVE  /\ Cardinality(In(Q)) \in Nat /\ Cardinality(In(Q)') \in Nat
           /\ Cardinality(In(Q)') + Ind(pc[w], Q) = Cardinality(In(Q)) + Ind(p, Q)
<1>1. In(Q) \subseteq Workers /\ In(Q)' \subseteq Workers
    BY Zenon DEF In
<1>2. IsFiniteSet(In(Q)) /\ IsFiniteSet(In(Q)')
    BY <1>1, WorkersAssumption, Zenon DEF CountingFacts
<1>3. Cardinality(In(Q)) \in Nat /\ Cardinality(In(Q)') \in Nat
    BY <1>2, Zenon DEF CountingFacts
<1>4. pc'[w] = p /\ \A v \in Workers \ {w} : pc'[v] = pc[v]
    BY Zenon DEF Shaped
<1>5. CASE pc[w] \in Q /\ p \in Q
    <2>1. In(Q)' = In(Q)
        BY <1>4, <1>5 DEF In
    <2> QED
        BY <1>3, <1>5, <2>1 DEF Ind
<1>6. CASE pc[w] \notin Q /\ p \notin Q
    <2>1. In(Q)' = In(Q)
        BY <1>4, <1>6 DEF In
    <2> QED
        BY <1>3, <1>6, <2>1 DEF Ind
<1>7. CASE pc[w] \in Q /\ p \notin Q
    <2>1. In(Q)' = In(Q) \ {w} /\ w \in In(Q)
        BY <1>4, <1>7 DEF In
    <2>2. Cardinality(In(Q)') = Cardinality(In(Q)) - 1
        BY <1>2, <2>1, Zenon DEF CountingFacts
    <2> QED
        BY <1>3, <1>7, <2>2 DEF Ind
<1>8. CASE pc[w] \notin Q /\ p \in Q
    <2>1. In(Q)' = In(Q) \cup {w} /\ w \notin In(Q)
        BY <1>4, <1>8 DEF In
    <2>2. Cardinality(In(Q)') = Cardinality(In(Q)) + 1
        BY <1>2, <2>1, Zenon DEF CountingFacts
    <2> QED
        BY <1>3, <1>8, <2>2 DEF Ind
<1> QED
    BY <1>5, <1>6, <1>7, <1>8, Zenon

(* Nothing is retrieved, spent or requested beyond what a claim allows. *)
Within(w, p) ==
    /\ claims' \in 0 .. MaxClaims /\ slots' \in Nat /\ renders' \in Nat /\ diagnostics' \in Nat
    /\ fetches' + Ind(p, Two) + Ind(p, One) + 2 * claims <= fetches + Ind(pc[w], Two) + Ind(pc[w], One) + 2 * claims'
    /\ slots' + Ind(p, Spending) + claims <= slots + Ind(pc[w], Spending) + claims'
    /\ renders' + Ind(p, Rendering) + claims <= renders + Ind(pc[w], Rendering) + claims'

LEMMA Counted ==
    ASSUME CountingFacts, Shaped, CountInv, NEW w \in Workers, NEW p \in Places, pc' = [pc EXCEPT ![w] = p],
           fetches \in Nat, fetches' \in Nat, Within(w, p)
    PROVE  CountInv'
<1>0. /\ claims \in Nat /\ claims' \in Nat /\ slots \in Nat /\ slots' \in Nat /\ renders \in Nat /\ renders' \in Nat
    BY ClaimsAssumption DEF CountInv, Within
<1>1. ASSUME NEW Q, NEW n \in Nat, NEW m \in Nat, NEW k \in Nat, NEW l \in Nat,
             n + Cardinality(In(Q)) <= k, m + Ind(p, Q) + k <= n + Ind(pc[w], Q) + l
      PROVE  m + Cardinality(In(Q)') <= l
    <2>1. /\ Cardinality(In(Q)) \in Nat /\ Cardinality(In(Q)') \in Nat
          /\ Cardinality(In(Q)') + Ind(pc[w], Q) = Cardinality(In(Q)) + Ind(p, Q)
        BY Moved, Zenon
    <2>2. Ind(p, Q) \in Nat /\ Ind(pc[w], Q) \in Nat
        BY DEF Ind
    <2> QED
        BY <1>1, <2>1, <2>2
<1>2. slots' + Cardinality(In(Spending)') <= claims'
    BY <1>0, <1>1, Zenon DEF CountInv, Within
<1>3. renders' + Cardinality(In(Rendering)') <= claims'
    BY <1>0, <1>1, Zenon DEF CountInv, Within
<1>4. fetches' + Cardinality(In(Two)') + Cardinality(In(One)') <= 2 * claims'
    <2>1. /\ Cardinality(In(Two)) \in Nat /\ Cardinality(In(Two)') \in Nat
          /\ Cardinality(In(Two)') + Ind(pc[w], Two) = Cardinality(In(Two)) + Ind(p, Two)
        BY Moved, Zenon
    <2>2. /\ Cardinality(In(One)) \in Nat /\ Cardinality(In(One)') \in Nat
          /\ Cardinality(In(One)') + Ind(pc[w], One) = Cardinality(In(One)) + Ind(p, One)
        BY Moved, Zenon
    <2>3. Ind(p, Two) \in Nat /\ Ind(pc[w], Two) \in Nat /\ Ind(p, One) \in Nat /\ Ind(pc[w], One) \in Nat
        BY DEF Ind
    <2>4. /\ fetches + Cardinality(In(Two)) + Cardinality(In(One)) <= 2 * claims
          /\ fetches' + Ind(p, Two) + Ind(p, One) + 2 * claims <= fetches + Ind(pc[w], Two) + Ind(pc[w], One) + 2 * claims'
        BY Zenon DEF CountInv, Within
    <2> QED
        BY <1>0, <2>1, <2>2, <2>3, <2>4
<1> QED
    BY <1>2, <1>3, <1>4, Zenon DEF CountInv, Within

(* The other workers keep what they hold. *)
Local(w) ==
    /\ mine' \in [Workers -> Nat] /\ DOMAIN pending' = Workers /\ DOMAIN net' = Workers
    /\ \A v \in Workers \ {w} : mine'[v] = mine[v] /\ pending'[v] = pending[v] /\ net'[v] = net[v]

(* The worker may append the row of what it holds. *)
Records(w) == pc[w] \in Holding \/ (pc[w] = "blob" /\ status \notin Terminal /\ status' \in Terminal)

(* What it then holds, at place p. *)
Holds(w, p) ==
    /\ mine'[w] \in 0 .. fetches'
    /\ p \in {"route", "blob"} => mine'[w] = 0
    /\ p \in Holding => /\ rows' = rows
                        /\ \/ mine'[w] = mine[w] /\ pc[w] \in Holding
                           \/ mine'[w] = fetches + 1 /\ fetches' = fetches + 1

LEMMA Stepping ==
    ASSUME CountingFacts, RunInv, NEW w \in Workers, NEW p \in Places, pc' = [pc EXCEPT ![w] = p],
           Local(w), Kept, fetches' \in {fetches, fetches + 1},
           rows' = rows \/ (rows' = Append(rows, mine[w]) /\ Records(w)),
           Holds(w, p), PlaceInv(w)', PendingInv(w)', NetInv(w)', Within(w, p)
    PROVE  RunInv'
<1>0. /\ Shaped /\ RowsInv /\ Apart /\ CountInv /\ fetches \in Nat /\ fetches' \in Nat /\ fetches <= fetches'
      /\ \A v \in Workers : MineInv(v)
    BY DEF RunInv, RowsInv, WorkerInv
<1>1. pc' \in [Workers -> Places] /\ pc'[w] = p /\ \A v \in Workers \ {w} : pc'[v] = pc[v]
    BY <1>0, Zenon DEF Shaped
<1>2. RowsInv' /\ \A m : Recorded(m)' => Recorded(m) \/ (rows' # rows /\ m = mine[w])
    <2>1. Records(w) => mine[w] \in 0 .. fetches /\ ~Recorded(mine[w]) /\ (mine[w] # 0 \/ status' \in Terminal)
        BY <1>0 DEF Records, MineInv, RowsInv
    <2>2. \/ rows' = rows
          \/ /\ rows' = Append(rows, mine[w]) /\ mine[w] \in 0 .. fetches /\ ~Recorded(mine[w])
             /\ mine[w] # 0 \/ status' \in Terminal
        BY <2>1, Zenon
    <2>3. status \in Terminal => status' \in Terminal
        BY Zenon DEF Kept
    <2> QED
        BY <1>0, <2>2, <2>3, RowsStep
<1>3. ASSUME NEW v \in Workers, v # w PROVE WorkerInv(v)'
    <2>1. WorkerInv(v) /\ pc'[v] = pc[v] /\ mine'[v] = mine[v] /\ pending'[v] = pending[v] /\ net'[v] = net[v]
        BY <1>1, <1>3, Zenon DEF RunInv, Local
    <2>2. MineInv(v)'
        <3>1. mine[v] \in 0 .. fetches'
            BY <1>0 DEF MineInv
        <3>2. rows' # rows => Records(w)
            BY Zenon
        <3>3. pc[v] \in Holding /\ Records(w) => mine[v] # mine[w]
            BY <1>0, <1>3 DEF Records, MineInv, Apart
        <3>4. PICK m : m = mine[v]
            OBVIOUS
        <3>5. pc[v] \in Holding => m # 0 /\ ~Recorded(m)'
            <4>1. pc[v] \in Holding => m # 0 /\ ~Recorded(m) /\ ~(rows' # rows /\ m = mine[w])
                BY <1>0, <3>2, <3>3, <3>4 DEF MineInv
            <4> QED
                BY <1>2, <4>1, Zenon
        <3>6. pc[v] \in {"route", "blob"} => m = 0
            BY <1>0, <3>4, ZenonT(30) DEF MineInv
        <3>7. mine'[v] = m /\ m \in 0 .. fetches'
            BY <2>1, <3>1, <3>4
        <3> QED
            BY <2>1, <3>5, <3>6, <3>7, Zenon DEF MineInv, Recorded
    <2>3. PlaceInv(v)' /\ PendingInv(v)' /\ NetInv(v)'
        BY <2>1, Zenon DEF WorkerInv, PlaceInv, PendingInv, NetInv, Kept
    <2> QED
        BY <2>2, <2>3, Zenon DEF WorkerInv
<1>4. WorkerInv(w)'
    <2>1. p \in Holding => mine'[w] # 0 /\ ~Recorded(mine'[w])
        <3>1. ~Recorded(fetches + 1)
            BY <1>0 DEF Recorded, RowsInv
        <3>2. p \in Holding /\ mine'[w] = fetches + 1 => mine'[w] # 0 /\ ~Recorded(mine'[w])
            BY <1>0, <3>1
        <3> QED
            BY <1>0, <3>2, Zenon DEF Holds, MineInv
    <2>2. p \in Holding => rows' = rows
        BY Zenon DEF Holds
    <2>3. MineInv(w)'
        <3>1. pc'[w] \in Holding => mine'[w] # 0 /\ ~Recorded(mine[w])'
            BY <1>1, <2>1, <2>2, Zenon DEF Recorded
        <3> QED
            BY <1>1, <3>1, Zenon DEF MineInv, Holds
    <2> QED
        BY <2>3, Zenon DEF WorkerInv
<1>5. Apart'
    <2>1. ASSUME NEW v \in Workers, v # w, pc[v] \in Holding, p \in Holding PROVE mine'[w] # mine[v]
        BY <1>0, <2>1 DEF Holds, Apart, MineInv
    <2>2. ASSUME NEW u \in Workers, NEW v \in Workers, u # v, pc'[u] \in Holding, pc'[v] \in Holding
          PROVE  mine'[u] # mine'[v]
        <3>1. CASE u = w
            BY <1>1, <2>1, <2>2, <3>1, Zenon DEF Local
        <3>2. CASE v = w
            BY <1>1, <2>1, <2>2, <3>2, Zenon DEF Local
        <3>3. CASE u # w /\ v # w
            <4>1. pc[u] \in Holding /\ pc[v] \in Holding /\ mine'[u] = mine[u] /\ mine'[v] = mine[v]
                BY <1>1, <2>2, <3>3 DEF Local
            <4> QED
                BY <1>0, <2>2, <4>1, ZenonT(30) DEF Apart
        <3> QED
            BY <3>1, <3>2, <3>3
    <2> QED
        BY <2>2, ZenonT(30) DEF Apart
<1>6. CountInv'
    BY <1>0, Counted, Zenon
<1>7. Shaped'
    BY <1>1, Zenon DEF Shaped, Local
<1> QED
    BY <1>2, <1>3, <1>4, <1>5, <1>6, <1>7, Zenon DEF RunInv, Kept

-----------------------------------------------------------------------------
(* The last step of an execution, or one that leads to its last step.      *)

Last == {"idle", "again", "archive"}

(* The worker goes to p and has at most a network operation to add. *)
Leaves(w, p) ==
    /\ Goto(w, p) /\ p \in Last /\ p \in PlacesOf(source)
    /\ UNCHANGED source /\ UNCHANGED slots /\ UNCHANGED claims /\ UNCHANGED fetches /\ UNCHANGED mine
    /\ UNCHANGED pending
    /\ DOMAIN net' = Workers /\ net'[w] \in Plans[source] /\ \A v \in Workers \ {w} : net'[v] = net[v]
    /\ renders' = renders \/ (pc[w] = "request" /\ renders' = renders + 1)
    /\ diagnostics' \in {diagnostics, diagnostics + 1}

LEMMA LeaveStep ==
    ASSUME CountingFacts, RunInv, NEW w \in Workers, pc[w] # "idle", NEW p, Leaves(w, p), Kept,
           p = "again" => status' \in Terminal,
           rows' = rows \/ (rows' = Append(rows, mine[w]) /\ Records(w))
    PROVE  RunInv'
<1>0. Shaped /\ WorkerInv(w) /\ CountInv /\ fetches \in Nat /\ status # "queued"
    BY DEF RunInv, RowsInv, WorkerInv, PlaceInv
<1>1. p \in Places /\ p \notin Holding /\ p \notin {"route", "blob"} /\ p \in Last
    BY DEF Leaves, Last, Places, Holding
<1>2. pc' = [pc EXCEPT ![w] = p] /\ pc'[w] = p
    BY <1>0, Zenon DEF Leaves, Goto, Shaped
<1>3. Local(w)
    BY <1>0, Zenon DEF Leaves, Local, Shaped
<1>4. Holds(w, p)
    BY <1>0, <1>1, Zenon DEF Leaves, Holds, WorkerInv, MineInv
<1>5. PlaceInv(w)'
    BY <1>0, <1>2, Zenon DEF Leaves, PlaceInv, Kept
<1>6. PendingInv(w)'
    <2>1. pending'[w] = pending[w] /\ pc'[w] \in Last
        BY <1>1, <1>2, Zenon DEF Leaves
    <2> QED
        BY <1>0, <2>1 DEF WorkerInv, PendingInv, Last
<1>7. NetInv(w)'
    <2>1. net'[w] \in Plans[source'] /\ pc'[w] \in Last
        BY <1>1, <1>2, Zenon DEF Leaves
    <2> QED
        BY <2>1 DEF NetInv, Last
<1>8. Within(w, p)
    <2>1. /\ claims \in 0 .. MaxClaims /\ claims \in Nat /\ slots \in Nat /\ renders \in Nat /\ diagnostics \in Nat
          /\ claims' = claims /\ slots' = slots /\ fetches' = fetches
          /\ renders' = renders \/ (pc[w] = "request" /\ renders' = renders + 1)
          /\ diagnostics' \in {diagnostics, diagnostics + 1}
        <3>1. claims \in 0 .. MaxClaims /\ slots \in Nat /\ renders \in Nat /\ diagnostics \in Nat
            BY <1>0, Zenon DEF CountInv
        <3>2. claims \in Nat
            BY ONLY <3>1, ClaimsAssumption
        <3> QED
            BY <3>1, <3>2, Zenon DEF Leaves
    <2>2. Ind(p, Two) = 0 /\ Ind(p, One) = 0 /\ Ind(p, Spending) = 0 /\ Ind(p, Rendering) = 0
        BY <1>1 DEF Ind, Last, Two, One, Spending, Rendering
    <2>3. Ind(pc[w], Two) \in Nat /\ Ind(pc[w], One) \in Nat /\ Ind(pc[w], Spending) \in Nat /\ Ind(pc[w], Rendering) \in Nat
          /\ (pc[w] = "request" => Ind(pc[w], Rendering) = 1)
        BY DEF Ind, Rendering
    <2>4. fetches + 0 + 0 + 2 * claims <= fetches + Ind(pc[w], Two) + Ind(pc[w], One) + 2 * claims
        BY <1>0, <2>1, <2>3
    <2>5. slots + 0 + claims <= slots + Ind(pc[w], Spending) + claims
        BY <2>1, <2>3
    <2>6. renders' \in Nat /\ diagnostics' \in Nat /\ renders' + 0 + claims <= renders + Ind(pc[w], Rendering) + claims
        BY <2>1, <2>3
    <2> QED
        BY <2>1, <2>2, <2>4, <2>5, <2>6, ZenonT(30) DEF Within
<1>9. fetches' \in {fetches, fetches + 1}
    BY DEF Leaves
<1> QED
    BY <1>1, <1>2, <1>3, <1>4, <1>5, <1>6, <1>7, <1>8, <1>9, Stepping, Zenon

(* Rest leaves all that alone. *)
LEMMA RestLeaves ==
    ASSUME RunInv, NEW w \in Workers, NEW p \in Last, p \in PlacesOf(source), Goto(w, p), Rest
    PROVE  Leaves(w, p)
<1>1. net[w] \in Plans[source] /\ DOMAIN net = Workers
    BY Zenon DEF RunInv, Shaped, WorkerInv, NetInv
<1> QED
    BY <1>1, Zenon DEF Rest, Leaves

LEMMA EmptyPlan == \A s \in Sources : << >> \in Plans[s]
<1>1. << >> \in Plans["blob"] /\ << >> \in Plans["plain"]
    BY Zenon DEF Plans
<1>2. << >> \in Plans["provider"] /\ << >> \in Plans["youtube"]
    BY Zenon DEF Plans
<1> QED
    BY <1>1, <1>2, SourcesAssumption, Zenon DEF Classes

LEMMA IdleAnywhere == \A s : "idle" \in PlacesOf(s) /\ "idle" \in Last
    BY DEF PlacesOf, Last

LEMMA FailStep ==
    ASSUME CountingFacts, RunInv, NEW w \in Workers, pc[w] # "idle", NEW p, Leaves(w, p),
           NEW cls \in FailureClass, NEW retry \in BOOLEAN, retry => cls = "fetch",
           NEW ss, Explains(ss, "failed", cls), FailRun(cls, retry, ss)
    PROVE  RunInv'
<1>1. OutcomeInv /\ status # "queued" /\ UNCHANGED source
    BY Zenon DEF RunInv, WorkerInv, PlaceInv, Leaves
<1>2. Kept /\ rows' = rows /\ status' \in Terminal
    BY <1>1, FailRunKeeps
<1> QED
    BY <1>2, LeaveStep, Zenon

LEMMA RejectStep ==
    ASSUME CountingFacts, RunInv, NEW w \in Workers, pc[w] \in Holding \cup {"blob", "again"}, NEW p, Leaves(w, p),
           NEW cls \in QualityClass, NEW ss, Explains(ss, "failed", cls), Reject(w, cls, ss)
    PROVE  RunInv'
<1>0. pc[w] # "idle"
    BY DEF Holding
<1>1. OutcomeInv /\ status # "queued" /\ UNCHANGED source
    BY <1>0, Zenon DEF RunInv, WorkerInv, PlaceInv, Leaves
<1>2. Kept /\ status' \in Terminal /\ (rows' = rows \/ (status = "running" /\ rows' = Append(rows, mine[w])))
    BY <1>1, RejectKeeps, Zenon
<1>3. pc[w] = "again" => status # "running"
    BY DEF RunInv, WorkerInv, PlaceInv, Terminal
<1>4. rows' = rows \/ (rows' = Append(rows, mine[w]) /\ Records(w))
    BY <1>2, <1>3 DEF Records, Terminal
<1> QED
    BY <1>0, <1>2, <1>4, LeaveStep, Zenon

LEMMA CompleteStep ==
    ASSUME CountingFacts, RunInv, NEW w \in Workers, pc[w] \in Holding \cup {"blob"},
           NEW next \in {"idle", "archive"}, next \in PlacesOf(source),
           NEW ss, Explains(ss, "succeeded", "none"), Completes(w, ss, next)
    PROVE  RunInv'
<1>0. pc[w] # "idle"
    BY DEF Holding
<1>1. OutcomeInv /\ status # "queued" /\ UNCHANGED source /\ Rest /\ CompleteDocument(w, ss, next)
    BY <1>0, Zenon DEF RunInv, WorkerInv, PlaceInv, Completes, Rest
<1>2. /\ Kept /\ status' \in Terminal /\ (Goto(w, next) \/ Goto(w, "idle"))
      /\ rows' = rows \/ (status = "running" /\ rows' = Append(rows, mine[w]))
    BY <1>1, CompleteKeeps, Zenon
<1>3. rows' = rows \/ (rows' = Append(rows, mine[w]) /\ Records(w))
    BY <1>2 DEF Records, Terminal
<1>4. next \in Last
    BY DEF Last
<1>5. Leaves(w, next) \/ Leaves(w, "idle")
    BY <1>1, <1>2, <1>4, RestLeaves, IdleAnywhere
<1> QED
    BY <1>0, <1>2, <1>3, <1>5, LeaveStep, Zenon

LEMMA FailsStep ==
    ASSUME CountingFacts, RunInv, NEW w \in Workers, pc[w] # "idle",
           NEW cls \in FailureClass, NEW ss, Explains(ss, "failed", cls), Fails(w, cls, ss)
    PROVE  RunInv'
<1>1. Leaves(w, "idle") /\ FailRun(cls, FALSE, ss)
    BY RestLeaves, IdleAnywhere, Zenon DEF Fails
<1> QED
    BY <1>1, FailStep, Zenon

LEMMA RejectsStep ==
    ASSUME CountingFacts, RunInv, NEW w \in Workers, pc[w] \in Holding \cup {"blob", "again"},
           NEW cls \in QualityClass, NEW ss, Explains(ss, "failed", cls), Rejects(w, cls, ss)
    PROVE  RunInv'
<1>1. Leaves(w, "idle") /\ Reject(w, cls, ss)
    BY RestLeaves, IdleAnywhere, Zenon DEF Rejects
<1> QED
    BY <1>1, RejectStep, Zenon

LEMMA NoSteps == \A st, cl : Explains(<< >>, st, cl)
    BY Zenon DEF Explains

(* The steps of an execution that fails where the next one was collected. *)
LEMMA Collected ==
    ASSUME NEW w \in Workers, PendingInv(w),
           pc[w] \in {"plain", "provider", "watch", "track", "fallback", "article", "fallback_page", "article_page"}
    PROVE  \A cls : Explains(pending[w] \o FailedStep(pc[w]), "failed", cls)
<1>1. CASE pc[w] \in {"plain", "provider", "watch", "track"}
    <2>1. pending[w] = << >>
        BY <1>1 DEF PendingInv
    <2>2. FailedStep(pc[w]) = << >>
        BY <1>1 DEF FailedStep
    <2>3. << >> \o << >> = << >>
        OBVIOUS
    <2> QED
        BY <2>1, <2>2, <2>3, NoSteps, Zenon
<1>2. CASE pc[w] \in {"article", "article_page"}
    <2>1. pending[w] = <<Step("provider_attempt", "ok")>>
        BY <1>2 DEF PendingInv, Attempted
    <2>2. FailedStep(pc[w]) = <<Step("resolved_target", "failed")>>
        BY <1>2 DEF FailedStep
    <2>3. pending[w] \o FailedStep(pc[w]) = <<Step("provider_attempt", "ok"), Step("resolved_target", "failed")>>
        BY <2>1, <2>2, Joined, Zenon
    <2> QED
        BY <2>3 DEF Explains, Terminal
<1>3. CASE pc[w] \in {"fallback", "fallback_page"}
    <2>1. pending[w] = <<Step("provider_attempt", "failed")>>
        BY <1>3 DEF PendingInv, Attempted
    <2>2. FailedStep(pc[w]) = <<Step("html_fallback", "failed")>>
        BY <1>3 DEF FailedStep
    <2>3. pending[w] \o FailedStep(pc[w]) = <<Step("provider_attempt", "failed"), Step("html_fallback", "failed")>>
        BY <2>1, <2>2, Joined, Zenon
    <2> QED
        BY <2>3 DEF Explains, Terminal
<1> QED
    BY <1>1, <1>2, <1>3, Zenon

(* Continuations that succeed. *)
LEMMA Succeeding ==
    ASSUME NEW w \in Workers, PendingInv(w)
    PROVE  /\ pc[w] = "article_page" =>
                Explains(pending[w] \o <<Step("resolved_target", "ok")>>, "succeeded", "none")
           /\ pc[w] = "fallback_page" =>
                Explains(pending[w] \o <<Step("html_fallback", "ok")>>, "succeeded", "none")
<1>1. pc[w] = "article_page" =>
        pending[w] \o <<Step("resolved_target", "ok")>> = <<Step("provider_attempt", "ok"), Step("resolved_target", "ok")>>
    BY Joined, Zenon DEF PendingInv, Attempted
<1>2. pc[w] = "fallback_page" =>
        pending[w] \o <<Step("html_fallback", "ok")>> = <<Step("provider_attempt", "failed"), Step("html_fallback", "ok")>>
    BY Joined, Zenon DEF PendingInv, Attempted
<1>3. pc[w] = "article_page" => Explains(pending[w] \o <<Step("resolved_target", "ok")>>, "succeeded", "none")
    BY <1>1 DEF Explains, Terminal
<1>4. pc[w] = "fallback_page" => Explains(pending[w] \o <<Step("html_fallback", "ok")>>, "succeeded", "none")
    BY <1>2 DEF Explains, Terminal
<1> QED
    BY <1>3, <1>4, Zenon

(* The classes the handlers use. *)
LEMMA ClassesUsed ==
    /\ {"artifact", "parse", "unsupported_media", "fetch", "policy", "pdf_encrypted"} \cup BlobFailureClass
            \cup RenderFailureClass \subseteq FailureClass
    /\ {"quality", "provider_low_quality", "pdf_no_text_layer", "youtube_no_language_match",
        "youtube_no_transcript"} \subseteq QualityClass
    BY DEF FailureClass, QualityClass

LEMMA PdfStep ==
    ASSUME CountingFacts, RunInv, NEW w \in Workers, pc[w] \in Holding \cup {"blob"}, FinishPdf(w)
    PROVE  RunInv'
<1>0. pc[w] # "idle" /\ "idle" \in {"idle", "archive"} /\ pc[w] \in Holding \cup {"blob", "again"}
    BY DEF Holding
<1>1. CASE Rejects(w, "pdf_no_text_layer", << >>)
    BY <1>0, <1>1, RejectsStep, ClassesUsed, NoSteps
<1>2. ASSUME NEW cls \in {"pdf_encrypted", "parse"}, Fails(w, cls, << >>) PROVE RunInv'
    BY <1>0, <1>2, FailsStep, ClassesUsed, NoSteps, Zenon
<1>3. CASE Completes(w, << >>, "idle")
    BY <1>0, <1>3, CompleteStep, IdleAnywhere, NoSteps, Zenon
<1> QED
    BY <1>1, <1>2, <1>3, Zenon DEF FinishPdf

LEMMA EndSteps ==
    ASSUME CountingFacts, RunInv, NEW w \in Workers,
           \/ UnsupportedMedia(w) \/ CompletePdf(w) \/ CompleteBlobPdf(w) \/ RejectAgain(w)
           \/ ResolveExternalArticle(w) \/ FallbackToGenericHtml(w) \/ Captions(w)
    PROVE  RunInv'
<1>0. /\ PendingInv(w) /\ pc[w] \in PlacesOf(source)
      /\ "idle" \in {"idle", "archive"} /\ "archive" \in {"idle", "archive"}
    BY DEF RunInv, WorkerInv, PlaceInv
<1>1. CASE UnsupportedMedia(w)
    <2>1. pc[w] # "idle" /\ Fails(w, "unsupported_media", << >>)
        BY <1>1 DEF UnsupportedMedia, At
    <2> QED
        BY <2>1, FailsStep, ClassesUsed, NoSteps, ZenonT(30)
<1>2. CASE CompletePdf(w)
    <2>1. pc[w] # "idle" /\ pc[w] \in Holding \cup {"blob"}
        BY <1>2 DEF CompletePdf, At, Holding
    <2>2. CASE Fails(w, "artifact", << >>)
        BY <2>1, <2>2, FailsStep, ClassesUsed, NoSteps, ZenonT(30)
    <2>3. CASE FinishPdf(w)
        BY <2>1, <2>3, PdfStep
    <2> QED
        BY <1>2, <2>2, <2>3, Zenon DEF CompletePdf
<1>3. CASE CompleteBlobPdf(w)
    <2>1. pc[w] # "idle" /\ pc[w] \in Holding \cup {"blob"}
        BY <1>3 DEF CompleteBlobPdf, At, Holding
    <2>2. ASSUME NEW cls \in {"unsupported_media", "parse"} \cup BlobFailureClass, Fails(w, cls, << >>) PROVE RunInv'
        BY <2>1, <2>2, FailsStep, ClassesUsed, NoSteps, Zenon
    <2>3. CASE FinishPdf(w)
        BY <2>1, <2>3, PdfStep
    <2> QED
        BY <1>3, <2>2, <2>3, Zenon DEF CompleteBlobPdf
<1>4. CASE RejectAgain(w)
    <2>1. pc[w] \in Holding \cup {"blob", "again"} /\ Rejects(w, "quality", << >>)
        BY <1>4 DEF RejectAgain, At
    <2> QED
        BY <2>1, RejectsStep, ClassesUsed, NoSteps
<1>5. CASE ResolveExternalArticle(w)
    <2>1. pc[w] = "article_page" /\ pc[w] # "idle" /\ pc[w] \in Holding \cup {"blob"}
        BY <1>5 DEF ResolveExternalArticle, At, Holding
    <2>2. ASSUME NEW cls \in {"unsupported_media", "artifact", "parse"}, Fails(w, cls, pending[w] \o FailedStep(pc[w]))
          PROVE  RunInv'
        BY <1>0, <2>1, <2>2, FailsStep, ClassesUsed, Collected
    <2>3. CASE Completes(w, pending[w] \o <<Step("resolved_target", "ok")>>, "idle")
        BY <1>0, <2>1, <2>3, CompleteStep, IdleAnywhere, Succeeding, Zenon
    <2> QED
        BY <1>5, <2>2, <2>3, Zenon DEF ResolveExternalArticle
<1>6. CASE FallbackToGenericHtml(w)
    <2>1. pc[w] = "fallback_page" /\ pc[w] # "idle" /\ pc[w] \in Holding \cup {"blob"}
          /\ pc[w] \in Holding \cup {"blob", "again"}
        BY <1>6 DEF FallbackToGenericHtml, At, Holding
    <2>2. ASSUME NEW cls \in {"unsupported_media", "artifact", "parse"}, Fails(w, cls, pending[w] \o FailedStep(pc[w]))
          PROVE  RunInv'
        BY <1>0, <2>1, <2>2, FailsStep, ClassesUsed, Collected
    <2>3. CASE Rejects(w, "quality", pending[w] \o FailedStep(pc[w]))
        BY <1>0, <2>1, <2>3, RejectsStep, ClassesUsed, Collected
    <2>4. CASE Completes(w, pending[w] \o <<Step("html_fallback", "ok")>>, "idle")
        BY <1>0, <2>1, <2>4, CompleteStep, IdleAnywhere, Succeeding, Zenon
    <2> QED
        BY <1>6, <2>2, <2>3, <2>4, Zenon DEF FallbackToGenericHtml
<1>7. CASE Captions(w)
    <2>1. pc[w] = "captions" /\ pc[w] # "idle" /\ pc[w] \in Holding \cup {"blob"} /\ "archive" \in PlacesOf(source)
        BY <1>0, <1>7 DEF Captions, At, Holding, PlacesOf, Ordinary
    <2>2. ASSUME NEW cls \in {"artifact", "parse"}, Fails(w, cls, << >>) PROVE RunInv'
        BY <2>1, <2>2, FailsStep, ClassesUsed, NoSteps, Zenon
    <2>3. CASE Completes(w, << >>, "archive")
        BY <1>0, <2>1, <2>3, CompleteStep, NoSteps, Zenon
    <2> QED
        BY <1>7, <2>2, <2>3, Zenon DEF Captions
<1> QED
    BY <1>1, <1>2, <1>3, <1>4, <1>5, <1>6, <1>7, Zenon

-----------------------------------------------------------------------------
(* Steps of the ordinary path that keep the page in hand.                  *)

Onward(w, p) ==
    /\ <<pc[w], p>> \in {<<"page", "budget">>, <<"budget", "request">>, <<"request", "await">>}
    /\ Goto(w, p)
    /\ UNCHANGED source /\ UNCHANGED rows /\ UNCHANGED settled /\ UNCHANGED diagnostics /\ UNCHANGED claims
    /\ UNCHANGED fetches /\ UNCHANGED mine /\ UNCHANGED pending
    /\ slots' = IF p = "request" THEN slots + 1 ELSE slots
    /\ renders' = IF p = "await" THEN renders + 1 ELSE renders
    /\ net' = IF p = "await" THEN [net EXCEPT ![w] = Append(@, "render")] ELSE net

LEMMA OnwardStep ==
    ASSUME CountingFacts, RunInv, NEW w \in Workers, NEW p, Onward(w, p)
    PROVE  RunInv'
<1>0. /\ Shaped /\ WorkerInv(w) /\ CountInv /\ fetches \in Nat /\ OutcomeInv
      /\ MineInv(w) /\ PlaceInv(w) /\ PendingInv(w) /\ NetInv(w)
    BY DEF RunInv, RowsInv, WorkerInv
<1>1. \/ pc[w] = "page" /\ p = "budget"
      \/ pc[w] = "budget" /\ p = "request"
      \/ pc[w] = "request" /\ p = "await"
    BY Zenon DEF Onward
<1>2. /\ p \in Places /\ p \in Holding /\ p \notin {"route", "blob"} /\ pc[w] \in Holding /\ pc[w] # "idle" /\ p # "again"
      /\ p \notin {"route", "plain", "provider", "watch", "track", "article", "article_page", "fallback", "fallback_page"}
    BY <1>1 DEF Places, AfterFetch, Holding
<1>3. pc' = [pc EXCEPT ![w] = p] /\ pc'[w] = p
    BY <1>0, Zenon DEF Onward, Goto, Shaped
<1>4. net[w] = <<"fetch">> /\ source \in {"plain", "provider"} /\ p \in PlacesOf(source)
    <2>1. source \in {"plain", "provider"}
        BY <1>0, <1>1 DEF PlaceInv, PlacesOf, Ordinary
    <2>2. p \in PlacesOf(source)
        BY <1>1, <2>1 DEF PlacesOf, Ordinary
    <2> QED
        BY <1>0, <1>1, <2>1, <2>2 DEF NetInv
<1>5. DOMAIN net' = Workers /\ \A v \in Workers \ {w} : net'[v] = net[v]
    BY <1>0, Zenon DEF Onward, Shaped
<1>6. net'[w] = IF p = "await" THEN <<"fetch", "render">> ELSE <<"fetch">>
    <2>1. net'[w] = IF p = "await" THEN Append(net[w], "render") ELSE net[w]
        BY <1>0, Zenon DEF Onward, Shaped
    <2> QED
        BY <1>4, <2>1, Joined, Zenon
<1>7. Local(w) /\ Holds(w, p)
    BY <1>0, <1>2, <1>5, Zenon DEF Onward, Local, Shaped, Holds, MineInv
<1>8. Kept /\ rows' = rows /\ fetches' \in {fetches, fetches + 1} /\ source' = source
    BY <1>0, Unwritten DEF Onward
<1>9. PlaceInv(w)' /\ PendingInv(w)'
    BY <1>0, <1>2, <1>3, <1>4, <1>8, Zenon DEF PlaceInv, PendingInv, Onward, Kept
<1>10. NetInv(w)'
    <2>1. <<"fetch">> \in Plans[source] /\ <<"fetch", "render">> \in Plans[source]
        BY <1>4 DEF Plans
    <2> QED
        BY <1>1, <1>3, <1>6, <1>8, <2>1, ZenonT(30) DEF NetInv
<1>11. Within(w, p)
    <2>1. /\ claims \in 0 .. MaxClaims /\ claims \in Nat /\ slots \in Nat /\ renders \in Nat /\ diagnostics \in Nat
          /\ claims' = claims /\ fetches' = fetches /\ diagnostics' = diagnostics
          /\ slots' = (IF p = "request" THEN slots + 1 ELSE slots)
          /\ renders' = (IF p = "await" THEN renders + 1 ELSE renders)
        BY <1>0, ClaimsAssumption DEF CountInv, Onward
    <2>2. Ind(p, Two) = 0 /\ Ind(p, One) = 0 /\ Ind(pc[w], Two) = 0 /\ Ind(pc[w], One) = 0
        BY <1>1 DEF Ind, Two, One
    <2>3. /\ Ind(p, Spending) = IF p = "budget" THEN 1 ELSE 0
          /\ Ind(pc[w], Spending) = IF p = "await" THEN 0 ELSE 1
          /\ Ind(p, Rendering) = IF p = "await" THEN 0 ELSE 1
          /\ Ind(pc[w], Rendering) = 1
        BY <1>1 DEF Ind, Spending, Rendering
    <2>4. slots' \in Nat /\ slots' + Ind(p, Spending) + claims <= slots + Ind(pc[w], Spending) + claims
        BY <1>1, <2>1, <2>3
    <2>5. renders' \in Nat /\ renders' + Ind(p, Rendering) + claims <= renders + Ind(pc[w], Rendering) + claims
        BY <1>1, <2>1, <2>3
    <2>6. fetches + 0 + 0 + 2 * claims <= fetches + 0 + 0 + 2 * claims
        BY <1>0, <2>1
    <2> QED
        BY <2>1, <2>2, <2>4, <2>5, <2>6, ZenonT(30) DEF Within
<1> QED
    BY <1>2, <1>3, <1>7, <1>8, <1>9, <1>10, <1>11, Stepping, Zenon

(* A decision of the policy names a gate. *)
LEMMA GateSteps ==
    ASSUME NEW g \in Gates
    PROVE  Explains(<<Step("render_policy", g)>>, "failed", "quality")
    BY Zenon DEF Explains

LEMMA DecisionsAreGates ==
    \A q, e, s, h, b \in BOOLEAN : Decide(q, e, s, h, b) \in Gates
    BY DEF Decide, Gates

LEMMA DeniedStep ==
    ASSUME CountingFacts, RunInv, NEW w \in Workers, pc[w] \in {"page", "budget"}, NEW g \in Gates, Denied(w, g)
    PROVE  RunInv'
<1>1. pc[w] \in Holding \cup {"blob", "again"}
    BY DEF Holding
<1>2. Rejects(w, "quality", <<Step("render_policy", g)>>) /\ "quality" \in QualityClass
    BY ClassesUsed DEF Denied
<1> QED
    BY <1>1, <1>2, GateSteps, RejectsStep, Zenon

LEMMA HtmlSteps ==
    ASSUME CountingFacts, RunInv, NEW w \in Workers,
           CompleteHtml(w) \/ SpendBudget(w) \/ RequestRender(w) \/ AwaitRender(w)
    PROVE  RunInv'
<1>0. pc[w] \in PlacesOf(source) /\ Shaped /\ NetInv(w) /\ "idle" \in {"idle", "archive"}
    BY DEF RunInv, WorkerInv, PlaceInv
<1>1. CASE CompleteHtml(w)
    <2>1. pc[w] = "page" /\ pc[w] # "idle" /\ pc[w] \in Holding \cup {"blob"} /\ pc[w] \in {"page", "budget"}
        BY <1>1 DEF CompleteHtml, At, Holding
    <2>2. ASSUME NEW cls \in {"artifact", "parse"}, Fails(w, cls, << >>) PROVE RunInv'
        BY <2>1, <2>2, FailsStep, ClassesUsed, NoSteps, Zenon
    <2>3. CASE Completes(w, << >>, "idle")
        BY <1>0, <2>1, <2>3, CompleteStep, IdleAnywhere, NoSteps, Zenon
    <2>4. ASSUME NEW g \in Gates, g = "escalate" => Goto(w, "budget") /\ UNCHANGED evidence /\ Rest,
                 g # "escalate" => Denied(w, g)
          PROVE  RunInv'
        <3>1. CASE g = "escalate"
            <4>1. Goto(w, "budget") /\ UNCHANGED evidence /\ Rest
                BY <2>4, <3>1, Zenon
            <4>2. Onward(w, "budget")
                BY <2>1, <4>1 DEF Onward, evidence, Rest
            <4> QED
                BY <4>2, OnwardStep, Zenon
        <3>2. CASE g # "escalate"
            BY <2>1, <2>4, <3>2, DeniedStep, Zenon
        <3> QED
            BY <3>1, <3>2
    <2>5. ASSUME NEW shell \in BOOLEAN, NEW host \in BOOLEAN,
                 IF Decide(TRUE, RenderEnabled, shell, host, TRUE) = "escalate"
                 THEN Goto(w, "budget") /\ UNCHANGED evidence /\ Rest
                 ELSE Denied(w, Decide(TRUE, RenderEnabled, shell, host, TRUE))
          PROVE  RunInv'
        <3>1. TRUE \in BOOLEAN
            OBVIOUS
        <3>2. Decide(TRUE, RenderEnabled, shell, host, TRUE) \in Gates
            BY <3>1, DecisionsAreGates, RenderAssumption, Zenon
        <3> QED
            BY <2>4, <2>5, <3>2, Zenon
    <2> QED
        BY <1>1, <2>2, <2>3, <2>5, Zenon DEF CompleteHtml
<1>2. CASE SpendBudget(w)
    <2>1. pc[w] = "budget"
        BY <1>2, Zenon DEF SpendBudget, At
    <2>2. CASE Denied(w, "daily_budget_exhausted")
        <3>1. pc[w] \in {"page", "budget"} /\ "daily_budget_exhausted" \in Gates
            BY <2>1 DEF Gates
        <3> QED
            BY <2>2, <3>1, DeniedStep, Zenon
    <2>3. CASE /\ slots' = slots + 1
               /\ Goto(w, "request")
               /\ UNCHANGED <<source, evidence, diagnostics, claims, fetches, renders, mine, pending, net>>
        <3>1. Onward(w, "request")
            BY <2>1, <2>3 DEF Onward, evidence
        <3> QED
            BY <3>1, OnwardStep, Zenon
    <2> QED
        BY <1>2, <2>2, <2>3, Zenon DEF SpendBudget
<1>3. CASE RequestRender(w)
    <2>1. /\ pc[w] = "request" /\ net' = [net EXCEPT ![w] = Append(@, "render")]
          /\ UNCHANGED source /\ UNCHANGED slots /\ UNCHANGED diagnostics /\ UNCHANGED claims /\ UNCHANGED fetches
          /\ UNCHANGED mine /\ UNCHANGED pending
        BY <1>3, Zenon DEF RequestRender, At
    <2>2. CASE renders' = renders + 1 /\ Goto(w, "await") /\ UNCHANGED evidence
        <3>1. Onward(w, "await")
            BY <2>1, <2>2 DEF Onward, evidence
        <3> QED
            BY <3>1, OnwardStep, Zenon
    <2>3. CASE renders' \in {renders, renders + 1} /\ FailRun("fetch", TRUE, << >>) /\ Goto(w, "again")
        <3>1. source \in {"plain", "provider"} /\ pc[w] # "idle"
            BY <1>0, <2>1 DEF PlacesOf, Ordinary
        <3>2. "again" \in Last /\ "again" \in PlacesOf(source) /\ <<"fetch", "render">> \in Plans[source]
            BY <3>1, SMTT(30) DEF Last, PlacesOf, Ordinary, Plans
        <3>3. net[w] = <<"fetch">>
            BY <1>0, <2>1 DEF NetInv
        <3>4. net'[w] = Append(net[w], "render") /\ DOMAIN net' = Workers /\ \A v \in Workers \ {w} : net'[v] = net[v]
            BY <1>0, <2>1, Zenon DEF Shaped
        <3>5. net'[w] = <<"fetch", "render">>
            BY <3>3, <3>4, Joined, Zenon
        <3>6. Leaves(w, "again")
            BY <2>1, <2>3, <3>2, <3>4, <3>5, Zenon DEF Leaves
        <3>7. "fetch" \in FailureClass /\ TRUE \in BOOLEAN
            BY ClassesUsed
        <3> QED
            BY <2>3, <3>1, <3>6, <3>7, FailStep, NoSteps, Zenon
    <2> QED
        BY <1>3, <2>2, <2>3, Zenon DEF RequestRender
<1>4. CASE AwaitRender(w)
    <2>1. pc[w] = "await" /\ pc[w] # "idle" /\ pc[w] \in Holding \cup {"blob"} /\ pc[w] \in Holding \cup {"blob", "again"}
        BY <1>4 DEF AwaitRender, At, Holding
    <2>2. "again" \in Last /\ "again" \in PlacesOf(source)
        BY <1>0, <2>1 DEF Last, PlacesOf, Ordinary
    <2>3. CASE Completes(w, << >>, "idle")
        BY <1>0, <2>1, <2>3, CompleteStep, IdleAnywhere, NoSteps, Zenon
    <2>4. CASE Reject(w, "quality", << >>) /\ Goto(w, "again") /\ Rest
        <3>1. Leaves(w, "again")
            BY <2>2, <2>4, RestLeaves, Zenon
        <3>2. "quality" \in QualityClass
            BY ClassesUsed
        <3> QED
            BY <2>1, <2>4, <3>1, <3>2, RejectStep, NoSteps, Zenon
    <2>5. ASSUME NEW cls \in FailureClass, NEW retry \in BOOLEAN, retry => cls = "fetch",
                 FailRun(cls, retry, << >>), Goto(w, "again"), Rest
          PROVE  RunInv'
        <3>1. Leaves(w, "again")
            BY <2>2, <2>5, RestLeaves, Zenon
        <3> QED
            BY <2>1, <2>5, <3>1, FailStep, NoSteps, Zenon
    <2>6. {"parse"} \cup RenderFailureClass \subseteq FailureClass /\ "fetch" \in FailureClass
          /\ TRUE \in BOOLEAN /\ FALSE \in BOOLEAN
        BY ClassesUsed
    <2> QED
        BY <1>4, <2>3, <2>4, <2>5, <2>6, Zenon DEF AwaitRender
<1> QED
    BY <1>1, <1>2, <1>3, <1>4, Zenon

-----------------------------------------------------------------------------
(* Retrieving.                                                             *)

Fetching == {"plain", "provider", "watch", "track", "fallback", "article"}

LEMMA FetchPlaces ==
    /\ DOMAIN AfterFetch = Fetching
    /\ AfterFetch["plain"] = "page" /\ AfterFetch["provider"] = "payload" /\ AfterFetch["watch"] = "player"
    /\ AfterFetch["track"] = "captions" /\ AfterFetch["fallback"] = "fallback_page"
    /\ AfterFetch["article"] = "article_page"
    BY DEF AfterFetch, Fetching

(* A retrieval is one its plan allows. *)
LEMMA FetchPlanned ==
    ASSUME NEW w \in Workers, PlaceInv(w), NetInv(w), pc[w] \in Fetching
    PROVE  /\ Append(net[w], "fetch") \in Plans[source]
           /\ pc[w] \in {"plain", "provider", "watch"} => Append(net[w], "fetch") = <<"fetch">>
<1>1. pc[w] \in {"plain", "provider", "watch"} => net[w] = << >>
    BY DEF NetInv
<1>2. net[w] = << >> \/ (net[w] = <<"fetch">> /\ pc[w] \in {"track", "article", "fallback"})
    BY DEF NetInv, Fetching
<1>3. source \in {"plain", "provider", "youtube"} /\ (pc[w] \in {"track", "article", "fallback"} => source # "plain")
    BY DEF PlaceInv, PlacesOf, Ordinary, Fetching
<1>4. <<"fetch">> \in Plans[source] /\ (source # "plain" => <<"fetch", "fetch">> \in Plans[source])
    BY <1>3 DEF Plans
<1> QED
    BY <1>1, <1>2, <1>3, <1>4, Joined, Zenon

LEMMA FetchStep ==
    ASSUME CountingFacts, RunInv, NEW w \in Workers, Fetch(w)
    PROVE  RunInv'
<1> DEFINE p == AfterFetch[pc[w]]
<1>0. /\ Shaped /\ WorkerInv(w) /\ CountInv /\ fetches \in Nat /\ OutcomeInv
      /\ MineInv(w) /\ PlaceInv(w) /\ PendingInv(w) /\ NetInv(w)
    BY DEF RunInv, RowsInv, WorkerInv
<1>1. /\ pc[w] \in Fetching /\ fetches' = fetches + 1 /\ Goto(w, p)
      /\ UNCHANGED source /\ UNCHANGED rows /\ UNCHANGED settled /\ UNCHANGED slots /\ UNCHANGED diagnostics
      /\ UNCHANGED claims /\ UNCHANGED renders /\ UNCHANGED pending
    BY FetchPlaces, Zenon DEF Fetch, evidence
<1>2. /\ mine'[w] = fetches + 1 /\ net'[w] = Append(net[w], "fetch")
      /\ mine' \in [Workers -> Nat] /\ DOMAIN net' = Workers
      /\ \A v \in Workers \ {w} : mine'[v] = mine[v] /\ net'[v] = net[v]
    <2>1. fetches + 1 \in Nat
        BY <1>0
    <2> QED
        BY <1>0, <2>1, Zenon DEF Fetch, Shaped
<1>3. \/ pc[w] = "plain" /\ p = "page"
      \/ pc[w] = "provider" /\ p = "payload"
      \/ pc[w] = "watch" /\ p = "player"
      \/ pc[w] = "track" /\ p = "captions"
      \/ pc[w] = "fallback" /\ p = "fallback_page"
      \/ pc[w] = "article" /\ p = "article_page"
    BY <1>1, FetchPlaces, ZenonT(30) DEF Fetching
<1> HIDE DEF p
<1>4. /\ p \in Places /\ p \in Holding /\ p \notin {"route", "blob", "again", "idle"} /\ pc[w] # "idle"
      /\ p \notin Fetching
    BY <1>3 DEF Places, AfterFetch, Holding, Fetching
<1>5. pc' = [pc EXCEPT ![w] = p] /\ pc'[w] = p
    BY <1>0, <1>1, Zenon DEF Goto, Shaped
<1>6. Local(w)
    BY <1>0, <1>1, <1>2, Zenon DEF Local, Shaped
<1>7. Holds(w, p)
    <2>1. fetches + 1 \in 0 .. fetches'
        BY <1>0, <1>1
    <2> QED
        BY <1>1, <1>2, <1>4, <2>1, Zenon DEF Holds
<1>8. Kept /\ rows' = rows /\ fetches' \in {fetches, fetches + 1} /\ source' = source
    BY <1>0, <1>1, Unwritten
<1>9. PlaceInv(w)'
    <2>1. p \in PlacesOf(source)
        BY <1>0, <1>3, ZenonT(30) DEF PlaceInv, PlacesOf, Ordinary
    <2> QED
        BY <1>0, <1>4, <1>5, <1>8, <2>1 DEF PlaceInv, Kept
<1>10. PendingInv(w)'
    <2>1. pending'[w] = pending[w]
        BY <1>1, Zenon
    <2> QED
        BY <1>0, <1>3, <1>5, <2>1, Zenon DEF PendingInv
<1>11. NetInv(w)'
    <2>1. net'[w] \in Plans[source] /\ (pc[w] \in {"plain", "provider", "watch"} => net'[w] = <<"fetch">>)
        BY <1>0, <1>1, <1>2, FetchPlanned, Zenon
    <2> QED
        BY <1>3, <1>5, <1>8, <2>1 DEF NetInv
<1>12. Within(w, p)
    <2>1. /\ claims \in 0 .. MaxClaims /\ claims \in Nat /\ slots \in Nat /\ renders \in Nat /\ diagnostics \in Nat
          /\ claims' = claims /\ slots' = slots /\ diagnostics' = diagnostics /\ renders' = renders
        BY <1>0, <1>1, ClaimsAssumption DEF CountInv
    <2>2. /\ Ind(p, Two) = 0 /\ Ind(p, One) = (IF p \in {"payload", "player"} THEN 1 ELSE 0)
          /\ Ind(pc[w], Two) = (IF p \in {"payload", "player"} THEN 1 ELSE 0) /\ Ind(pc[w], One) = 1
        BY <1>3 DEF Ind, Two, One
    <2>3. /\ Ind(p, Spending) = Ind(pc[w], Spending) /\ Ind(p, Rendering) = Ind(pc[w], Rendering)
          /\ Ind(pc[w], Spending) \in Nat /\ Ind(pc[w], Rendering) \in Nat
        BY <1>3 DEF Ind, Spending, Rendering
    <2>4. slots + Ind(p, Spending) + claims <= slots + Ind(pc[w], Spending) + claims
        BY <2>1, <2>3
    <2>5. renders + Ind(p, Rendering) + claims <= renders + Ind(pc[w], Rendering) + claims
        BY <2>1, <2>3
    <2>6. fetches' + Ind(p, Two) + Ind(p, One) + 2 * claims <= fetches + Ind(pc[w], Two) + Ind(pc[w], One) + 2 * claims
        BY <1>0, <1>1, <2>1, <2>2
    <2> QED
        BY <2>1, <2>4, <2>5, <2>6, Zenon DEF Within
<1> QED
    BY <1>4, <1>5, <1>6, <1>7, <1>8, <1>9, <1>10, <1>11, <1>12, Stepping, ZenonT(30)

LEMMA FetchFailsStep ==
    ASSUME CountingFacts, RunInv, NEW w \in Workers, FetchFails(w)
    PROVE  RunInv'
<1>0. Shaped /\ PlaceInv(w) /\ PendingInv(w) /\ NetInv(w)
    BY DEF RunInv, WorkerInv
<1>1. pc[w] \in Fetching
    BY FetchPlaces, Zenon DEF FetchFails
<1>2. net'[w] = Append(net[w], "fetch") /\ DOMAIN net' = Workers /\ \A v \in Workers \ {w} : net'[v] = net[v]
    BY <1>0, Zenon DEF FetchFails, Shaped
<1>3. net'[w] \in Plans[source]
    BY <1>0, <1>1, <1>2, FetchPlanned, Zenon
<1>4. Leaves(w, "idle")
    BY <1>2, <1>3, IdleAnywhere, Zenon DEF Leaves, FetchFails
<1>5. PICK ss : ss = pending[w] \o FailedStep(pc[w])
    BY Zenon
<1>6. \A cls : Explains(ss, "failed", cls)
    <2>1. pc[w] \in {"plain", "provider", "watch", "track", "fallback", "article", "fallback_page", "article_page"}
        BY <1>1 DEF Fetching
    <2> QED
        BY <1>0, <1>5, <2>1, Collected, Zenon
<1>7. \/ \E retry \in BOOLEAN : FailRun("fetch", retry, ss)
      \/ FailRun("policy", FALSE, ss)
    BY <1>5, Zenon DEF FetchFails
<1>8. pc[w] # "idle" /\ "fetch" \in FailureClass /\ "policy" \in FailureClass /\ FALSE \in BOOLEAN
    BY <1>1, ClassesUsed DEF Fetching
<1>9. CASE FailRun("policy", FALSE, ss)
    BY <1>4, <1>6, <1>8, <1>9, FailStep, Zenon
<1>10. ASSUME NEW retry \in BOOLEAN, FailRun("fetch", retry, ss) PROVE RunInv'
    BY <1>4, <1>6, <1>8, <1>10, FailStep, Zenon
<1> QED
    BY <1>7, <1>9, <1>10, Zenon

-----------------------------------------------------------------------------
(* Continuations: the retrieval in hand is recorded and another one begins. *)

LEMMA ContinueStep ==
    ASSUME CountingFacts, RunInv, NEW w \in Workers, NEW p, NEW ss, ContinuesAt(w, p, ss),
           \/ pc[w] = "payload" /\ p = "article" /\ ss = Attempted("ok")
           \/ pc[w] = "payload" /\ p = "fallback" /\ ss = Attempted("failed")
           \/ pc[w] = "player" /\ p = "fallback" /\ ss = Attempted("failed")
           \/ pc[w] = "player" /\ p = "track" /\ ss = << >>
    PROVE  RunInv'
<1>0. /\ Shaped /\ WorkerInv(w) /\ CountInv /\ fetches \in Nat /\ OutcomeInv
      /\ MineInv(w) /\ PlaceInv(w) /\ PendingInv(w) /\ NetInv(w)
    BY DEF RunInv, RowsInv, WorkerInv
<1>1. /\ Goto(w, p) /\ rows' = Append(rows, mine[w])
      /\ UNCHANGED source /\ UNCHANGED settled /\ UNCHANGED slots /\ UNCHANGED diagnostics /\ UNCHANGED fetches
      /\ UNCHANGED claims /\ UNCHANGED renders /\ UNCHANGED mine /\ UNCHANGED net
    BY Zenon DEF ContinuesAt, RecordFetch
<1>2. pending'[w] = ss /\ DOMAIN pending' = Workers /\ \A v \in Workers \ {w} : pending'[v] = pending[v]
    BY <1>0, ZenonT(30) DEF ContinuesAt, Shaped
<1>3. /\ p \in Places /\ p \notin Holding /\ p \notin {"route", "blob", "again", "idle"} /\ pc[w] # "idle"
      /\ pc[w] \in Holding
    BY DEF Places, AfterFetch, Holding
<1>4. pc' = [pc EXCEPT ![w] = p] /\ pc'[w] = p
    BY <1>0, <1>1, Zenon DEF Goto, Shaped
<1>5. Local(w)
    BY <1>0, <1>1, <1>2, Zenon DEF Local, Shaped
<1>6. Holds(w, p) /\ Records(w)
    BY <1>0, <1>1, <1>3, Zenon DEF Holds, Records, MineInv
<1>7. Kept /\ fetches' \in {fetches, fetches + 1} /\ source' = source
    BY <1>0, <1>1, Unwritten
<1>8. PlaceInv(w)'
    <2>1. p \in PlacesOf(source)
        BY <1>0, ZenonT(30) DEF PlaceInv, PlacesOf, Ordinary
    <2> QED
        BY <1>0, <1>3, <1>4, <1>7, <2>1 DEF PlaceInv, Kept
<1>9. PendingInv(w)'
    BY <1>2, <1>4 DEF PendingInv
<1>10. NetInv(w)'
    <2>1. net'[w] = <<"fetch">> /\ net'[w] \in Plans[source']
        BY <1>0, <1>1 DEF NetInv
    <2> QED
        BY <1>4, <2>1, ZenonT(30) DEF NetInv
<1>11. Within(w, p)
    <2>1. /\ claims \in 0 .. MaxClaims /\ claims \in Nat /\ slots \in Nat /\ renders \in Nat /\ diagnostics \in Nat
          /\ claims' = claims /\ slots' = slots /\ diagnostics' = diagnostics /\ renders' = renders /\ fetches' = fetches
        BY <1>0, <1>1, ClaimsAssumption DEF CountInv
    <2>2. /\ Ind(p, Two) = 0 /\ Ind(p, One) = 1 /\ Ind(pc[w], Two) = 0 /\ Ind(pc[w], One) = 1
          /\ Ind(p, Spending) = 0 /\ Ind(pc[w], Spending) = 0 /\ Ind(p, Rendering) = 0 /\ Ind(pc[w], Rendering) = 0
        BY DEF Ind, Two, One, Spending, Rendering
    <2>3. /\ slots + 0 + claims <= slots + 0 + claims
          /\ renders + 0 + claims <= renders + 0 + claims
          /\ fetches + 0 + 1 + 2 * claims <= fetches + 0 + 1 + 2 * claims
        BY <1>0, <2>1
    <2> QED
        BY <2>1, <2>2, <2>3, Zenon DEF Within
<1> QED
    BY <1>1, <1>3, <1>4, <1>5, <1>6, <1>7, <1>8, <1>9, <1>10, <1>11, Stepping, ZenonT(30)

LEMMA ContinuationSteps ==
    ASSUME CountingFacts, RunInv, NEW w \in Workers, CompleteProvider(w) \/ WatchPage(w)
    PROVE  RunInv'
<1>0. "idle" \in {"idle", "archive"}
    OBVIOUS
<1>1. CASE CompleteProvider(w)
    <2>1. /\ pc[w] = "payload" /\ pc[w] # "idle" /\ pc[w] \in Holding \cup {"blob"}
          /\ pc[w] \in Holding \cup {"blob", "again"}
        BY <1>1 DEF CompleteProvider, At, Holding
    <2>2. ASSUME NEW cls \in {"artifact", "parse"}, Fails(w, cls, << >>) PROVE RunInv'
        BY <2>1, <2>2, FailsStep, ClassesUsed, NoSteps, Zenon
    <2>3. CASE Completes(w, << >>, "idle")
        BY <1>0, <2>1, <2>3, CompleteStep, IdleAnywhere, NoSteps, Zenon
    <2>4. CASE Rejects(w, "provider_low_quality", << >>)
        BY <2>1, <2>4, RejectsStep, ClassesUsed, NoSteps
    <2>5. CASE ContinuesAt(w, "fallback", Attempted("failed"))
        BY <2>1, <2>5, ContinueStep, Zenon
    <2>6. CASE ContinuesAt(w, "article", Attempted("ok"))
        BY <2>1, <2>6, ContinueStep, Zenon
    <2> QED
        BY <1>1, <2>2, <2>3, <2>4, <2>5, <2>6, Zenon DEF CompleteProvider
<1>2. CASE WatchPage(w)
    <2>1. /\ pc[w] = "player" /\ pc[w] # "idle" /\ pc[w] \in Holding \cup {"blob"}
          /\ pc[w] \in Holding \cup {"blob", "again"}
        BY <1>2 DEF WatchPage, At, Holding
    <2>2. ASSUME NEW cls \in {"artifact", "parse"}, Fails(w, cls, << >>) PROVE RunInv'
        BY <2>1, <2>2, FailsStep, ClassesUsed, NoSteps, Zenon
    <2>3. ASSUME NEW cls \in {"youtube_no_language_match", "youtube_no_transcript"}, Rejects(w, cls, << >>)
          PROVE  RunInv'
        BY <2>1, <2>3, RejectsStep, ClassesUsed, NoSteps, Zenon
    <2>4. CASE ContinuesAt(w, "fallback", Attempted("failed"))
        BY <2>1, <2>4, ContinueStep, Zenon
    <2>5. CASE ContinuesAt(w, "track", << >>)
        BY <2>1, <2>5, ContinueStep, Zenon
    <2> QED
        BY <1>2, <2>2, <2>3, <2>4, <2>5, Zenon DEF WatchPage
<1> QED
    BY <1>1, <1>2

-----------------------------------------------------------------------------
(* Claiming, routing, and the ways an execution ends without a statement.  *)

LEMMA ClaimStep ==
    ASSUME CountingFacts, RunInv, NEW w \in Workers, Claim(w)
    PROVE  RunInv'
<1>0. /\ Shaped /\ CountInv /\ fetches \in Nat /\ OutcomeInv
    BY DEF RunInv, RowsInv
<1>1. /\ pc[w] = "idle" /\ status \in {"queued", "running"} /\ status' = "running" /\ claims < MaxClaims
      /\ claims' = claims + 1
      /\ UNCHANGED source /\ UNCHANGED class /\ UNCHANGED retryable /\ UNCHANGED rows /\ UNCHANGED documents
      /\ UNCHANGED candidates /\ UNCHANGED steps /\ UNCHANGED slots /\ UNCHANGED diagnostics /\ UNCHANGED fetches
      /\ UNCHANGED renders
    BY Zenon DEF Claim, At
<1>2. /\ pc' = [pc EXCEPT ![w] = "route"] /\ pc'[w] = "route"
      /\ mine'[w] = 0 /\ pending'[w] = << >> /\ net'[w] = << >>
    BY <1>0, Zenon DEF Claim, Goto, Shaped
<1>3. Local(w)
    <2>1. 0 \in Nat
        OBVIOUS
    <2> QED
        BY <1>0, <2>1, Zenon DEF Claim, Local, Shaped
<1>4. "route" \in Places /\ "route" \notin Holding /\ "route" \in PlacesOf(source)
    BY DEF Places, Holding, PlacesOf
<1>5. OutcomeInv'
    <2>1. status \notin Terminal /\ status # "succeeded" /\ status # "failed" /\ status' \notin Terminal
          /\ status' # "succeeded" /\ status' # "failed" /\ status' \in {"queued", "running"} \cup Terminal
        BY <1>1 DEF Terminal
    <2>2. steps = << >> /\ steps' = << >>
        BY <1>0, <1>1, <2>1, Zenon DEF OutcomeInv
    <2>3. Explains(steps, status, class)'
        BY <2>2, Zenon DEF Explains
    <2> QED
        BY <1>0, <1>1, <2>1, <2>2, <2>3, Zenon DEF OutcomeInv
<1>6. Kept
    BY <1>1, <1>5 DEF Kept, Terminal
<1>7. Holds(w, "route") /\ fetches' \in {fetches, fetches + 1}
    <2>1. 0 \in 0 .. fetches'
        BY <1>0, <1>1
    <2> QED
        BY <1>1, <1>2, <1>4, <2>1 DEF Holds
<1>8. PlaceInv(w)' /\ PendingInv(w)'
    BY <1>1, <1>2, <1>4 DEF PlaceInv, PendingInv
<1>9. NetInv(w)'
    <2>1. << >> \in Plans[source]
        BY <1>0, EmptyPlan, Zenon DEF OutcomeInv
    <2> QED
        BY <1>1, <1>2, <2>1, ZenonT(30) DEF NetInv
<1>10. Within(w, "route")
    <2>1. /\ claims \in Nat /\ claims' \in 0 .. MaxClaims /\ slots \in Nat /\ renders \in Nat /\ diagnostics \in Nat
        BY <1>0, <1>1, ClaimsAssumption DEF CountInv
    <2>2. /\ Ind("route", Two) = 1 /\ Ind("route", One) = 1 /\ Ind("idle", Two) = 0 /\ Ind("idle", One) = 0
          /\ Ind("route", Spending) = 1 /\ Ind("idle", Spending) = 0
          /\ Ind("route", Rendering) = 1 /\ Ind("idle", Rendering) = 0
        BY DEF Ind, Two, One, Spending, Rendering
    <2>3. /\ slots + 1 + claims <= slots + 0 + claims'
          /\ renders + 1 + claims <= renders + 0 + claims'
          /\ fetches + 1 + 1 + 2 * claims <= fetches + 0 + 0 + 2 * claims'
        BY <1>0, <1>1, <2>1
    <2> QED
        BY <1>1, <2>1, <2>2, <2>3, ZenonT(30) DEF Within
<1> QED
    BY <1>1, <1>2, <1>3, <1>4, <1>6, <1>7, <1>8, <1>9, <1>10, Stepping, ZenonT(30)

LEMMA RouteStep ==
    ASSUME CountingFacts, RunInv, NEW w \in Workers, Route(w)
    PROVE  RunInv'
<1>0. /\ Shaped /\ CountInv /\ fetches \in Nat /\ OutcomeInv
      /\ MineInv(w) /\ PlaceInv(w) /\ PendingInv(w) /\ NetInv(w)
    BY DEF RunInv, RowsInv, WorkerInv
<1>1. /\ pc[w] = "route"
      /\ UNCHANGED source /\ UNCHANGED rows /\ UNCHANGED settled /\ UNCHANGED slots /\ UNCHANGED diagnostics
      /\ UNCHANGED claims /\ UNCHANGED fetches /\ UNCHANGED renders /\ UNCHANGED mine /\ UNCHANGED net
    BY ZenonT(30) DEF Route, At, evidence
<1>2. pending[w] = << >> /\ mine[w] = 0 /\ net[w] = << >> /\ net[w] \in Plans[source] /\ status # "queued"
    BY <1>0, <1>1 DEF PendingInv, MineInv, NetInv, PlaceInv
<1>3. PICK p : /\ Goto(w, p)
               /\ \/ p = "blob" /\ source = "blob" /\ UNCHANGED pending
                  \/ p = "provider" /\ source = "provider" /\ UNCHANGED pending
                  \/ p = "watch" /\ source = "youtube" /\ UNCHANGED pending
                  \/ p = "plain" /\ source \in {"plain", "provider"} /\ UNCHANGED pending
                  \/ /\ p = "fallback" /\ source = "youtube"
                     /\ pending' = [pending EXCEPT ![w] = Attempted("failed")]
    BY ZenonT(30) DEF Route
<1>4. /\ DOMAIN pending' = Workers /\ \A v \in Workers \ {w} : pending'[v] = pending[v]
      /\ pending'[w] = IF p = "fallback" THEN Attempted("failed") ELSE << >>
    <2>1. CASE p = "fallback"
        BY <1>0, <1>3, <2>1 DEF Shaped
    <2>2. CASE p # "fallback"
        BY <1>0, <1>2, <1>3, <2>2, Zenon DEF Shaped
    <2> QED
        BY <2>1, <2>2, ZenonT(30)
<1>5. p \in {"blob", "provider", "watch", "plain", "fallback"}
    BY <1>3
<1>6. p \in Places /\ p \notin Holding /\ p \notin {"again", "idle"}
    BY <1>5 DEF Places, AfterFetch, Holding
<1>7. pc' = [pc EXCEPT ![w] = p] /\ pc'[w] = p
    BY <1>0, <1>3, Zenon DEF Goto, Shaped
<1>8. Local(w) /\ Holds(w, p)
    BY <1>0, <1>1, <1>2, <1>4, <1>6, Zenon DEF Local, Shaped, Holds, MineInv
<1>9. Kept /\ fetches' \in {fetches, fetches + 1} /\ source' = source
    BY <1>0, <1>1, Unwritten
<1>10. PlaceInv(w)'
    <2>1. p \in PlacesOf(source)
        BY <1>3 DEF PlacesOf, Ordinary
    <2> QED
        BY <1>2, <1>6, <1>7, <1>9, <2>1 DEF PlaceInv, Kept
<1>11. PendingInv(w)'
    BY <1>4, <1>5, <1>7 DEF PendingInv
<1>12. NetInv(w)'
    <2>1. net'[w] = << >> /\ net'[w] \in Plans[source']
        BY <1>1, <1>2
    <2> QED
        BY <1>5, <1>7, <2>1 DEF NetInv
<1>13. Within(w, p)
    <2>1. /\ claims \in 0 .. MaxClaims /\ claims \in Nat /\ slots \in Nat /\ renders \in Nat /\ diagnostics \in Nat
          /\ claims' = claims /\ slots' = slots /\ diagnostics' = diagnostics /\ renders' = renders /\ fetches' = fetches
        BY <1>0, <1>1, ClaimsAssumption DEF CountInv
    <2>2. /\ Ind(pc[w], Two) = 1 /\ Ind(pc[w], One) = 1 /\ Ind(pc[w], Spending) = 1 /\ Ind(pc[w], Rendering) = 1
        BY <1>1 DEF Ind, Two, One, Spending, Rendering
    <2>3. Ind(p, Two) \in 0 .. 1 /\ Ind(p, One) \in 0 .. 1 /\ Ind(p, Spending) \in 0 .. 1 /\ Ind(p, Rendering) \in 0 .. 1
        BY DEF Ind
    <2>4. /\ slots + Ind(p, Spending) + claims <= slots + 1 + claims
          /\ renders + Ind(p, Rendering) + claims <= renders + 1 + claims
          /\ fetches + Ind(p, Two) + Ind(p, One) + 2 * claims <= fetches + 1 + 1 + 2 * claims
        BY <1>0, <2>1, <2>3
    <2> QED
        BY <2>1, <2>2, <2>4, Zenon DEF Within
<1> QED
    BY <1>1, <1>6, <1>7, <1>8, <1>9, <1>10, <1>11, <1>12, <1>13, Stepping, Zenon

LEMMA LeavingSteps ==
    ASSUME CountingFacts, RunInv, NEW w \in Workers, ArchiveAndDiagnose(w) \/ Stops(w)
    PROVE  RunInv'
<1>0. OutcomeInv /\ net[w] \in Plans[source] /\ DOMAIN net = Workers
    BY Zenon DEF RunInv, Shaped, WorkerInv, NetInv
<1>1. pc[w] # "idle"
    BY ZenonT(30) DEF ArchiveAndDiagnose, Stops, At
<1>2. Kept /\ rows' = rows
    <2>1. UNCHANGED source /\ UNCHANGED settled /\ UNCHANGED rows
        BY Zenon DEF ArchiveAndDiagnose, Stops, Rest, evidence
    <2> QED
        BY <1>0, <2>1, Unwritten
<1>3. Leaves(w, "idle")
    <2>1. CASE ArchiveAndDiagnose(w)
        BY <1>0, <2>1, IdleAnywhere, Zenon DEF ArchiveAndDiagnose, Leaves
    <2>2. CASE Stops(w)
        BY <2>2, IdleAnywhere, RestLeaves, Zenon DEF Stops
    <2> QED
        BY <2>1, <2>2
<1> QED
    BY <1>1, <1>2, <1>3, LeaveStep

-----------------------------------------------------------------------------
(* The invariant.                                                          *)

LEMMA RunInit ==
    ASSUME CountingFacts, Init
    PROVE  RunInv
<1>1. Shaped
    <2>1. "idle" \in Places /\ 0 \in Nat
        BY DEF Places
    <2> QED
        BY <2>1, Zenon DEF Init, Shaped
<1>2. \A w \in Workers : pc[w] = "idle" /\ mine[w] = 0 /\ pending[w] = << >> /\ net[w] = << >>
    BY Zenon DEF Init
<1>3. OutcomeInv
    BY ClassesApart, Zenon DEF Init, OutcomeInv, Terminal, Explains
<1>4. ~Recorded(0) /\ RowsInv
    BY DEF Init, RowsInv, NoDoubleInsert, Recorded
<1>5. "idle" \notin Holding \cup Two \cup One \cup Spending \cup Rendering
    BY DEF Holding, Two, One, Spending, Rendering
<1>6. ASSUME NEW w \in Workers PROVE WorkerInv(w)
    <2>1. << >> \in Plans[source]
        BY EmptyPlan, Zenon DEF Init
    <2>2. MineInv(w)
        BY <1>2, <1>5, SMTT(30) DEF MineInv, Init
    <2>3. PlaceInv(w) /\ PendingInv(w) /\ NetInv(w)
        BY <1>2, <2>1, IdleAnywhere DEF PlaceInv, PendingInv, NetInv
    <2> QED
        BY <2>2, <2>3 DEF WorkerInv
<1>7. Apart
    BY <1>2, <1>5, Zenon DEF Apart
<1>8. CountInv
    <2>1. In(Two) = {} /\ In(One) = {} /\ In(Spending) = {} /\ In(Rendering) = {}
        BY <1>2, <1>5, Zenon DEF In
    <2>2. Cardinality({}) = 0
        BY Zenon DEF CountingFacts
    <2>3. claims = 0 /\ slots = 0 /\ renders = 0 /\ diagnostics = 0 /\ fetches = 0
        BY Zenon DEF Init
    <2> QED
        BY <2>1, <2>2, <2>3, ClaimsAssumption DEF CountInv
<1> QED
    BY <1>1, <1>3, <1>4, <1>6, <1>7, <1>8, Zenon DEF RunInv

LEMMA RunStep ==
    ASSUME CountingFacts, RunInv, [Next]_vars
    PROVE  RunInv'
<1>1. CASE UNCHANGED vars
    <2>1. /\ UNCHANGED <<source, status, class, retryable, rows, documents, candidates, steps>>
          /\ UNCHANGED <<slots, diagnostics, claims, fetches, renders, pc, mine, pending, net>>
        BY <1>1, Zenon DEF vars, evidence, settled
    <2>2. OutcomeInv' /\ RowsInv' /\ CountInv'
        BY <2>1, Zenon DEF RunInv, OutcomeInv, RowsInv, NoDoubleInsert, Recorded, CountInv, In
    <2>3. Shaped' /\ Apart'
        BY <2>1, Zenon DEF RunInv, Shaped, Apart
    <2>4. ASSUME NEW w \in Workers PROVE WorkerInv(w)'
        BY <2>1, Zenon DEF RunInv, WorkerInv, MineInv, PlaceInv, PendingInv, NetInv, Recorded
    <2> QED
        BY <2>2, <2>3, <2>4, Zenon DEF RunInv
<1>2. ASSUME NEW w \in Workers, Claim(w) PROVE RunInv'
    BY <1>2, ClaimStep, Zenon
<1>3. ASSUME NEW w \in Workers, PollFindsNothing(w) PROVE RunInv'
    BY <1>1, <1>3, Zenon DEF PollFindsNothing
<1>4. ASSUME NEW w \in Workers, Stops(w) PROVE RunInv'
    BY <1>4, LeavingSteps, Zenon
<1>5. ASSUME NEW w \in Workers, Execute(w) PROVE RunInv'
    <2>1. CASE Route(w) \/ Fetch(w) \/ FetchFails(w)
        BY <2>1, RouteStep, FetchStep, FetchFailsStep, Zenon
    <2>2. CASE CompleteHtml(w) \/ SpendBudget(w) \/ RequestRender(w) \/ AwaitRender(w)
        BY <2>2, HtmlSteps, Zenon
    <2>3. CASE \/ UnsupportedMedia(w) \/ CompletePdf(w) \/ CompleteBlobPdf(w) \/ RejectAgain(w)
               \/ ResolveExternalArticle(w) \/ FallbackToGenericHtml(w) \/ Captions(w)
        BY <2>3, EndSteps, Zenon
    <2>4. CASE CompleteProvider(w) \/ WatchPage(w)
        BY <2>4, ContinuationSteps, Zenon
    <2>5. CASE ArchiveAndDiagnose(w)
        BY <2>5, LeavingSteps, Zenon
    <2> QED
        BY <1>5, <2>1, <2>2, <2>3, <2>4, <2>5, Zenon DEF Execute
<1> QED
    BY <1>1, <1>2, <1>3, <1>4, <1>5, Zenon DEF Next

LEMMA RunInvariance ==
    ASSUME CountingFacts
    PROVE  Spec => []RunInv
<1>1. Init => RunInv
    BY RunInit, Zenon
<1>2. RunInv /\ [Next]_vars => RunInv'
    BY RunStep, Zenon
<1> QED
    BY <1>1, <1>2, PTL DEF Spec

(* What the invariant says of the types. *)
LEMMA RunTyped ==
    ASSUME CountingFacts, RunInv
    PROVE  TypeOK
<1>1. /\ source \in Sources
      /\ status \in {"queued", "running"} \cup Terminal
      /\ class \in {"none"} \cup FailureClass \cup QualityClass
      /\ retryable \in BOOLEAN
      /\ candidates \in {"none", "rejected", "selected"}
    BY Zenon DEF RunInv, OutcomeInv
<1>2. documents \in Nat /\ diagnostics \in Nat
    BY DEF RunInv, OutcomeInv, CountInv
<1>3. \A i \in 1 .. Len(rows) : rows[i] \in 0 .. fetches
    BY DEF RunInv, RowsInv
<1>4. \A i \in 1 .. Len(steps) : steps[i].kind \in StepKinds
    <2>1. Explains(steps, status, class)
        BY DEF RunInv, OutcomeInv
    <2>2. CASE steps = << >>
        BY <2>2
    <2>3. ASSUME NEW g \in Gates, steps = <<Step("render_policy", g)>> PROVE \A i \in 1 .. Len(steps) : steps[i].kind \in StepKinds
        BY <2>3 DEF Step, StepKinds
    <2>4. ASSUME NEW o, NEW a, NEW k, steps = <<Step("provider_attempt", a), Step(k, o)>>,
                 k \in {"resolved_target", "html_fallback"}
          PROVE  \A i \in 1 .. Len(steps) : steps[i].kind \in StepKinds
        BY <2>4 DEF Step, StepKinds
    <2> QED
        BY <2>1, <2>2, <2>3, <2>4 DEF Explains
<1>5. /\ slots \in 0 .. MaxClaims /\ renders \in 0 .. MaxClaims /\ claims \in 0 .. MaxClaims
      /\ fetches \in 0 .. 2 * MaxClaims
    <2>1. \A Q : In(Q) \subseteq Workers
        BY Zenon DEF In
    <2>2. \A Q : Cardinality(In(Q)) \in Nat
        BY <2>1, WorkersAssumption, Zenon DEF CountingFacts
    <2>3. CountInv /\ fetches \in Nat
        BY DEF RunInv, RowsInv
    <2> QED
        BY <2>2, <2>3, ClaimsAssumption DEF CountInv
<1>6. pc \in [Workers -> Places]
    BY Zenon DEF RunInv, Shaped
<1>7. mine \in [Workers -> 0 .. fetches]
    <2>1. mine \in [Workers -> Nat] /\ \A w \in Workers : mine[w] \in 0 .. fetches
        BY Zenon DEF RunInv, Shaped, WorkerInv, MineInv
    <2> QED
        BY <2>1, Zenon
<1>8. ASSUME NEW w \in Workers PROVE Len(pending[w]) <= 1 /\ Len(net[w]) <= 2
    <2>1. pending[w] \in {<< >>, Attempted("ok"), Attempted("failed")}
        BY ZenonT(30) DEF RunInv, WorkerInv, PendingInv
    <2>2. net[w] \in {<< >>, <<"fetch">>, <<"fetch", "fetch">>, <<"fetch", "render">>}
        <3>1. source \in Sources /\ net[w] \in Plans[source]
            BY Zenon DEF RunInv, OutcomeInv, WorkerInv, NetInv
        <3> QED
            BY ONLY <3>1, SourcesAssumption DEF Plans, Classes
    <2>3. Len(<< >>) <= 1 /\ \A x : Len(<<x>>) <= 1
        OBVIOUS
    <2>4. Len(<< >>) <= 2 /\ \A x, y : Len(<<x>>) <= 2 /\ Len(<<x, y>>) <= 2
        OBVIOUS
    <2> QED
        BY <2>1, <2>2, <2>3, <2>4, Zenon DEF Attempted
<1> QED
    BY <1>1, <1>2, <1>3, <1>4, <1>5, <1>6, <1>7, <1>8, Zenon DEF TypeOK

(* What the invariant says of the resolution steps. *)
LEMMA RunExplained ==
    ASSUME RunInv
    PROVE  StepsExplainOutcome
<1>1. Explains(steps, status, class)
    BY DEF RunInv, OutcomeInv
<1>2. ASSUME NEW g \in Gates, steps = <<Step("render_policy", g)>>, class = "quality" PROVE StepsExplainOutcome
    BY <1>2 DEF Step, StepsExplainOutcome
<1>3. ASSUME NEW o, NEW a, NEW k, steps = <<Step("provider_attempt", a), Step(k, o)>>,
             k = IF a = "ok" THEN "resolved_target" ELSE "html_fallback",
             (o = "ok") = (status = "succeeded"), status \in Terminal
      PROVE  StepsExplainOutcome
    <2>1. Len(steps) = 2 /\ steps[1].kind = "provider_attempt" /\ steps[1].outcome = a
          /\ steps[2].kind = k /\ steps[2].outcome = o
        BY <1>3 DEF Step
    <2> QED
        BY <1>3, <2>1, Zenon DEF StepsExplainOutcome
<1>4. ASSUME NEW o \in {"ok", "failed"},
             steps \in {<<Step("provider_attempt", "ok"), Step("resolved_target", o)>>,
                        <<Step("provider_attempt", "failed"), Step("html_fallback", o)>>},
             (o = "ok") = (status = "succeeded"), status \in Terminal
      PROVE  StepsExplainOutcome
    BY <1>3, <1>4
<1>5. CASE steps = << >>
    BY <1>5, Zenon DEF StepsExplainOutcome
<1> QED
    BY <1>1, <1>2, <1>4, <1>5, Zenon DEF Explains

-----------------------------------------------------------------------------
(* The results that rest on counting.                                      *)

INSTANCE FiniteSetTheorems

LEMMA Counting == CountingFacts
    BY FS_CardinalityType, FS_Subset, FS_AddElement, FS_RemoveElement, FS_EmptySet, ZenonT(30) DEF CountingFacts

(* No retrieval of a run is recorded twice, however many workers execute   *)
(* it at once and wherever they stop.                                      *)
THEOREM NoRetrievalRecordedTwice == Spec => []NoDoubleInsert
<1>1. RunInv => NoDoubleInsert
    BY ZenonT(30) DEF RunInv, RowsInv
<1> QED
    BY <1>1, Counting, RunInvariance, PTL

(* The document, the candidates, the class and the retry flag are those of *)
(* the outcome, and the claims bound the retrievals, the render slots and  *)
(* the render commands of a run.                                           *)
THEOREM EvidenceIsOfTheOutcome == Spec => []EvidenceMatchesOutcome
<1>1. RunInv => EvidenceMatchesOutcome
    <2> SUFFICES ASSUME RunInv PROVE EvidenceMatchesOutcome
        OBVIOUS
    <2>1. TypeOK
        BY Counting, RunTyped, ZenonT(30)
    <2> QED
        BY <2>1 DEF EvidenceMatchesOutcome, RunInv, OutcomeInv
<1> QED
    BY <1>1, Counting, RunInvariance, PTL

(* The resolution steps of a run explain its outcome. *)
THEOREM StepsAlwaysExplain == Spec => []StepsExplainOutcome
<1>1. RunInv => StepsExplainOutcome
    BY RunExplained
<1> QED
    BY <1>1, Counting, RunInvariance, PTL

(* Every execution performs one of the network plans of its source. *)
THEOREM ExecutionsFollowPlans == Spec => []NetworkPlan
<1>1. RunInv => NetworkPlan
    BY Zenon DEF RunInv, WorkerInv, NetInv, NetworkPlan
<1> QED
    BY <1>1, Counting, RunInvariance, PTL
=============================================================================
