------------------------------ MODULE RunFlow ------------------------------
(***************************************************************************)
(* process_run: what a worker does with one claimed run, from routing to   *)
(* the terminal transaction, and the evidence it leaves in the database.   *)
(*                                                                         *)
(* One run is followed.  Several workers may execute it at once, because a *)
(* claim lapses with time and nothing renews it; a worker may also stop    *)
(* between any two steps.  What retrieval, conversion and the browser      *)
(* worker answer is open: each branch of the code is a disjunct.           *)
(***************************************************************************)
EXTENDS NetworkPlans, Naturals, Sequences, FiniteSets

CONSTANTS Sources,        \* classifications considered, a subset of Classes
          RenderEnabled,  \* render.enabled
          MaxClaims       \* bound: how often the run is claimed

Classes == {"blob", "provider", "youtube", "plain"}

ASSUME WorkersAssumption == IsFiniteSet(Workers)
ASSUME SourcesAssumption == Sources \subseteq Classes
ASSUME RenderAssumption == RenderEnabled \in BOOLEAN
ASSUME ClaimsAssumption == MaxClaims \in Nat \ {0}

VARIABLES
    source,      \* classification of the run's source
    \* the database
    status,      \* of the run
    class,       \* last_error_class
    retryable,   \* of the failed report
    rows,        \* raw_source artifacts, by the retrieval they hold (0: a blob copy)
    documents,   \* document_ir artifacts
    candidates,  \* "none", all "rejected", or one "selected"
    steps,       \* provider_resolutions of the run
    slots,       \* daily render slots this run has consumed
    diagnostics, \* timing artifacts
    claims,      \* claims so far
    \* the network
    fetches,     \* successful retrievals so far; each is known by its number
    renders,     \* render commands in the stream for this run
    \* one execution per worker
    pc,          \* where it is
    mine,        \* the retrieval whose bytes it holds, or 0
    pending,     \* resolution steps collected so far
    net          \* the network operations it has performed

settled  == <<status, class, retryable, documents, candidates, steps>>
evidence == <<rows, settled>>
vars     == <<source, evidence, slots, diagnostics, claims, fetches, renders, pc, mine, pending, net>>

Terminal == {"succeeded", "failed"}

RenderFailureClass == {"policy_blocked", "navigation_timeout", "total_timeout", "size_limit",
                       "navigation_failed", "browser_unavailable"}
BlobFailureClass == {"blob_owner", "blob_missing", "blob_unreadable", "blob_mismatch"}
QualityClass == {"quality", "provider_low_quality", "youtube_no_language_match",
                 "youtube_no_transcript", "pdf_no_text_layer"}
FailureClass == {"fetch", "policy", "unsupported_media", "artifact", "parse", "pdf_encrypted"}
                    \cup RenderFailureClass \cup BlobFailureClass

(* The places that call retriever.fetch, and where a success leads. *)
AfterFetch == [plain |-> "page", provider |-> "payload", watch |-> "player",
               track |-> "captions", fallback |-> "fallback_page", article |-> "article_page"]

Places == DOMAIN AfterFetch \cup {AfterFetch[p] : p \in DOMAIN AfterFetch}
            \cup {"idle", "route", "blob", "budget", "request", "await", "again", "archive"}

Step(kind, outcome) == [kind |-> kind, outcome |-> outcome]
StepKinds == {"provider_attempt", "resolved_target", "html_fallback", "render_policy"}

TypeOK ==
    /\ source \in Sources
    /\ status \in {"queued", "running"} \cup Terminal
    /\ class \in {"none"} \cup FailureClass \cup QualityClass
    /\ retryable \in BOOLEAN
    /\ \A i \in 1 .. Len(rows) : rows[i] \in 0 .. fetches
    /\ documents \in Nat /\ diagnostics \in Nat
    /\ candidates \in {"none", "rejected", "selected"}
    /\ \A i \in 1 .. Len(steps) : steps[i].kind \in StepKinds
    /\ slots \in 0 .. MaxClaims /\ renders \in 0 .. MaxClaims /\ claims \in 0 .. MaxClaims
    /\ fetches \in 0 .. 2 * MaxClaims
    /\ pc \in [Workers -> Places]
    /\ mine \in [Workers -> 0 .. fetches]
    /\ \A w \in Workers : Len(pending[w]) <= 1 /\ Len(net[w]) <= 2

Init ==
    /\ source \in Sources
    /\ status = "queued" /\ class = "none" /\ retryable = FALSE
    /\ rows = << >> /\ documents = 0 /\ candidates = "none" /\ steps = << >>
    /\ slots = 0 /\ diagnostics = 0 /\ claims = 0 /\ fetches = 0 /\ renders = 0
    /\ pc = [w \in Workers |-> "idle"]
    /\ mine = [w \in Workers |-> 0]
    /\ pending = [w \in Workers |-> << >>]
    /\ net = [w \in Workers |-> << >>]

-----------------------------------------------------------------------------
(* Parts of a step.                                                        *)

At(w, place) == pc[w] = place
Goto(w, place) == pc' = [pc EXCEPT ![w] = place]

(* What no step of an execution changes beside the evidence. *)
Rest == UNCHANGED <<source, slots, diagnostics, claims, fetches, renders, mine, pending, net>>

(* fail_run: unless the run already left 'running', it fails with its      *)
(* class and the resolution steps.                                         *)
FailRun(cls, retry, ss) ==
    IF status = "running"
    THEN /\ status' = "failed" /\ class' = cls /\ retryable' = retry
         /\ steps' = steps \o ss
         /\ UNCHANGED <<rows, documents, candidates>>
    ELSE UNCHANGED evidence

(* Variant: the rejection finds the run by run_id alone. *)
Reject_AnyStatus(w, cls, ss) ==
    /\ status' = "failed" /\ class' = cls /\ retryable' = FALSE
    /\ rows' = Append(rows, mine[w])
    /\ candidates' = "rejected"
    /\ steps' = steps \o ss
    /\ UNCHANGED documents

(* reject: the same with the raw bytes and the rejected candidates. *)
Reject(w, cls, ss) ==
    IF status = "running"
    THEN /\ status' = "failed" /\ class' = cls /\ retryable' = FALSE
         /\ rows' = Append(rows, mine[w])
         /\ candidates' = "rejected"
         /\ steps' = steps \o ss
         /\ UNCHANGED documents
    ELSE UNCHANGED evidence

(* complete: the run succeeds with its fetch, artifacts, candidates and    *)
(* steps.  A late success after a success is a Duplicate and the execution *)
(* goes on; after a failure it is an error that ends the process.          *)
CompleteDocument(w, ss, next) ==
    \/ /\ status = "running"
       /\ status' = "succeeded"
       /\ rows' = Append(rows, mine[w])
       /\ documents' = documents + 1
       /\ candidates' = "selected"
       /\ steps' = steps \o ss
       /\ UNCHANGED <<class, retryable>>
       /\ Goto(w, next)
    \/ /\ status = "succeeded"
       /\ UNCHANGED evidence
       /\ Goto(w, next)
    \/ /\ status = "failed"
       /\ UNCHANGED evidence
       /\ Goto(w, "idle")

(* record_fetch: evidence of an intermediate retrieval, whatever the status. *)
RecordFetch(w) == rows' = Append(rows, mine[w]) /\ UNCHANGED settled

Fails(w, cls, ss) == FailRun(cls, FALSE, ss) /\ Goto(w, "idle") /\ Rest
Rejects(w, cls, ss) == Reject(w, cls, ss) /\ Goto(w, "idle") /\ Rest
Completes(w, ss, next) == CompleteDocument(w, ss, next) /\ Rest

(* A recorded retrieval is followed by another one, with a first resolution step. *)
ContinuesAt(w, place, ss) ==
    /\ RecordFetch(w)
    /\ pending' = [pending EXCEPT ![w] = ss]
    /\ Goto(w, place)
    /\ UNCHANGED <<source, slots, diagnostics, claims, fetches, renders, mine, net>>

Attempted(outcome) == <<Step("provider_attempt", outcome)>>

-----------------------------------------------------------------------------
(* Claiming, routing, retrieving.                                          *)

(* Variant: only queued runs are claimed. *)
Claim_QueuedOnly(w) ==
    /\ At(w, "idle")
    /\ status = "queued"
    /\ status' = "running"
    /\ claims' = claims + 1
    /\ Goto(w, "route")
    /\ UNCHANGED <<source, class, retryable, rows, documents, candidates, steps, slots,
                   diagnostics, fetches, renders, mine, pending, net>>

(* claim_queued_run: a queued run, or a running one whose lease has lapsed *)
(* (which time may bring about at any moment).                             *)
Claim(w) ==
    /\ At(w, "idle")
    /\ status \in {"queued", "running"}
    /\ claims < MaxClaims
    /\ status' = "running"
    /\ claims' = claims + 1
    /\ Goto(w, "route")
    /\ mine' = [mine EXCEPT ![w] = 0]
    /\ pending' = [pending EXCEPT ![w] = << >>]
    /\ net' = [net EXCEPT ![w] = << >>]
    /\ UNCHANGED <<source, class, retryable, rows, documents, candidates, steps, slots,
                   diagnostics, fetches, renders>>

(* Nothing to claim, as long as the lease of a running run has not lapsed. *)
PollFindsNothing(w) ==
    /\ At(w, "idle")
    /\ status # "queued"
    /\ UNCHANGED vars

(* A provider address that cannot be mapped takes the ordinary path; a     *)
(* YouTube address that names no video goes to the generic HTML attempt.   *)
Route(w) ==
    /\ At(w, "route")
    /\ \/ source = "blob" /\ Goto(w, "blob") /\ UNCHANGED pending
       \/ source = "provider" /\ Goto(w, "provider") /\ UNCHANGED pending
       \/ source = "youtube" /\ Goto(w, "watch") /\ UNCHANGED pending
       \/ source = "youtube" /\ Goto(w, "fallback")
             /\ pending' = [pending EXCEPT ![w] = Attempted("failed")]
       \/ source \in {"plain", "provider"} /\ Goto(w, "plain") /\ UNCHANGED pending
    /\ UNCHANGED <<source, evidence, slots, diagnostics, claims, fetches, renders, mine, net>>

Fetch(w) ==
    /\ pc[w] \in DOMAIN AfterFetch
    /\ fetches' = fetches + 1
    /\ mine' = [mine EXCEPT ![w] = fetches + 1]
    /\ net' = [net EXCEPT ![w] = Append(@, "fetch")]
    /\ Goto(w, AfterFetch[pc[w]])
    /\ UNCHANGED <<source, evidence, slots, diagnostics, claims, renders, pending>>

(* The step a failed continuation adds to the one before it. *)
FailedStep(place) ==
    CASE place \in {"fallback", "fallback_page"} -> <<Step("html_fallback", "failed")>>
      [] place \in {"article", "article_page"} -> <<Step("resolved_target", "failed")>>
      [] OTHER -> << >>

(* The retrieval fails, transiently or for good; only a resolved article   *)
(* tells a refused destination from other failures.                        *)
FetchFails(w) ==
    /\ pc[w] \in DOMAIN AfterFetch
    /\ net' = [net EXCEPT ![w] = Append(@, "fetch")]
    /\ \/ \E retry \in BOOLEAN :
             FailRun("fetch", retry, pending[w] \o FailedStep(pc[w]))
       \/ /\ At(w, "article")
          /\ FailRun("policy", FALSE, pending[w] \o FailedStep(pc[w]))
    /\ Goto(w, "idle")
    /\ UNCHANGED <<source, slots, diagnostics, claims, fetches, renders, mine, pending>>

-----------------------------------------------------------------------------
(* The ordinary path: HTML, PDF or neither.                                *)

UnsupportedMedia(w) == At(w, "page") /\ Fails(w, "unsupported_media", << >>)

(* The escalation policy: the first gate that denies, or "escalate". *)
Decide(qualityRejected, enabled, emptyShell, hostAllowed, budgetRemaining) ==
    CASE ~qualityRejected -> "quality_not_rejected"
      [] qualityRejected /\ ~enabled -> "rendering_disabled"
      [] qualityRejected /\ enabled /\ ~emptyShell -> "not_an_empty_shell"
      [] qualityRejected /\ enabled /\ emptyShell /\ ~hostAllowed -> "host_not_allowed"
      [] qualityRejected /\ enabled /\ emptyShell /\ hostAllowed /\ ~budgetRemaining
            -> "daily_budget_exhausted"
      [] OTHER -> "escalate"

Denied(w, gate) == Rejects(w, "quality", <<Step("render_policy", gate)>>)

CompleteHtml(w) ==
    /\ At(w, "page")
    /\ \/ \E cls \in {"artifact", "parse"} : Fails(w, cls, << >>)
       \/ Completes(w, << >>, "idle")
       \/ \E shell, host \in BOOLEAN :
             LET decision == Decide(TRUE, RenderEnabled, shell, host, TRUE)
             IN IF decision = "escalate"
                THEN Goto(w, "budget") /\ UNCHANGED evidence /\ Rest
                ELSE Denied(w, decision)

(* finish_pdf: no text layer, a password, another failure, or a document. *)
FinishPdf(w) ==
    \/ Rejects(w, "pdf_no_text_layer", << >>)
    \/ \E cls \in {"pdf_encrypted", "parse"} : Fails(w, cls, << >>)
    \/ Completes(w, << >>, "idle")

CompletePdf(w) == At(w, "page") /\ (Fails(w, "artifact", << >>) \/ FinishPdf(w))

(* A blob run reads peer-owned bytes and copies them: no retrieval. *)
CompleteBlobPdf(w) ==
    /\ At(w, "blob")
    /\ \/ \E cls \in {"unsupported_media", "parse"} \cup BlobFailureClass : Fails(w, cls, << >>)
       \/ FinishPdf(w)

-----------------------------------------------------------------------------
(* Escalation to the browser worker.                                       *)

(* consume_render_budget commits on its own, before anything is published. *)
SpendBudget(w) ==
    /\ At(w, "budget")
    /\ \/ /\ slots' = slots + 1
          /\ Goto(w, "request")
          /\ UNCHANGED <<source, evidence, diagnostics, claims, fetches, renders, mine, pending, net>>
       \/ Denied(w, "daily_budget_exhausted")

(* request_render publishes a command under a fresh render_id.  A transport *)
(* error leaves open whether the stream has it.                            *)
RequestRender(w) ==
    /\ At(w, "request")
    /\ net' = [net EXCEPT ![w] = Append(@, "render")]
    /\ \/ /\ renders' = renders + 1
          /\ Goto(w, "await")
          /\ UNCHANGED evidence
       \/ /\ renders' \in {renders, renders + 1}
          /\ FailRun("fetch", TRUE, << >>)
          /\ Goto(w, "again")
    /\ UNCHANGED <<source, slots, diagnostics, claims, fetches, mine, pending>>

(* The result, its absence, or a transport error while waiting.  Every     *)
(* outcome but a document returns to complete_html with the run settled.   *)
AwaitRender(w) ==
    /\ At(w, "await")
    /\ \/ Completes(w, << >>, "idle")
       \/ Reject(w, "quality", << >>) /\ Goto(w, "again") /\ Rest
       \/ \E cls \in {"parse"} \cup RenderFailureClass :
             FailRun(cls, FALSE, << >>) /\ Goto(w, "again") /\ Rest
       \/ FailRun("fetch", TRUE, << >>) /\ Goto(w, "again") /\ Rest

(* complete_html then rejects the run once more. *)
RejectAgain(w) == At(w, "again") /\ Rejects(w, "quality", << >>)

-----------------------------------------------------------------------------
(* Providers and their continuations.                                      *)

CompleteProvider(w) ==
    /\ At(w, "payload")
    /\ \/ ContinuesAt(w, "fallback", Attempted("failed"))
       \/ \E cls \in {"artifact", "parse"} : Fails(w, cls, << >>)
       \/ Rejects(w, "provider_low_quality", << >>)
       \/ ContinuesAt(w, "article", Attempted("ok"))
       \/ Completes(w, << >>, "idle")

(* Variant: the article's fetch is recorded on its own as well. *)
ResolveExternalArticle_Records(w) ==
    /\ At(w, "article_page")
    /\ \/ \E cls \in {"unsupported_media", "artifact", "parse"} :
             Fails(w, cls, pending[w] \o FailedStep(pc[w]))
       \/ ContinuesAt(w, "page", pending[w])

ResolveExternalArticle(w) ==
    /\ At(w, "article_page")
    /\ \/ \E cls \in {"unsupported_media", "artifact", "parse"} :
             Fails(w, cls, pending[w] \o FailedStep(pc[w]))
       \/ Completes(w, pending[w] \o <<Step("resolved_target", "ok")>>, "idle")

(* Variants: the success is recorded without its own step; low quality     *)
(* escalates to the browser worker.                                        *)
FallbackToGenericHtml_NoStep(w) ==
    /\ At(w, "fallback_page")
    /\ \/ \E cls \in {"unsupported_media", "artifact", "parse"} :
             Fails(w, cls, pending[w] \o FailedStep(pc[w]))
       \/ Rejects(w, "quality", pending[w] \o FailedStep(pc[w]))
       \/ Completes(w, pending[w], "idle")
FallbackToGenericHtml_Escalates(w) ==
    /\ At(w, "fallback_page")
    /\ \/ \E cls \in {"unsupported_media", "artifact", "parse"} :
             Fails(w, cls, pending[w] \o FailedStep(pc[w]))
       \/ Goto(w, "budget") /\ UNCHANGED evidence /\ Rest
       \/ Completes(w, pending[w] \o <<Step("html_fallback", "ok")>>, "idle")

FallbackToGenericHtml(w) ==
    /\ At(w, "fallback_page")
    /\ \/ \E cls \in {"unsupported_media", "artifact", "parse"} :
             Fails(w, cls, pending[w] \o FailedStep(pc[w]))
       \/ Rejects(w, "quality", pending[w] \o FailedStep(pc[w]))
       \/ Completes(w, pending[w] \o <<Step("html_fallback", "ok")>>, "idle")

-----------------------------------------------------------------------------
(* YouTube: the watch page, then the caption track.                        *)

WatchPage(w) ==
    /\ At(w, "player")
    /\ \/ ContinuesAt(w, "fallback", Attempted("failed"))
       \/ \E cls \in {"artifact", "parse"} : Fails(w, cls, << >>)
       \/ \E cls \in {"youtube_no_language_match", "youtube_no_transcript"} :
             Rejects(w, cls, << >>)
       \/ ContinuesAt(w, "track", << >>)

Captions(w) ==
    /\ At(w, "captions")
    /\ \/ \E cls \in {"artifact", "parse"} : Fails(w, cls, << >>)
       \/ Completes(w, << >>, "archive")

(* Archival and the timing sidecar come after the terminal transaction,    *)
(* also for an execution whose completion was a Duplicate.                 *)
ArchiveAndDiagnose(w) ==
    /\ At(w, "archive")
    /\ diagnostics' = diagnostics + 1
    /\ Goto(w, "idle")
    /\ UNCHANGED <<source, evidence, slots, claims, fetches, renders, mine, pending, net>>

(* A crash, a forced cancellation, or an error that process_run returns.   *)
(* The last claim the bound allows is not interrupted.                     *)
Stops(w) ==
    /\ ~At(w, "idle")
    /\ claims < MaxClaims \/ status \in Terminal
    /\ Goto(w, "idle")
    /\ UNCHANGED evidence /\ Rest

-----------------------------------------------------------------------------
Execute(w) ==
    \/ Route(w) \/ Fetch(w) \/ FetchFails(w)
    \/ UnsupportedMedia(w) \/ CompleteHtml(w) \/ CompletePdf(w) \/ CompleteBlobPdf(w)
    \/ SpendBudget(w) \/ RequestRender(w) \/ AwaitRender(w) \/ RejectAgain(w)
    \/ CompleteProvider(w) \/ ResolveExternalArticle(w) \/ FallbackToGenericHtml(w)
    \/ WatchPage(w) \/ Captions(w) \/ ArchiveAndDiagnose(w)

Next == \E w \in Workers : Claim(w) \/ PollFindsNothing(w) \/ Execute(w) \/ Stops(w)

Spec == Init /\ [][Next]_vars

(* A worker keeps polling, and every call of process_run has a deadline. *)
Fairness == \A w \in Workers : WF_vars(Claim(w)) /\ WF_vars(Execute(w))

FairSpec == Spec /\ Fairness

-----------------------------------------------------------------------------
(* Properties.                                                             *)

(* No retrieval is recorded twice.  record_fetch writes the intermediate   *)
(* ones and the terminal transaction the last one, in every path and       *)
(* however many workers execute the run ("recording them separately would  *)
(* double-insert both rows").                                              *)
NoDoubleInsert == \A i, j \in 1 .. Len(rows) : rows[i] = rows[j] => i = j

(* The evidence is that of the outcome: a document and a selected          *)
(* candidate exactly for a success, rejected candidates exactly for a      *)
(* quality failure, and a class exactly for a failure.  The types hold.    *)
EvidenceMatchesOutcome ==
    /\ TypeOK
    /\ documents = IF status = "succeeded" THEN 1 ELSE 0
    /\ (candidates = "selected") = (status = "succeeded")
    /\ (candidates = "rejected") = (class \in QualityClass)
    /\ (class # "none") = (status = "failed")
    /\ retryable => class = "fetch"

(* The resolution steps explain the outcome: they come with the terminal   *)
(* transition, a provider attempt is followed by exactly one continuation  *)
(* of the kind its outcome calls for, and the continuation succeeded       *)
(* exactly when the run did.                                               *)
StepsExplainOutcome ==
    steps # << >> =>
        \/ /\ Len(steps) = 1
           /\ steps[1].kind = "render_policy"
           /\ class = "quality"
        \/ /\ Len(steps) = 2
           /\ steps[1].kind = "provider_attempt"
           /\ steps[2].kind = IF steps[1].outcome = "ok" THEN "resolved_target" ELSE "html_fallback"
           /\ (steps[2].outcome = "ok") = (status = "succeeded")
           /\ status \in Terminal

(* An execution performs one of four sequences of network operations, so   *)
(* its network time is at most two fetch deadlines, or one fetch and one   *)
(* render deadline.  A blob run performs none, and only the ordinary path  *)
(* escalates.                                                              *)
NetworkPlan == \A w \in Workers : net[w] \in Plans[source]

(* With finitely many interruptions the run settles. *)
RunSettles == <>[](status \in Terminal)
=============================================================================
