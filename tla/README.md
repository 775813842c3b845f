# Verification of the ratatoskr extractor

TLA+ models of the extractor, the TLC instances that check them and the TLAPS proofs about them.
`PROJECT.json` is the index: the parts of the system, the runs, the mutants that show each property
can fail, the source lines each definition models, the hazards and the proved theorems.

## The system

The extractor takes capture commands from JetStream, retrieves and converts one source per command,
and reports the outcome to the platform. One process runs five loops: the command consumer, the
worker, the outbox relay, a dependency probe and the admin server (`services/extractor/src/main.rs`).
PostgreSQL holds all durable state; a content-addressed blob store holds bytes. A second deployable,
the browser worker, renders pages on request.

| Part | State | Operations |
| --- | --- | --- |
| Command consumer (`consumer.rs`, `capture.rs`) | inbox, runs, queued report | decode, intake transaction, acknowledge |
| Worker loop (`main.rs`, `capture.rs`) | run status, claim | claim, execute, force-cancel |
| Terminal transactions (`completion.rs`, `terminal.rs`) | run, evidence rows, outbox | complete, fail, reject |
| Outbox relay (`outbox.rs`) | outbox rows, health verdict | claim a batch, publish, mark, observe |
| Run flow (`pipeline.rs`, `provider_continuation.rs`, `pdf_run.rs`, `youtube_pipeline.rs`) | none of its own | route, fetch, convert, fall back, escalate |
| Render escalation (`render.rs`, `escalation.rs`) | daily budget, render commands | decide, spend, publish, await |
| Browser worker (`browser-worker`) | completion markers, deliveries | render, publish, mark, acknowledge |
| Admission and shutdown (`services/extractor/src/lib.rs`) | gate, permit count, lifecycle | admit, release, close, drain, cancel |
| Readiness (`services/extractor/src/lib.rs`, `main.rs`) | probe result, publisher verdict | probe, observe, report |
| Safe fetch (`safe-fetch`) | host pacing, in-flight count | admit, redirect, retry, store |
| Blob store (`blob-store`) | files | store, verify, remove |
| Media archive (`youtube_media.rs`, `records.rs`) | archive rows, media bytes | check, download, copy, reserve, purge rows |
| Conversion (`document-ir`, `candidate`, `providers`, `youtube`, `pdf`) | pure | parse, score, select |
| URL routing (`url-routing`) | pure | normalize, classify |

### What makes it hard

* Delivery is at least once in every direction: commands are redelivered after `ack_wait`, outbox
  rows are sent again after a lost acknowledgement, render commands after a worker crash.
* A claim is a lease with no fencing token. Every process claims under the same name, a lease is
  never renewed, and a worker that outlives its lease still writes; only `status = 'running'` in
  the terminal updates arbitrates.
* A process stops on any error of its worker or relay and is restarted by systemd; whatever it held
  in memory is gone, and a commit whose answer was lost may or may not have happened.
* Limits meet: `max_deliver`, batch sizes, the daily render budget, deadlines that add up to more
  than a lease.

## Conventions

* An action is a whole handler or one awaited step of it; what one database transaction does is one
  step. Where the order of single atomic operations matters (the gate's count and its `Notify`),
  each of them is a step.
* Time is left to the events it causes (`LeaseExpires`, `AckWaitExpires`, `BackoffEnds`), except in
  `RunLease`, where timers count down together, and in `SafeFetch`, which has a clock `now`.
* The outside is unreliable within a named bound: `MaxFaults` counts lost answers, failed calls and
  stops of a process. A commit whose answer is lost may or may not have happened.
* Data is what the properties tell apart: a command, a body or a page is a model value, a small
  record of sizes, or a member of a set of classes.
* Operators introduced by `Variant:` are wrong versions of the definition that follows them. They are
  in no next-state relation. `PROJECT.json` names, for each property, the variant that must break it.

## The modules

**CaptureLifecycle** is the promise made to the platform: a command is accepted once and settled at
most once, and each change enqueues exactly the messages that announce it.

**CapturePipeline** is how the code keeps it. `Deliver`, `Take`, `AckWaitExpires`, `Ack` and `AckLost` are
the durable consumer as `consumer.rs` uses it: a message first waits in the buffer of the client, up to
`Prefetch` of them, while its `ack_wait` already runs; `ConsumeCapture` and `ConsumeFails` are the intake
transaction with `on conflict do nothing` on the inbox; `ClaimQueuedRun`, `PollFindsNothing` and
`LeaseExpires` are the claim query; `CompleteDocument` and `FailRun` are the terminal transactions,
which write only where `status = 'running'`; `ProcessExits` is the end of a process that loses what it
held. `ImplementsLifecycle` maps `status` to `outcome` and the outbox counts to `announced`.

**Delivery** is what the outbox promises: a row is marked published only once the stream holds it, it
is given up on only if no attempt could deliver it, and neither mark is taken back. Leases, retries and
the number of relays are left open.

**OutboxRelay** is `outbox.rs` with the loop around it: `ClaimBatch` (the rows that are due, in the
order of `next_attempt_at`), `Publish` (stored or not, acknowledged or not), `Mark` (published,
rescheduled or dead-lettered), `Observe` (the health verdict of a pass) and `Stop`. The rows due are
kept as a sequence; `attempts` is counted up to the health threshold, beyond which nothing reads it.
`ProbeSucceeds` and `ProbeFails` are the dependency probe beside the relay, and `IsReady` is what the
admin server makes of its result and of the verdict. `ImplementsDelivery` is the refinement; the
variables of `Delivery` are variables of the relay, so the mapping is the identity.

**RunFlow** is `process_run` for every classification of a source: provider requests with their
continuation and fallback, HTML, PDF and YouTube, quality rejection, escalation. `Execute` is the next
awaited step of a worker, `Stops` ends it between any two steps. Network and conversion results are
chosen freely; the rows each step writes are kept.

**RunLease** takes the network plans that `RunFlow` establishes (`NetworkPlan`) and sets them against
the lease: `Budgets` turns each plan into the deadlines of its operations. A render may exceed its deadline
by `Overrun`, because the deadline starts after the publication and is compared only between two pulls.
`Prepare` and `Work` bound what an execution does before and after the network. The code bounds none of the
three. The plans themselves are in **NetworkPlans**, which both modules extend.

**RenderPipeline** composes both sides of an escalation: `ConsumeRenderBudget`, `PublishCommand`,
`Pull` and `AwaitEnds` of `render.rs` and `escalation.rs`; `Deliver`, `Handle`, `BrowserCrash` and
`BrowserRestart` of the browser worker, whose `Handle` goes through lookup, render, publication,
marker and acknowledgement. Requests of several processes may wait on the one durable, up to
`MaxAwaiting`, and a batch may break off; `exposed` holds the requests to which either happened.

**BrowserExecutor** is the inside of one render: the mutex, the context, the interception task beside
the navigation, the policy flag, the counter, and the two timeouts that may drop the future at any
await. Chromium is external: it pauses, sends and ends requests. The settle window is time, and two
things that time cannot exclude are faults of a render: an interception task that was not polled for all
of it (`Starved`), and a disposal that failed (`Undisposed`).

**ProcessShutdown** is `run_initialized`, the admission gate and the worker loops:
`try_admit`, `release_one`, `close`, `drained` and `shutdown` one atomic operation at a time, then the
forced cancellation and the join loop.

**UrlRouting** is the crate of that name: `Acceptable` and `Normalized` are the refusals and the result
of `normalize`, `Classify` the route, `BlockedIpv4` and `BlockedIpv6` the destination policy, octet by
octet, and `ResolveHost` the check of a whole DNS answer. A URL is the record of parts that the `url`
crate parses; spelling is left to that crate, except that a query pair keeps its key decoded and its text
as it is spelled, since `normalize` compares the first and stores the second. `Special` restates the
special-purpose blocks as a table of prefixes, for comparison with the policy; `UnnamedAssignment` is the
part of 2001::/23 that the table has and `blocked_ipv6` does not.

**SafeFetch** is one call of the fetcher per member of `Fetches`, for a URL that the intake normalized
and stored: admission and pacing (`Submit`, `Wake`), the lookup before a request (`Resolve`,
`ResolveRefused`), the client's own lookup and connection (`Connect`, `Unreachable`), responses
(`Redirect`, `RedirectRefused`, `Transient`, `Answer`), the body (`Finish`) and the timers (`Expire`).
`Redirect` gives the permit back and `Reenter` takes the one for the next hop; in between another call may
take it, and the redirect is refused. A loop is noticed only after the new permit, which `GiveUp` returns.
Every lookup is answered anew, so a name may resolve differently in the two lookups of one request.

**ArtifactStore** is the copy of a body into the content-addressed store: both limits, the staging
file, `Sync`, `Link`, `Unlink`, the comparison with a file that is already there (`Compare`) and the removal
of the staging file after it (`Remove`), cancellation at any await and the restart of the process. The
decoders stop after the first gzip member or zstd frame: `MemberWire` is where it ends on the wire, and
what follows it is read or not, as the chunks fall. `Damage` is a medium that loses the end of a file.

**MediaArchive** is `archive_video` of concurrent runs (check, download, copy, reserve), each step of
which may fail, and `delete_expired_media` with its three statements, which are not one transaction.
No service and no test calls this function, nor `remove_digest`, which would remove the bytes of the digests
it returns; the model lets a caller run it at any time, and has no step that removes bytes.

**CandidateSelection** is the conversion as a computation: three strategies choose a container, each
is scored and judged, a fold selects the winner, and the terminal transaction checks the result.
Texts are lengths in bytes. The scores keep the integer arithmetic.

**Faults** is the counter of faults that `OutboxRelay`, `ArtifactStore` and `MediaArchive` spend, with the
bound on it.

Modules named `MC...` hold the instances. `RunFlow` and `RunLease`, and `RenderPipeline` and
`BrowserExecutor`, are joined by properties rather than composed: what the first establishes for its
step is the assumption of the second.

## The runs

Each component has one run with all its properties; `RunLease` has two, and `UrlRouting` is checked with
`SafeFetch`, `Delivery` with `OutboxRelay`.

| Run | Properties | What it shows |
| --- | --- | --- |
| `capture` | `ReportsMatchRun`, `AckedIsDurable`, `OneFreshExecutor`, `ImplementsLifecycle`, `EveryCommandSettles` | Two commands and two processes with redelivery, unknown commits, lost acknowledgements, crashes and leases that lapse at any moment: one terminal transition with exactly its messages per run, only durable outcomes are acknowledged, every command that the broker has not given up on settles, and the lifecycle promised to the platform is implemented. |
| `outbox` | `MarksAreTrue`, `ImplementsDelivery`, `EveryRowSettles`, `RefusedHeadWithdrawsReadiness`, `OutageEndsReady` | Two relays over rows of every kind, with lapsing claims, late marks, lost acknowledgements and an outage: published_at only on stored rows, only oversize rows are given up on, a refused row holds no other back, the promise of Delivery is kept, and readiness, which the verdict shares with the dependency probe, is withdrawn and comes back as it should. |
| `runflow` | `NoDoubleInsert`, `EvidenceMatchesOutcome`, `StepsExplainOutcome`, `NetworkPlan`, `RunSettles` | Every path of process_run for every classification, executed by two workers at once and interrupted between any two steps: the stored evidence is that of the outcome, no retrieval is recorded twice, the network operations of an execution follow one of four plans, and the run settles. |
| `lease` | `OneExecutor` | Two workers and two runs with a lease one tick longer than the longest plan: no run is ever executed by two workers. |
| `shutdown` | `DrainedMeansIdle`, `ShutdownEnds` | Two worker loops racing with the closing of the gate, one atomic operation at a time: the wait ends early only when nothing is admitted, the release of the last permit ends it, and the process then ends. |
| `render` | `BudgetRespected`, `AwaitedNotDropped`, `SettledCommandsHaveEvents`, `OneEventPerCommand`, `CommandsAreAnswered` | Two requests on a budget of one a day over two days, both of which may wait at once, two browser workers that recycle after every job, redeliveries, crashes and failing marker operations: the budget holds, no awaited result is handed out unseen unless another wait or a failed batch took it, markers and acknowledgements never precede the result, and every command is answered. |
| `browser` | `RefusedDocumentIsNoResult`, `OnlyTimeoutsLeak`, `EveryRenderReturns` | Two renders on one browser, one with a refused target, a refused redirect and an image, and two faults: interception, policy flag, context and mutex under every interleaving of render and interception task, and every render returns. |
| `fetch` | `PermitsAreExact`, `OneBudget`, `RequestsFormAChain`, `ContactsAreGlobal`, `RoutingIsStable`, `FirstAttemptsAreSpaced`, `EveryFetchReturns` | Two calls for URLs that the intake normalized, against remotes that redirect within and between hosts, fail transiently, stall and resolve differently each time: exact permits, one budget per call, bounded attempts, paced first attempts, no redirect cycle, no connection to a special-purpose address that the policy names, keys that stay what the intake stored, and every call returns when only the timers are fair. |
| `store` | `PublishedIsFirstMember`, `BlobsAreImmutable`, `ReferencesResolve` | Two calls with equal or different bodies below, at and above each limit, read in every way, cancelled, failing or crashing anywhere: digest paths hold whole first members within the limits, no call changes them, and a returned reference was linked or read again; a body whose later members pass the wire limit may be published or refused. |
| `candidates` | `WinnerIsFirstBest`, `CommitIsNeverRefused` | Pages of two nested containers around every threshold, and plain texts of the other routes: scores, ties, the selected mark and what the terminal transaction requires of it. |
| `media` | `BudgetHolds`, `PurgeFinishesWhatItSelected` | Three runs of two videos, two faults and calls of delete_expired_media at any time: the budget holds although attempts look at it before they download, rows come after their bytes, and a call that returns leaves nothing of what it selected. |

The type invariant of a module is part of one of its invariants (`MarksAreTrue`,
`EvidenceMatchesOutcome`, `BudgetRespected`, `OnlyTimeoutsLeak`, `PermitsAreExact`,
`PublishedIsFirstMember`, `BudgetHolds`); in `CapturePipeline`, `RunLease`, `ProcessShutdown` and
`CandidateSelection` it is part of the inductive invariant that is proved.

### A disagreement that a run shows

`lease_default` ends in a counterexample. It checks one statement of the event-pipeline specification,
quoted in `PROJECT.json`: that an escalated run renews its lease while it waits for a render result.
The code writes `claimed_until` in `claim_queued_run` only. With the default lease (60 s) and deadlines
(30 s and 45 s), and with no time at all for anything beside the two operations, the claim lapses during
the wait.

### Other disagreements seen while modelling

The models reproduce each of these, but no run checks them; the properties above are stated so that
they hold of what the code does.

| Code | What it does | What is written |
| --- | --- | --- |
| `eventing/src/outbox.rs:287` | A pass whose only due row is dead-lettered turns the verdict healthy although a stuck row waits out its backoff. | `outbox.rs:248`: "It turns healthy again after a pass that publishes every due row, or when nothing is left unpublished" |
| `eventing/src/outbox.rs:417` | A row that is always refused is rescheduled for ever. | `openspec/specs/event-pipeline/spec.md:74`: "a finite dead-letter limit" |
| `extractor/src/pipeline.rs:572` | A run whose worker stopped after publishing is executed again and publishes under a fresh render id. | `openspec/specs/render-pipeline/spec.md:69`: "exactly one render command derived from the run" |
| `extractor/src/pipeline.rs:489` | The slot is committed before the command is published on the bus; a stop in between spends a slot without a command. | the same place, line 70: "inside the same transaction that consumes one unit of the day budget" |
| `extractor/src/main.rs:147` | The join loop returns the first error of a task and drops the others. | `openspec/specs/event-pipeline/spec.md:75`: "SHALL be joined before shutdown completes" |
| `browser-worker/src/lib.rs:392` | A worker that stops between result and marker renders the redelivered command again. | `openspec/specs/render-pipeline/spec.md:44`: "an identical redelivery performs no second render" |
| `browser-worker/src/executor.rs:151` | The total timeout drops the future before the context is disposed of. | `openspec/specs/render-pipeline/spec.md:31`: "closing it on every exit path" |
| `browser-worker/src/executor.rs:239` | A navigation that fails in transport returns the browser's error page as a rendering. | `render-job/src/lib.rs:26`: "Navigation failed at the transport level." |
| `safe-fetch/src/lib.rs:373` | A redirect hop and a retry do not wait for a slot of their host. | `openspec/changes/provider-post-resolution/specs/safe-fetch/spec.md:7`: "minimum spacing between outbound request starts toward the same host" |
| `blob-store/src/lib.rs:159` | A call that fails or is dropped after `hard_link` leaves its digest path. | `openspec/specs/safe-fetch/spec.md:59`: "SHALL leave no committed content-addressed file" |
| `safe-fetch/src/lib.rs:709` | The decoders stop after the first gzip member or zstd frame; the rest of the body is neither stored nor counted. | the same place, line 52: "Successful decoded source bytes SHALL be committed" |
| `url-routing/src/lib.rs:385` | Of 2001::/23 the policy names single blocks only; the rest is accepted. | `openspec/specs/safe-url-routing/spec.md:31`: "and other non-global addresses" |
| `extractor/src/main.rs:112` | No task calls the purge, so expired rows and bytes stay; expired rows stop counting all the same. | `openspec/changes/add-youtube-transcript-adapter/specs/youtube-transcripts/spec.md:164`: "Purge SHALL delete the stored bytes and the bookkeeping row for every record past its deadline" |
| `persistence/src/records.rs:373` | A row that expires after the first statement is deleted without its digest in the list. | `records.rs:359`: "returns the digest hex values whose stored bytes should be removed by the caller" |
| `persistence/src/records.rs:365` | The purge finds bytes through rows only, so bytes that lost theirs stay. | `youtube_media.rs:296`: "the content-addressed bytes stay as an orphan until a later sweep collects them" |
| `persistence/src/records.rs:374` | The purge deletes artifact rows by digest, an unexpired archive of the same bytes included. | `records.rs:359`: "Deletes expired accounting and artifact rows" |

### Bounds

* Two processes, relays, workers or browser workers are enough for every race between a claim that
  lapsed and its successor, and two worker loops let an admission meet a release and the closing of
  the gate.
* `capture` has two commands of one message each, `MaxDeliver = 2`, `Prefetch = 1` and `MaxFaults = 1`. A
  message may be given up on: one stop of a process loses what its client and its loop hold, and
  `ack_wait` may run out in a client. Redelivery after an unknown commit stands for a command that
  arrives twice. Messages that do not decode, and several messages with one
  command, are constants of the module; the run leaves them out and the theorems cover them.
* `outbox` has two rows whose kinds are chosen when they are enqueued, so every pair of plain, refused
  and oversize rows occurs, with batches of one row and a health threshold of one failure. Lost
  acknowledgements, outages, failed probes and stops share one fault, so each meets every state of
  the other relay.
* `MaxClaims = 3` in `runflow` allows an execution that outlives its lease, its successor and one more
  after a stop.
* `render` has one slot a day, two days, two requests that may wait at once, `MaxJobs = 1`, so a
  browser worker recycles after each job with another command in its buffer, and one delivery more
  than recycling and the fault can use up.
* Sizes sit around their limits: bodies below, at and above `MaxWire` and `MaxDecoded`, one of them
  (`joined`) within `MaxWire` at the end of its first member and beyond it at its own end, text lengths
  around the score thresholds (`MCCandidateSelection`), media files that fill the budget exactly.
* `Horizon` bounds the clock of `SafeFetch`: a call is submitted only if its deadline lies before it,
  so no call is cut off. A deadline of two ticks leaves room for a redirect, a retry and a stall in
  one call; a `Retry-After` lies within it or beyond. With two calls, `GlobalLimit = 2` and
  `PerHostLimit = 1`, a redirect may lose its host to the other call; that it loses the last global permit
  takes three calls, and `PermitsAlwaysExact` covers it. `Cached` names the calls that carry a prior
  record and so may be answered by "not modified".
* The URLs of `fetch` (`MCSafeFetch`) are spellings of two pages that differ in what normalisation
  removes, neighbours that differ in what it must keep, and URLs that the intake refuses. Redirects
  lead to a page, to a spelling of the other page, to an address and to targets that are refused. An
  answer of the resolver is empty, public, mixed, or an IPv4 address in IPv6 form. The length limits
  count parts: one source is too long for the intake, and one that the intake stores is too long for
  the fetch policy.
* `media` has two faults, so a purge may fail between two statements after an archival failed.
* The lease of `lease` is one tick longer than the longest plan with `Prepare`, `Overrun` and `Work` of one
  tick each. `lease_default` uses ticks of 15 seconds, in which the default lease is 4, the retrieval
  deadline 2 and the render deadline 3, and gives the other three no time.
* Symmetry is declared in `lease` and `store` only, which have no liveness property.

### Fairness

* `CapturePipeline` and `RenderPipeline`: something happens while something can (`WF_vars(Next)`).
  Faults, deliveries and claims are bounded, so a behaviour that always goes on comes to its end,
  and no choice between the loops has to be fair. In the code the loops of `main.rs` and of the
  browser worker run as long as the process does and the supervisor restarts it, JetStream delivers
  and takes back after `ack_wait`, and leases lapse by the clock.
* `OutboxRelay`: each relay loop takes its next step, the probe of each process succeeds again once
  the faults are over, claims lapse and backoffs end by the clock. Rows need not arrive or age. The
  broker's answer is a free choice only within `MaxFaults`.
* `RunFlow`: a worker that can claim does, and its next step happens, since each has a deadline;
  interruptions are bounded by `MaxClaims`.
* `BrowserExecutor`: only the timer and the tokio mutex, which serves its waiters in order (strong
  fairness of `Lock`). The browser may hang for ever.
* `ProcessShutdown`: tasks that can go on are polled. The grace period is not assumed to end, so that
  a lost notification cannot hide behind it, and no admitted run needs to end: `ShutdownEnds` says
  that the process ends unless it waits for an admitted run.
* `SafeFetch`: the clock and the timers of tokio (pacing, retry delay, first byte, total), in whatever
  order, and the steps within a redirect or a return (`Reenter`, `GiveUp`), which await nothing. The
  resolver and the remote may never answer.

Deadlock is checked wherever the loops run for ever or the end of the process is a step of its own.
`CHECK_DEADLOCK FALSE` stands in the runs of the modules whose calls all return
(`RenderPipeline`, `BrowserExecutor`, `SafeFetch`, `ArtifactStore`, `MediaArchive`,
`CandidateSelection`): there, the last state is the end of the work.

## What is proved

TLAPS checks these for every value of the constants, from the named assumptions of each module only:
types of the constants, finiteness of the sets of processes, workers and jobs, sizes bounded by some
`MaxBytes`. Some are more than types. `LeaseSuffices` assumes `Fits` and `FirstRetrievalCovered` assumes
`FirstFits`; neither follows from `ValidatedConfig`, the relation that the configuration check demands,
which leaves out the work beside the fetch. `BrowserExecutor` assumes that no page is of a heavy
resource type, which Chromium's types ensure: a document is not an image, a font or a media stream. The
first member of a body of `ArtifactStore` ends within the body and has something on the wire if it decodes
to something, and the item cap of `MediaArchive` is within its budget, as the configuration check demands.

`RunProofs` covers `RunFlow` and `RunLease`; `ServiceProofs` covers `OutboxRelay`, `ArtifactStore` and
`ProcessShutdown`; `ContentProofs` covers `CandidateSelection` and `MediaArchive`; `SafeFetchProofs` covers
`UrlRouting` too, and `SafeFetchAdmissionProofs` goes on from it. A proof module extends the modules it is
about, so that a theorem names the very property that a run checks; modules that are proved about
together therefore have names of their own for specification, variables and types (`StoreSpec`,
`processVars`, `MediaTypeOK`). Facts of the libraries about cardinalities and well-founded sets are
hypotheses of the lemmas (`CountingFacts`, `SumFacts`, `LibraryFacts`), discharged where the libraries are
instantiated at the end of the module.

| Module | Theorem | What it states |
| --- | --- | --- |
| `CapturePipelineProofs` | `TypeCorrect` | The variables keep their types, and no message is delivered more than max_deliver times. |
| `CapturePipelineProofs` | `ReportsAlwaysMatch` | `ReportsMatchRun`: For any number of commands, messages, processes and faults, the outbox holds exactly the messages the status of the run calls for. |
| `CapturePipelineProofs` | `AckedAlwaysDurable` | `AckedIsDurable`: No acknowledged well-formed message is missing from the inbox. |
| `CapturePipelineProofs` | `LeaseExclusive` | `OneFreshExecutor`: At most one worker executes a run inside its own lease. |
| `CapturePipelineProofs` | `AbandonedByFaults` | A message the broker gave up on, and that no client or loop still holds, met a fault: redelivery alone loses nothing, however often ack_wait runs out in a client. |
| `CapturePipelineProofs` | `FinalityHolds` | A settled run never changes status and sends nothing more. |
| `CapturePipelineProofs` | `Refinement` | `ImplementsLifecycle`: The pipeline implements the lifecycle promised to the platform. |
| `RunProofs` | `NoRetrievalRecordedTwice` | `NoDoubleInsert`: No retrieval of a run is recorded twice, for any number of workers that execute the run at once and stop anywhere. |
| `RunProofs` | `EvidenceIsOfTheOutcome` | `EvidenceMatchesOutcome`: Document, candidates, class and retry flag are those of the outcome, and the claims bound the retrievals, render slots and render commands of a run, for any number of workers and claims. |
| `RunProofs` | `StepsAlwaysExplain` | `StepsExplainOutcome`: The resolution steps of a run explain its outcome, whichever worker wrote it. |
| `RunProofs` | `ExecutionsFollowPlans` | `NetworkPlan`: Every execution performs one of the network plans of its source, the premise of the lease arithmetic in RunLease. |
| `RunProofs` | `LeaseSuffices` | `OneExecutor`: For any workers, runs and deadlines: a lease longer than the longest plan keeps every run with one worker at a time. |
| `RunProofs` | `FirstRetrievalCovered` | For any workers, runs and deadlines: a lease beyond the first retrieval and the work before it covers the first retrieval of every execution until some worker settles the run. |
| `RenderPipelineProofs` | `SettledOnlyAfterEvent` | `SettledCommandsHaveEvents`: Neither the marker nor the acknowledgement of a render command comes before its event is in the stream, for any jobs, browser workers and faults. |
| `RenderPipelineProofs` | `RenderBudgetHolds` | `BudgetRespected`: No more commands are in the stream than the budgets of the days so far allow, for any budget and any number of jobs, workers and faults. |
| `RenderPipelineProofs` | `LoneWaiterMissesNothing` | `AwaitedNotDropped`: A request that waits alone on the shared durable and whose batches come whole never misses its result, for any batch size and any number of worker loops. |
| `RenderPipelineProofs` | `OneEventUnlessExcused` | `OneEventPerCommand`: A command yields one event, and another only for each fault between publication and marker or delivery to two workers at once. |
| `BrowserExecutorProofs` | `NoResultForARefusedDocument` | `RefusedDocumentIsNoResult`: A render that reports a page never reports one whose document request was refused, unless its interception task did not run for the whole settle window, for any number of renders and any interleaving with their interception tasks. |
| `BrowserExecutorProofs` | `ContextsAreDisposedOf` | `OnlyTimeoutsLeak`: A finished render leaves its context open only after the total timeout or when the disposal of that context failed, for any number of renders and any other failure. |
| `ServiceProofs` | `MarksAlwaysTrue` | `MarksAreTrue`: For any number of rows, relays and faults, published_at stands only on rows the stream holds and dead_lettered_at only on rows no attempt can deliver. |
| `ServiceProofs` | `RelaysImplementDelivery` | `ImplementsDelivery`: The relays implement the abstract promise of the outbox, whichever of them claims, attempts and marks a row. |
| `ServiceProofs` | `DrainIsComplete` | `DrainedMeansIdle`: For any number of worker loops and tasks: when the wait of shutdown ends before its deadline, no operation is admitted and none will be. |
| `ServiceProofs` | `CountIsExact` | For any number of worker loops: the atomic count equals the number of workers that hold or are returning a permit. |
| `ServiceProofs` | `OnlyFirstMembersArePublished` | `PublishedIsFirstMember`: Whatever is published is the whole first member of a body, within both byte limits, for any number of concurrent calls, faults, bodies and limits; a single-member or identity body is published whole. |
| `ServiceProofs` | `BlobsNeverChange` | `BlobsAreImmutable`: A file appears at a digest path with exactly the bytes of its digest and no call changes it; only a damaged medium does. |
| `ServiceProofs` | `ReferencesAlwaysResolve` | `ReferencesResolve`: A call returns a reference only after it linked its bytes at the digest path or read them there again, and the path exists when it returns. |
| `SafeFetchProofs` | `AcceptedIsGlobal` | The only special-purpose addresses that the destination policy accepts are in the part of 2001::/23 that blocked_ipv6 does not name, for every IPv4 and IPv6 address, IPv4 addresses in IPv6 form included. |
| `SafeFetchProofs` | `BudgetAlwaysOne` | `OneBudget`: One absolute deadline bounds every await of a call, for any limits, timeouts, retries and Retry-After values. |
| `SafeFetchProofs` | `ContactsAlwaysGlobal` | `ContactsAreGlobal`: A call is connected to no special-purpose address outside the unnamed part of 2001::/23, for any stored URLs, redirects and DNS answers that change between two lookups. |
| `SafeFetchProofs` | `RequestsAlwaysChain` | `RequestsFormAChain`: The requests of a call form one redirect chain with at most one request per hop and MaxRetries more, for any limits of redirects and retries and any answers. |
| `SafeFetchAdmissionProofs` | `FirstAttemptsAlwaysSpaced` | `FirstAttemptsAreSpaced`: First attempts toward one host begin an interval apart, for any number of concurrent calls, also when slots are refused, dropped or reserved by redirects. |
| `SafeFetchAdmissionProofs` | `PermitsAlwaysExact` | `PermitsAreExact`: The global and per-host counters equal the number of calls that hold a permit and stay within their limits, for any number of calls, any limits and any redirects, also when another call takes the permit that a redirect has given up and not yet replaced. |
| `SafeFetchAdmissionProofs` | `RoutingAlwaysStable` | `RoutingIsStable`: The key that the intake stores is a fixed point of normalize, accepted and routed as before and shared by exactly the spellings of one target, and at every hop a call is at such a normal form; for any sources, redirect targets and queries of any length. |
| `ContentProofs` | `ScoresAreBounded` | Every score lies between 0 and 1000 for sources of any size, so the unit-interval constraint of extractor.candidates holds. |
| `ContentProofs` | `WinnerCorrect` | `WinnerIsFirstBest`: winner's fold returns the highest accepted score and the earliest strategy of a tie, for all pages. |
| `ContentProofs` | `CommitsAreAccepted` | `CommitIsNeverRefused`: No conversion is refused by validate_candidates or by a constraint of the candidates table. |
| `ContentProofs` | `MediaBudgetHolds` | `BudgetHolds`: For any number of runs, videos and faults: the unexpired rows never account for more than the budget, however many attempts looked at it before any of them reserved, and their bytes are in the store. |
| `ContentProofs` | `PurgesFinish` | `PurgeFinishesWhatItSelected`: For any number of runs and whatever happens between its three statements: a call of delete_expired_media that returns leaves no row it selected and no artifact row of one, and takes no row that still counts. |

**CapturePipeline.** The invariants are not inductive as they stand. That the outbox matches the
status of a run needs `ClaimIsWhole` (a lease exists exactly while the run is running) and
`JobsAreClaimed` (a worker never holds a run that was not claimed), because a terminal transaction
is taken by a worker that may have lost its lease. That one worker is inside its lease needs
`LapsedMeansOverrun`: when a lease has lapsed, whoever executes the run is marked as overrun, so a
new claim meets no fresh executor. That acknowledged messages are durable needs `DecidedIsDurable`:
a handler that returned left a record. That nothing is given up on without a fault needs
`DeliveredIsHeld`: until a fault happens, a delivered message that is not acknowledged is in a
client's buffer or in the hands of a loop, however often `ack_wait` has run out. `InductiveInv` is
their conjunction. The proof has one lemma per action; the finality of a terminal status and the
refinement of `CaptureLifecycle` are then proved from it step by step (`DatabaseSteps` says what
each step does to status and outbox).

**OutboxRelay.** A mark is written by `outbox_id` alone, long after the attempt it records and perhaps
after another relay has claimed the row. `MarksAreTrue` therefore needs `OutcomeIsTrue`: the outcome
that a relay still holds is true of its row whatever the others have done since, because the stream
only grows and rows keep their kind. `OutboxInv` adds that the stream holds plain rows only. Each step
is then a step of `Delivery` or leaves its variables alone: `Publish` delivers, `MarkPublished` confirms,
`MarkUndeliverable` gives up (`RelaysImplementDelivery`).

**RunFlow.** `RunInv` is the inductive invariant; each of its parts says what the others rest on.

* `OutcomeInv` is the row of the run: the document, candidates, class, retry flag and steps are those of
  the status. A terminal transaction is written by any worker, also one that lost its lease, so
  `PendingInv` keeps what each worker has collected in agreement with the place it is at.
* `NoDoubleInsert` needs three things: a worker at a place in `Holding` has a retrieval that is not in
  the table, no two workers hold the same one (`Apart`), and a new retrieval has a number above all
  earlier ones. The copy of a blob is written only by the one terminal transaction.
* `NetworkPlan` needs `PlacesOf`, the places that a classification can lead to, and what has been
  performed at each of them (`NetInv`).
* The bounds on retrievals, slots and render commands are an accounting (`CountInv`): what has been used,
  plus what the workers under way may still use, is covered by the claims. Each step moves one worker
  and has to balance (`Within`), so the proof has one lemma that does the cardinalities and one per
  step that checks the balance.

**RenderPipeline.** `Shape` (types, and what the buffers of the workers hold) is under all four results.

* `SettledInv` adds to the property that the event of a command in hand at marker, acknowledgement or
  skip is in the stream, which it entered two steps before.
* `BudgetInv` counts: every slot spent is the slot of one job (`Charged`), only charged jobs have
  commands, and today's slots are the counter's.
* `AwaitInv` says that a request that is not `exposed` waits alone. What the durable handed out
  before is then for others, whatever the batch size and the number of worker loops.
* `OnceInv` is a balance: the events of a command and the workers about to publish another are covered by
  its excuses and by one, which a marker or a worker in the middle of the job accounts for. A
  worker that crashes after publication takes that one with it and leaves an excuse.

**BrowserExecutor.** That a refused document is no result spans the two tasks of a render. `TaskInv`
follows the request the interception task holds, `FlagInv` says that a denied document has raised
the flag or is about to, and `ResultInv` carries it through the settle window to the check: in those
750 ms a task that waits for nothing takes its next step (`Settled`), or the render counts as
starved, so a denied document has raised the flag by then. `CountInv` lets every count stand for
another denied request. `ExecutorInv` is their conjunction.

**ArtifactStore.** `Progress` ties a call to its files: while it copies, the staging file holds what it has
hashed; past the end of the stream this is the whole first member, within both limits; at `unlink` the
digest path exists. `Link` then publishes whole members only, and never over another file. A reference is
returned from two places: after `Link`, or after `Compare` has read the bytes at the path (`ComparedFacts`);
`OthersKept` says that a step of one call leaves the others where they are.

**UrlRouting.** `AcceptedIsGlobal` compares the code's tests on octets with the table of blocks, for all
addresses: the IPv4 part by the two 16-bit words of an address, the IPv6 part block by block, and
IPv4 addresses in IPv6 form through the IPv4 part. The one difference, the part of 2001::/23 that the code
does not name, is in the statement. What `RemoveTrackingQuery` computes is proved for
queries of any length: `Retained` is a recursive function, and `UpTo` is induction up to a number, from a
minimal counterexample (`LeastNatural`). `RetainedHolds` says that the pairs kept are those that are not for
tracking, each at the place of its rank; `NothingToRemove` that a second removal finds nothing. Hence
`NormalFormFacts` (a normal form is accepted where the URL was, is its own normal form and takes the
same route) and `OneFormPerTarget` (two URLs share it exactly when they name one target, by the
independent reading of a query in `KeptPairs`).

**SafeFetch.** The proofs share one case analysis. `NextCases` says that a step of the system
is a tick or a step of one call, which starts it (`Starts`), moves it to the next hop (`Follows`), keeps
its URL and deadline (`Stays`) or ends it and returns its permits (`Ends`). A redirect is two such steps,
and between them (`hopping`) the call holds no permit. On top of the types (`Types`):

* `OneBudget` is inductive: the deadline is set once, every timer is the smaller of its own allowance
  and the deadline, and a tick does not pass a timer.
* `ContactsAreGlobal` needs `Validated`: the URL of a live call has a name or an accepted address for a
  host, at every hop. What `Connect` reaches is then that address or one of an answer that the
  validating resolver accepted, and `AcceptedIsGlobal` does the rest.
* `RequestsFormAChain` needs `Chained`: everything a call sent is in its visited set, so a redirect,
  which only leads out of that set, cannot return to it; once the current URL was sent nothing else
  was; and the requests number at most the hops and the retries, plus the attempt under way, which
  is what a redirect or a retry turns into the next hop or the next count.
* `FirstAttemptsAreSpaced` needs `Paced`: the next free slot of a host lies an interval after the last
  first attempt and after every slot still waited for, and two waiting calls hold slots an
  interval apart. Refused and abandoned reservations only move the next slot further away.
* `PermitsAreExact` is an accounting with cardinalities: a step takes the call it moves out of the
  count (`CountsOthers`) and puts it back on its host or not at all, so a redirect, which gives one
  permit back before it takes another, neither loses nor doubles one, and `Free` keeps both counters
  within their limits (`Limits`).
* `RoutingIsStable` needs that a call only ever visits URLs that the intake or a redirect normalized
  (`ChainsAlways`), which are the normal forms of the facts about `UrlRouting`.

**RunLease.** `BudgetTypes` reads the deadlines off the plans: the first operation of each is a fetch.
`LeaseSuffices` assumes `Fits`, a lease longer than the longest plan together with `Prepare`, `Overrun` and
`Work`, and rests on `LeaseOutlastsWork`: what a worker may still need is less than what is left of its
lease. All timers tick together, so the difference never shrinks. `FirstRetrievalCovered` needs `FirstFits`
only and covers what leads to the first retrieval and the retrieval itself, also when two workers execute
the run and one of them settles it; the counterexample of `lease_default` shows why nothing of the kind
covers the second operation.

**ProcessShutdown.** The count of the gate equals the number of workers between their increment and
their decrement (`ActiveCountsPermits`); once closed, the gate stays closed (`ClosedForGood`); hence a wait
that saw zero after closing leaves nothing admitted.

**CandidateSelection.** `FoldOK` says that the fold's result is the first best of the decisions it has
seen. The scores are bounded because each component saturates at its weight and the weights add up
to 1000. `LabelsOK` keeps the strategy names distinct, which the candidates table demands.

**MediaArchive.** The sum of the rows is the number of the bytes they account for (`Accounted`),
which makes it a cardinality. `LedgerInv` adds that there are finitely many, and `Capped` that what
an attempt copies or reserves is within the item cap. A new row adds at most its length
(`LedgerGrows`); expiry and purge only remove bytes (`LedgerShrinks`). What an attempt saw at its
first look is not in the invariant, because the reservation does not rely on it. `ArchiveInv` says
that a row follows its bytes and that what a purge selected has expired, belongs to an attempt that
is over and, after the second statement, has no artifact row (`ArtifactOf`); so no archival that
commits in between brings any of it back (`PurgesFinish`). A call that fails may leave everything,
and one that returns may take the artifact row of an unexpired archive with equal bytes.

### What is only model-checked

* Every liveness property (`EveryCommandSettles`, `EveryRowSettles`, `RefusedHeadWithdrawsReadiness`,
  `OutageEndsReady`, `RunSettles`, `ShutdownEnds`, `CommandsAreAnswered`, `EveryRenderReturns`,
  `EveryFetchReturns`): the provers do not handle fairness and `ENABLED`.
* That the instances reach what they are meant to reach: the theorems say nothing of it, the variants
  of `PROJECT.json` do.

Every invariant and action property of a passing run, and both refinements, are stated by a theorem.
The induction theorems of the library take an operator, which the installed provers cannot
instantiate. Where a recursive function had to be followed (`Retained`), induction is therefore by a
least counterexample in a set; the fold of `CandidateSelection` is a sequence of steps with an
invariant.

## What is not modelled

* DOM construction, text normalisation and the parsing of provider, caption and PDF payloads: string
  conversions whose results enter the models as sizes or as outcomes.
* The choice of a YouTube caption track and the grouping of its segments: pure functions of one payload
  with no state around them; `RunFlow` has their outcomes (a track, no matching language, no transcript).
* The parsing of a URL's text into parts, which is the `url` crate, and with it spellings of a host that
  this crate changes; `plain` stands for them where `normalize` looks at the text.
* The offline tools that measure the converters over recorded pages (corpus, shadow comparison). They
  run outside the service and share no state with it.
* Configuration loading, apart from the relations that `RunLease` and `MediaArchive` assume; telemetry;
  the bodies of the admin routes; the provisioning of streams and of the schema; test support. The
  theorems about `SafeFetch` also hold for limits that the configuration check would refuse, such as a
  limit per host above the global one.
* `remove_digest` of the blob store, which nothing calls.
* What no property catches, though the models have it. `StepsExplainOutcome` relates the steps that were
  written to the outcome, and a path that leaves out every step satisfies it.
  `NetworkPlan` is about the retrievals and the render of an execution: the media download that `yt-dlp`
  makes after the document is complete (`youtube_pipeline.rs:317`) is not among them. A second execution
  spends a second render slot and publishes under a fresh id; `EvidenceMatchesOutcome` bounds both by the
  claims and does not exclude them. The file of a call that failed after `hard_link` stays, and
  `BlobsAreImmutable` only says that it is intact. `MarksAreTrue` is mostly implied by
  `ImplementsDelivery`, whose proof rests on it.
* Durability of directory entries after `hard_link` (the code does not synchronise directories), and
  the growth of the pacing map, which is never pruned.
* Memory ordering weaker than sequential consistency: the atomics of the gate are single steps in one
  order (`ProcessShutdown`).

Three compositions are left as joints between modules and not as modules of their own. `RunFlow`
lets two executions of a run overlap at any point, which includes every overlap that the timers of
`RunLease` allow, so its invariants hold under any lease. `ArtifactStore` and `MediaArchive` meet in
the file of a digest only, which `MediaArchive` copies in one step and no caller removes. A render
is one step of `RenderPipeline`, whose result may be any that `BrowserExecutor` returns.
