----------------------------- MODULE SafeFetch -----------------------------
(***************************************************************************)
(* fetch_inner of crates/safe-fetch: admission and pacing, the redirect    *)
(* and retry loop and the one absolute deadline of an operation, for       *)
(* several fetches that share one SafeFetcher.                             *)
(*                                                                         *)
(* URLs, the address policy and the resolver are UrlRouting's.  A lookup   *)
(* gives any of the Answers, each time anew.  The remote answers as it     *)
(* likes, when it likes, or never.  The body is one step (ArtifactStore    *)
(* has the detail).  Time is the clock "now"; a tick never passes a timer  *)
(* that tokio ends.  The jitter of a retry is any value up to its ceiling. *)
(***************************************************************************)
EXTENDS UrlRouting, FiniteSets

CONSTANTS Fetches,           \* concurrent calls of fetch
          Sources,           \* the URLs of capture commands, as parsed
          Locations,         \* redirect targets, joined to the URL they answer
          PdfNames,          \* path segments that end in ".pdf"
          Answers,           \* what a lookup of a name may answer: sets of addresses
          IntakeLength,      \* the 8192 of the default policy, in parts
          MaxUrlLength,      \* fetch.max_url_length, in parts
          AllowedPorts,      \* fetch.allowed_ports
          Cached,            \* fetches that carry a prior record
          GlobalLimit,       \* fetch.global_concurrency
          PerHostLimit,      \* fetch.per_host_concurrency
          MinInterval,       \* fetch.per_host_min_interval_ms
          TotalTimeout,      \* fetch.total_timeout_ms
          FirstByteTimeout,  \* fetch.first_byte_timeout_ms
          MaxRedirects,      \* fetch.max_redirects
          MaxRetries,        \* fetch.max_retries
          BackoffUnit,       \* the 100 ms of retry::delay
          RetryAfters,       \* values of a Retry-After header
          Horizon            \* bound: no fetch may outlive this instant

(* routing_policy of the intake, and the policy of fetch_inner. *)
IntakePolicy == [maxLength |-> IntakeLength, ports |-> {80, 443}]

FetchPolicy == [maxLength |-> MaxUrlLength, ports |-> AllowedPorts]

(* url_source: what the intake stores for the commands it accepts, and a   *)
(* run later fetches.                                                      *)
StoredUrls == {Normalized(s) : s \in {s \in Sources : Acceptable(s, IntakePolicy)}}

(* Every URL a call can request. *)
Urls == {Normalized(t) : t \in {t \in StoredUrls \cup Locations : Acceptable(t, FetchPolicy)}}

Hosts == {u.host : u \in Urls}

ASSUME FetchAssumption ==
    /\ Urls # {} /\ Cached \subseteq Fetches /\ IsFiniteSet(Fetches)
    /\ Sources \cup Locations \subseteq Url
    /\ UNION Answers \subseteq Addresses
    /\ {GlobalLimit, PerHostLimit, TotalTimeout, FirstByteTimeout} \subseteq Nat \ {0}
    /\ {IntakeLength, MaxUrlLength, MinInterval, MaxRedirects, MaxRetries, BackoffUnit, Horizon} \subseteq Nat
    /\ RetryAfters \subseteq Nat

VARIABLES now,        \* the monotonic clock
          admission,  \* AdmissionState: global, per_host and next_allowed
          fetch,      \* the local state of each call
          lastBegan   \* history: when the last first attempt toward a host began

vars == <<now, admission, fetch, lastBegan>>

Errors == {"AddressPolicy", "Overloaded", "TimeoutTotal", "TimeoutFirstByte", "Transport", "Dns",
           "Url", "RemoteStatus", "RedirectLocation", "RedirectLoop", "RedirectLimit", "CacheIntegrity", "Body"}

Phases == {"idle", "pacing", "resolving", "connecting", "sending", "backoff",
           "hopping", "leaving", "body", "reuse", "done"}

NoPeer == <<"none", <<>>>>

AnyUrl == CHOOSE u \in Urls : TRUE

(* A call before its first hop. *)
NewCall(pc, u, deadline, timer, visited, result) ==
    [pc |-> pc, url |-> u, deadline |-> deadline, timer |-> timer, hop |-> 0, retries |-> 0,
     visited |-> visited, requested |-> <<>>, peer |-> NoPeer, result |-> result]

Idle == NewCall("idle", AnyUrl, 0, 0, {}, "none")

Done(result) == NewCall("done", AnyUrl, 0, 0, {}, result)

Later(a, b) == IF a > b THEN a ELSE b

Earlier(a, b) == IF a < b THEN a ELSE b

Live(f) == fetch[f].pc \notin {"idle", "done"}

(* The call holds an AdmissionGuard: always but within a redirect. *)
Guarded(f) == Live(f) /\ fetch[f].pc # "hopping"

Init ==
    /\ now = 0
    /\ admission = [global |-> 0, perHost |-> [h \in Hosts |-> 0], nextAllowed |-> [h \in Hosts |-> 0]]
    /\ fetch = [f \in Fetches |-> Idle]
    /\ lastBegan = [h \in Hosts |-> -MinInterval]

(* The slot a request toward h gets, and the slots after it. *)
Slot(a, h) == IF MinInterval = 0 THEN now ELSE Later(a.nextAllowed[h], now)

Slots(a, h) == IF MinInterval = 0 THEN a.nextAllowed ELSE [a.nextAllowed EXCEPT ![h] = Slot(a, h) + MinInterval]

Free(a, h) == a.global < GlobalLimit /\ a.perHost[h] < PerHostLimit

(* Variant: the permit is not taken on the host the request goes to. *)
TryEnter_NoHostCount(a, h) ==
    [global |-> IF Free(a, h) THEN a.global + 1 ELSE a.global, perHost |-> a.perHost, nextAllowed |-> Slots(a, h)]

(* Variant: the next slot is the reserved one, not one interval later. *)
TryEnter_NoInterval(a, h) ==
    [global |-> IF Free(a, h) THEN a.global + 1 ELSE a.global,
     perHost |-> IF Free(a, h) THEN [a.perHost EXCEPT ![h] = @ + 1] ELSE a.perHost,
     nextAllowed |-> [a.nextAllowed EXCEPT ![h] = Slot(a, h)]]

(* try_enter: the slot of the host advances first, whether or not the      *)
(* permits are then granted.                                               *)
TryEnter(a, h) ==
    [global |-> IF Free(a, h) THEN a.global + 1 ELSE a.global,
     perHost |-> IF Free(a, h) THEN [a.perHost EXCEPT ![h] = @ + 1] ELSE a.perHost,
     nextAllowed |-> Slots(a, h)]

(* Drop of an AdmissionGuard. *)
Leave(a, h) ==
    [global |-> a.global - 1, perHost |-> [a.perHost EXCEPT ![h] = @ - 1], nextAllowed |-> a.nextAllowed]

Held(f) == Leave(admission, fetch[f].url.host)

(* The call returns with its guard, which drops. *)
Return(f, result) ==
    /\ fetch' = [fetch EXCEPT ![f] = Done(result)]
    /\ admission' = Held(f)
    /\ UNCHANGED <<now, lastBegan>>

(* validate_literal: a host that is an address is checked before its slot. *)
ValidLiteral(u) == u.host[1] # "domain" => ValidateAddress(u.host)

(* The refusals of fetch_inner before its loop. *)
Refusal(stored) ==
    IF ~Acceptable(stored, FetchPolicy) THEN "Url"
    ELSE IF ~ValidLiteral(Normalized(stored)) THEN "AddressPolicy"
    ELSE "none"

(* A call with its permits: a slot at or past the deadline fails it,       *)
(* another slot is waited for, and a free one starts it.                   *)
Admitted(u, start) ==
    IF start > now /\ start >= now + TotalTimeout
    THEN NewCall("leaving", u, now + TotalTimeout, start, {u}, "TimeoutTotal")
    ELSE NewCall(IF start > now THEN "pacing" ELSE "resolving", u, now + TotalTimeout, start, {u}, "none")

(* fetch_inner up to its loop, for a URL the intake stored.  A slot that   *)
(* is refused or not waited for stays reserved.                            *)
Submit(f, stored) ==
    LET u == Normalized(stored)
        call == IF Free(admission, u.host) THEN Admitted(u, Slot(admission, u.host)) ELSE Done("Overloaded")
    IN  /\ fetch[f].pc = "idle"
        /\ now + TotalTimeout <= Horizon
        /\ \/ /\ Refusal(stored) # "none"
              /\ fetch' = [fetch EXCEPT ![f] = Done(Refusal(stored))]
              /\ UNCHANGED <<admission, lastBegan>>
           \/ /\ Refusal(stored) = "none"
              /\ fetch' = [fetch EXCEPT ![f] = call]
              /\ admission' = TryEnter(admission, u.host)
              /\ lastBegan' = IF call.pc = "resolving" THEN [lastBegan EXCEPT ![u.host] = now] ELSE lastBegan
        /\ UNCHANGED now

(* The reserved slot, or the end of a retry delay, starts an attempt. *)
Wake(f) ==
    /\ fetch[f].pc \in {"pacing", "backoff"}
    /\ now = fetch[f].timer
    /\ fetch' = [fetch EXCEPT ![f].pc = "resolving"]
    /\ lastBegan' = IF fetch[f].pc = "pacing" THEN [lastBegan EXCEPT ![fetch[f].url.host] = now] ELSE lastBegan
    /\ UNCHANGED <<now, admission>>

(* The successful answers to a lookup of the host of u, as text: an IPv4   *)
(* address is its own answer, an IPv6 address in its brackets has none.    *)
Lookups(u) == CASE u.host[1] = "domain" -> Answers [] u.host[1] = "v4" -> {{u.host}} [] OTHER -> {}

(* Variant: the first byte has its own allowance, whatever is left. *)
Resolve_OwnAllowance(f) ==
    /\ fetch[f].pc = "resolving"
    /\ \E answer \in Lookups(fetch[f].url) : ResolveHost(answer)
    /\ fetch' = [fetch EXCEPT ![f].pc = "connecting", ![f].timer = now + FirstByteTimeout,
                              ![f].requested = Append(@, fetch[f].url)]
    /\ UNCHANGED <<now, admission, lastBegan>>

(* resolve_before_send accepts an answer, and the request is sent. *)
Resolve(f) ==
    /\ fetch[f].pc = "resolving"
    /\ \E answer \in Lookups(fetch[f].url) : ResolveHost(answer)
    /\ fetch' = [fetch EXCEPT ![f].pc = "connecting",
                              ![f].timer = Earlier(fetch[f].deadline, now + FirstByteTimeout),
                              ![f].requested = Append(@, fetch[f].url)]
    /\ UNCHANGED <<now, admission, lastBegan>>

(* resolve_before_send refuses an answer, or has none; neither is retried. *)
ResolveRefused(f) ==
    /\ fetch[f].pc = "resolving"
    /\ \/ /\ \E answer \in Lookups(fetch[f].url) : answer # {} /\ ~ResolveHost(answer)
          /\ Return(f, "AddressPolicy")
       \/ fetch[f].url.host[1] # "v4" /\ Return(f, "Dns")

(* Variant: the client looks the name up by itself. *)
Connect_OwnLookup(f) ==
    /\ fetch[f].pc = "connecting"
    /\ \E answer \in Lookups(fetch[f].url) : \E address \in answer : fetch' = [fetch EXCEPT ![f].pc = "sending", ![f].peer = address]
    /\ UNCHANGED <<now, admission, lastBegan>>

(* The client connects.  It looks a name up again, through the validating  *)
(* resolver, and takes any address of the new answer; an address it goes   *)
(* to as it is.  A pooled connection is to the address of an earlier such  *)
(* answer, which is a possible answer now.                                 *)
Connect(f) ==
    /\ fetch[f].pc = "connecting"
    /\ \E address \in IF fetch[f].url.host[1] = "domain" THEN UNION {answer \in Answers : ResolveHost(answer)}
                      ELSE {fetch[f].url.host} :
            fetch' = [fetch EXCEPT ![f].pc = "sending", ![f].peer = address]
    /\ UNCHANGED <<now, admission, lastBegan>>

(* The ceiling of the jitter of retry::delay. *)
Ceiling(retryIndex) == BackoffUnit * 2 ^ Earlier(retryIndex, 6)

(* The delay before the next attempt: the jitter, and no less than the     *)
(* valid Retry-After of the answer (0 when it has none).                   *)
Retry(f, retryAfter) ==
    \E jitter \in 0 .. Ceiling(fetch[f].retries) :
        /\ fetch' = [fetch EXCEPT ![f].pc = "backoff", ![f].retries = @ + 1, ![f].peer = NoPeer,
                                  ![f].timer = now + Later(retryAfter, jitter)]
        /\ UNCHANGED <<now, admission, lastBegan>>

(* Variant: the count of retries starts again at each failure. *)
Unreachable_Uncounted(f) ==
    /\ fetch[f].pc \in {"connecting", "sending"}
    /\ fetch[f].retries < MaxRetries
    /\ fetch' = [fetch EXCEPT ![f].pc = "backoff", ![f].peer = NoPeer, ![f].timer = now + BackoffUnit]
    /\ UNCHANGED <<now, admission, lastBegan>>

(* The transport fails: the client's own lookup, also when the policy      *)
(* refuses its answer, the connection, or the exchange.                    *)
Unreachable(f) ==
    /\ fetch[f].pc \in {"connecting", "sending"}
    /\ \/ fetch[f].retries < MaxRetries /\ Retry(f, 0)
       \/ fetch[f].retries >= MaxRetries /\ Return(f, "Transport")

(* A transient status, with or without a Retry-After header. *)
Transient(f) ==
    /\ fetch[f].pc = "sending"
    /\ \/ /\ fetch[f].retries < MaxRetries
          /\ \E retryAfter \in RetryAfters \cup {0} : Retry(f, retryAfter)
       \/ fetch[f].retries >= MaxRetries /\ Return(f, "RemoteStatus")

(* A redirect: the guard of the old host drops.  The new one is entered in *)
(* a lock section of its own, and other calls may come in between.         *)
Redirect(f, location) ==
    /\ fetch[f].pc = "sending"
    /\ fetch[f].hop < MaxRedirects
    /\ Acceptable(location, FetchPolicy)
    /\ ValidLiteral(Normalized(location))
    /\ fetch' = [fetch EXCEPT ![f].pc = "hopping", ![f].url = Normalized(location), ![f].peer = NoPeer]
    /\ admission' = Held(f)
    /\ UNCHANGED <<now, lastBegan>>

(* A call at the next hop, with its old deadline and retries. *)
Followed(c) ==
    [pc |-> "resolving", url |-> c.url, deadline |-> c.deadline, timer |-> c.timer, hop |-> c.hop + 1,
     retries |-> c.retries, visited |-> c.visited \cup {c.url}, requested |-> c.requested,
     peer |-> NoPeer, result |-> c.result]

(* The second half of a redirect.  The slot that try_enter reserves is not *)
(* waited for; a loop is found with the permit of the new host in hand.    *)
Reenter(f) ==
    LET u == fetch[f].url
    IN  /\ fetch[f].pc = "hopping"
        /\ admission' = TryEnter(admission, u.host)
        /\ \/ ~Free(admission, u.host) /\ fetch' = [fetch EXCEPT ![f] = Done("Overloaded")]
           \/ /\ Free(admission, u.host) /\ u \in fetch[f].visited
              /\ fetch' = [fetch EXCEPT ![f].pc = "leaving", ![f].result = "RedirectLoop"]
           \/ /\ Free(admission, u.host) /\ u \notin fetch[f].visited
              /\ fetch' = [fetch EXCEPT ![f] = Followed(fetch[f])]
        /\ UNCHANGED <<now, lastBegan>>

(* The return of a call that got a permit only to fail. *)
GiveUp(f) == fetch[f].pc = "leaving" /\ Return(f, fetch[f].result)

(* A redirect beyond the limit, without a location, or to one that does    *)
(* not normalize or is an address that the policy refuses.                 *)
RedirectRefused(f) ==
    /\ fetch[f].pc = "sending"
    /\ \/ fetch[f].hop = MaxRedirects /\ Return(f, "RedirectLimit")
       \/ fetch[f].hop < MaxRedirects /\ Return(f, "RedirectLocation")
       \/ /\ fetch[f].hop < MaxRedirects
          /\ \E location \in Locations :
                \/ ~Acceptable(location, FetchPolicy) /\ Return(f, "Url")
                \/ /\ Acceptable(location, FetchPolicy) /\ ~ValidLiteral(Normalized(location))
                   /\ Return(f, "AddressPolicy")

(* Any other status.  A 304 needs the prior record of this call. *)
Answer(f) ==
    /\ fetch[f].pc = "sending"
    /\ \/ f \notin Cached /\ Return(f, "CacheIntegrity")
       \/ Return(f, "RemoteStatus")
       \/ \E next \in {"body"} \cup (IF f \in Cached THEN {"reuse"} ELSE {}) :
            /\ fetch' = [fetch EXCEPT ![f].pc = next]
            /\ UNCHANGED <<now, admission, lastBegan>>

(* store_response or reuse_prior ends before the deadline. *)
Finish(f) ==
    /\ fetch[f].pc \in {"body", "reuse"}
    /\ \E r \in IF fetch[f].pc = "body" THEN {"Fresh", "Body"} ELSE {"Revalidated", "CacheIntegrity"} :
            Return(f, r)

(* Variant: the body is read without the total deadline. *)
Expire_FirstByteOnly(f) ==
    /\ fetch[f].pc \in {"connecting", "sending"}
    /\ now = fetch[f].timer
    /\ Return(f, IF now = fetch[f].deadline THEN "TimeoutTotal" ELSE "TimeoutFirstByte")

(* The timers: the total deadline of every phase that awaits under it, and *)
(* the first-byte deadline.  A retry delay that ends at the deadline ends  *)
(* in time: timeout_at polls the sleep first.                              *)
Expire(f) ==
    \/ /\ fetch[f].pc \in {"resolving", "body", "reuse"}
       /\ now = fetch[f].deadline
       /\ Return(f, "TimeoutTotal")
    \/ /\ fetch[f].pc = "backoff"
       /\ now = fetch[f].deadline
       /\ fetch[f].timer > now
       /\ Return(f, "TimeoutTotal")
    \/ /\ fetch[f].pc \in {"connecting", "sending"}
       /\ now = fetch[f].timer
       /\ Return(f, IF now = fetch[f].deadline THEN "TimeoutTotal" ELSE "TimeoutFirstByte")

(* The instant by which tokio ends the current await of a call. *)
DueAt(f) ==
    CASE fetch[f].pc \in {"pacing", "connecting", "sending"} -> fetch[f].timer
      [] fetch[f].pc = "backoff" -> Earlier(fetch[f].timer, fetch[f].deadline)
      [] OTHER -> fetch[f].deadline

Tick ==
    /\ now < Horizon
    /\ \A f \in Fetches : Live(f) => now < DueAt(f)
    /\ now' = now + 1
    /\ UNCHANGED <<admission, fetch, lastBegan>>

Next ==
    \/ Tick
    \/ \E f \in Fetches :
        \/ Wake(f) \/ Resolve(f) \/ ResolveRefused(f) \/ Connect(f) \/ Unreachable(f) \/ Transient(f)
        \/ RedirectRefused(f) \/ Reenter(f) \/ GiveUp(f) \/ Answer(f) \/ Finish(f) \/ Expire(f)
        \/ \E stored \in StoredUrls : Submit(f, stored)
        \/ \E location \in Locations : Redirect(f, location)

Spec == Init /\ [][Next]_vars

(* The clock goes on, the timers of tokio fire, in whatever order, and a   *)
(* call does not stop within a redirect or a return, where it awaits none. *)
(* Nothing is assumed of the remote side: it may never answer, resolve, or *)
(* end a body.                                                             *)
Timers == Tick \/ \E f \in Fetches : Wake(f) \/ Expire(f) \/ Reenter(f) \/ GiveUp(f)

Fairness == WF_vars(Timers)

LiveSpec == Spec /\ Fairness

---------------------------------------------------------------------------

Call == [pc : Phases, url : Urls, deadline : Nat, timer : Nat, hop : Nat, retries : Nat,
         visited : SUBSET Urls, requested : Seq(Urls), peer : Addresses \cup {NoPeer},
         result : Errors \cup {"none", "Fresh", "Revalidated"}]

TypeOK ==
    /\ now \in 0 .. Horizon
    /\ admission \in [global : 0 .. GlobalLimit, perHost : [Hosts -> 0 .. PerHostLimit],
                      nextAllowed : [Hosts -> Nat]]
    /\ fetch \in [Fetches -> Call]
    /\ \A f \in Fetches : fetch[f].pc \in {"sending", "body", "reuse"} <=> fetch[f].peer # NoPeer
    /\ lastBegan \in [Hosts -> Int]

(* The admission counters are exactly the calls with a guard, per host the *)
(* ones whose current URL is on it: across redirects between hosts, when   *)
(* another call takes the permit that a redirect gave up, and on every     *)
(* early return a permit is neither lost nor returned twice, so the two    *)
(* limits of TypeOK bound the requests in flight (AdmissionGuard).         *)
PermitsAreExact ==
    /\ TypeOK
    /\ admission.global = Cardinality({f \in Fetches : Guarded(f)})
    /\ \A h \in Hosts :
        admission.perHost[h] = Cardinality({f \in Fetches : Guarded(f) /\ fetch[f].url.host = h})

(* No await of a call outlives the total timeout counted from its start:   *)
(* not pacing, nor a redirect, a retry delay or the first-byte allowance   *)
(* of a late attempt.                                                      *)
OneBudget ==
    /\ \A f \in Fetches : Live(f) =>
        /\ now <= fetch[f].deadline
        /\ fetch[f].pc \in {"pacing", "connecting", "sending"} => fetch[f].timer <= fetch[f].deadline

(* The requests of a call form one redirect chain: a URL it left by a      *)
(* redirect is not requested again, through any number of retries, and     *)
(* retries are counted over the whole operation, so there is at most one   *)
(* request per hop and MaxRetries more.                                    *)
RequestsFormAChain ==
    \A f \in Fetches : LET sent == fetch[f].requested IN
        /\ Len(sent) <= 1 + fetch[f].hop + MaxRetries
        /\ \A i, j \in DOMAIN sent : sent[i] = sent[j] => \A k \in i .. j : sent[k] = sent[i]

(* No request leaves for an address of a special-purpose block, whatever   *)
(* names and literals redirects lead through: also when the name answered  *)
(* otherwise in resolve_before_send than in the client's own lookup, and   *)
(* when an answer mixes addresses (ValidatingResolver, validate_literal).  *)
(* The one exception is the part of 2001::/23 that blocked_ipv6 does not   *)
(* name, although the requirement is to deny every non-global address.     *)
ContactsAreGlobal ==
    \A f \in Fetches : LET peer == fetch[f].peer IN
        peer # NoPeer => ~Special(peer) \/ UnnamedAssignment(peer)

(* Reference: the pairs a normal form keeps, each with its rank. *)
KeptPairs(query) ==
    LET kept == {i \in DOMAIN query : query[i][1] \notin TrackingKeys}
        ranked == {<<Cardinality({j \in kept : j <= i}), query[i]>> : i \in kept}
    IN  IF ranked = {<<1, <<"", "">>>>} THEN {} ELSE ranked

SameTarget(s, t) ==
    /\ s.scheme = t.scheme /\ s.host = t.host /\ s.path = t.path
    /\ EffectivePort(s) = EffectivePort(t)
    /\ KeptPairs(s.query) = KeptPairs(t.query)

(* The key of a source is stable: two accepted commands share it exactly   *)
(* when they name one target, and normalizing it again, as every fetch     *)
(* does, neither changes nor refuses it nor moves it to another route.     *)
StableKeys ==
    LET accepted == {s \in Sources : Acceptable(s, IntakePolicy)}
    IN  \A s \in accepted :
            /\ Acceptable(Normalized(s), IntakePolicy)
            /\ Normalized(Normalized(s)) = Normalized(s)
            /\ Classify(Normalized(s), PdfNames) = Classify(s, PdfNames)
            /\ \A t \in accepted : Normalized(s) = Normalized(t) <=> SameTarget(s, t)

NormalForms == {u \in Urls : Acceptable(u, FetchPolicy) /\ Normalized(u) = u /\ \A v \in Urls : SameTarget(u, v) => u = v}

(* What the intake stored is what a run fetches: StableKeys, and at every  *)
(* hop a call is at a normal form, so that its visited URLs, by which a    *)
(* redirect loop is found, are targets and not spellings.                  *)
RoutingIsStable ==
    /\ StableKeys
    /\ \A f \in Fetches : Live(f) =>
        /\ {fetch[f].url} \cup fetch[f].visited \subseteq NormalForms
        /\ Guarded(f) => fetch[f].url \in fetch[f].visited

(* The first attempts toward one host begin MinInterval apart, also when   *)
(* reservations in between were refused or given up.                       *)
FirstAttemptsAreSpaced ==
    [][\A f \in Fetches :
        fetch[f].pc \in {"idle", "pacing"} /\ fetch'[f].pc = "resolving"
            => now >= lastBegan[fetch'[f].url.host] + MinInterval]_vars

(* Every call returns, also when the remote side never does anything.      *)
EveryFetchReturns == <>[](\A f \in Fetches : ~Live(f))
=============================================================================
