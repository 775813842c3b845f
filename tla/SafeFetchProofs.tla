------------------------- MODULE SafeFetchProofs -------------------------
(***************************************************************************)
(* The destination policy of crates/url-routing for all addresses, and the *)
(* calls of SafeFetch for any number of calls, any URLs, limits and        *)
(* answers: their time budget, their destinations and their requests.      *)
(***************************************************************************)
EXTENDS SafeFetch, TLAPS

(* blocked_ipv4 refuses every octet combination of a special block. *)
LEMMA Ipv4Policy ==
    ASSUME NEW a \in Octet, NEW b \in Octet, NEW c \in Octet, NEW d \in Octet,
           SpecialIpv4(256 * a + b, 256 * c + d)
    PROVE  BlockedIpv4(<<a, b, c, d>>)
<1> DEFINE o == <<a, b, c, d>>
           hi == 256 * a + b
           lo == 256 * c + d
<1>0. o[1] = a /\ o[2] = b /\ o[3] = c /\ o[4] = d
    OBVIOUS
<1>1. a = 0 \/ a = 10 \/ a = 127 \/ a >= 224 \/ (a = 100 /\ b \in 64 .. 127) \/ (a = 169 /\ b = 254)
      \/ (a = 172 /\ b \in 16 .. 31) \/ (a = 192 /\ b = 168) \/ (a = 198 /\ b \in {18, 19})
      \/ (a = 192 /\ b = 0 /\ c \in {0, 2}) \/ (a = 192 /\ b = 88 /\ c = 99)
      \/ (a = 198 /\ b = 51 /\ c = 100) \/ (a = 203 /\ b = 0 /\ c = 113)
    BY SMTT(60) DEF SpecialIpv4, Within, Octet
<1> HIDE DEF o
<1>2. BlockedIpv4(o)
    BY <1>0, <1>1, SMTT(60) DEF BlockedIpv4, Octet
<1>. QED
    BY <1>2 DEF o

(* blocked_ipv6 refuses every IPv6 address of a special block, a mapped    *)
(* IPv4 address included, but for the rest of 2001::/23.                   *)
LEMMA Ipv6Policy ==
    ASSUME NEW s \in Segments, ~UnnamedAssignment(<<"v6", s>>),
           IF IsMapped(s) THEN SpecialIpv4(256 * s[7][1] + s[7][2], 256 * s[8][1] + s[8][2])
           ELSE SpecialIpv6(s)
    PROVE  BlockedIpv6(s)
<1>1. \A i \in 1 .. 8 : s[i] \in Segment
    BY DEF Segments
<1>2. CASE IsMapped(s)
    <2>1. s[7][1] \in Octet /\ s[7][2] \in Octet /\ s[8][1] \in Octet /\ s[8][2] \in Octet
        BY <1>1 DEF Segment
    <2>2. BlockedIpv4(Mapped(s))
        BY <1>2, <2>1, Ipv4Policy DEF Mapped
    <2>. QED
        BY <1>2, <2>2 DEF BlockedIpv6
<1>3. CASE ~IsMapped(s)
    <2>1. SpecialIpv6(s)
        BY <1>3
    <2>2. CASE s[1][1] \notin \h20 .. \h3F \/ s[1] = <<\h20, \h02>>
        <3>1. IsReservedIpv6(s)
            BY <2>2 DEF IsReservedIpv6
        <3>. QED
            BY <1>3, <3>1 DEF BlockedIpv6
    <2>3. CASE s[1] = <<\h20, \h01>> /\ (s[2] = Zero \/ s[2] \in {0} \X (\h10 .. \h2F))
        <3>1. s[2] = Zero \/ (s[2][1] = 0 /\ (s[2][2] \in \h10 .. \h1F \/ s[2][2] \in \h20 .. \h2F))
            BY <2>3
        <3>2. IsReservedIpv6(s)
            BY <2>3, <3>1 DEF IsReservedIpv6
        <3>. QED
            BY <1>3, <3>2 DEF BlockedIpv6
    <2>4. CASE s[1] = <<\h20, \h01>> /\ (s[2] = <<\h0D, \hB8>> \/ (s[2] = <<0, 2>> /\ s[3] = Zero))
        BY <1>3, <2>4 DEF BlockedIpv6
    <2>5. CASE s[1] = <<\h3F, \hFF>>
        BY <1>3, <2>5 DEF BlockedIpv6
    <2>6. CASE IetfAssignment(s)
        <3>1. \/ s[2] = Zero \/ s[2] \in {0} \X (\h10 .. \h2F)
              \/ s[2] = <<0, 2>> /\ s[3] = Zero
            BY <2>6 DEF UnnamedAssignment
        <3>. QED
            BY <2>3, <2>4, <2>6, <3>1 DEF IetfAssignment
    <2>. QED
        BY <2>1, <2>2, <2>4, <2>5, <2>6 DEF SpecialIpv6
<1>. QED
    BY <1>2, <1>3

(* validate_address accepts no address of the special-purpose blocks but   *)
(* the ones of 2001::/23 that blocked_ipv6 does not name: for every IPv4   *)
(* and IPv6 address, IPv4 addresses in IPv6 form included.                 *)
THEOREM AcceptedIsGlobal ==
    ASSUME NEW address \in Addresses, ValidateAddress(address)
    PROVE  ~Special(address) \/ UnnamedAssignment(address)
<1>1. CASE address \in Ipv4
    <2>1. PICK a \in Octet, b \in Octet, c \in Octet, d \in Octet : address = <<"v4", <<a, b, c, d>>>>
        BY <1>1 DEF Ipv4
    <2>2. address[1] = "v4" /\ address[2] = <<a, b, c, d>>
        BY <2>1
    <2>3. ~BlockedIpv4(<<a, b, c, d>>)
        BY <2>2 DEF ValidateAddress
    <2>4. ~SpecialIpv4(256 * a + b, 256 * c + d)
        BY <2>3, Ipv4Policy
    <2>. QED
        BY <2>2, <2>4 DEF Special
<1>2. CASE address \in Ipv6
    <2> DEFINE s == address[2]
    <2>1. address[1] = "v6" /\ s \in Segments /\ address = <<"v6", s>>
        BY <1>2 DEF Ipv6
    <2>2. ~BlockedIpv6(s)
        BY <2>1 DEF ValidateAddress
    <2> HIDE DEF s
    <2>3. \/ UnnamedAssignment(address)
          \/ ~(IF IsMapped(s) THEN SpecialIpv4(256 * s[7][1] + s[7][2], 256 * s[8][1] + s[8][2]) ELSE SpecialIpv6(s))
        BY <2>1, <2>2, Ipv6Policy
    <2>. QED
        BY <2>1, <2>3 DEF Special, s
<1>. QED
    BY <1>1, <1>2 DEF Addresses

---------------------------------------------------------------------------
(* The steps of a call.                                                    *)

Counters == [global : Int, perHost : [Hosts -> Int], nextAllowed : [Hosts -> Nat]]

(* The types of the constants, one by one. *)
LEMMA ConstantTypes ==
    /\ GlobalLimit \in Nat /\ PerHostLimit \in Nat /\ TotalTimeout \in Nat /\ FirstByteTimeout \in Nat
    /\ MinInterval \in Nat /\ MaxRedirects \in Nat /\ MaxRetries \in Nat /\ Horizon \in Nat
BY FetchAssumption

Results == Errors \cup {"none", "Fresh", "Revalidated"}

(* What a call returns with is a call.                                     *)
LEMMA DoneType ==
    ASSUME NEW result \in Results
    PROVE  /\ Done(result) \in Call /\ Done(result).pc = "done" /\ Done(result).peer = NoPeer
           /\ Done(result).result = result
<1>1. AnyUrl \in Urls
  BY FetchAssumption DEF AnyUrl
<1> QED BY <1>1 DEF Done, NewCall, Call, Phases, Results

(* An admitted call is a call.                                             *)
LEMMA NewCallType ==
    ASSUME NEW pc \in {"pacing", "resolving", "leaving"}, NEW u \in Urls, NEW deadline \in Nat, NEW timer \in Nat,
           NEW result \in Results
    PROVE  LET c == NewCall(pc, u, deadline, timer, {u}, result)
           IN  /\ c \in Call /\ c.pc = pc /\ c.url = u /\ c.deadline = deadline /\ c.timer = timer
               /\ c.peer = NoPeer
BY DEF NewCall, Call, Phases, Results

(* The host of every URL a call can be at is one of the Hosts.             *)
LEMMA HostType == \A u \in Urls : u.host \in Hosts
BY DEF Hosts

(* Drop of an AdmissionGuard: one permit less, the slots stay.             *)
LEMMA LeaveFacts ==
    ASSUME NEW a \in Counters, NEW h \in Hosts
    PROVE  /\ Leave(a, h) \in Counters
           /\ Leave(a, h).global = a.global - 1
           /\ Leave(a, h).perHost = [a.perHost EXCEPT ![h] = @ - 1]
           /\ Leave(a, h).nextAllowed = a.nextAllowed
BY DEF Leave, Counters

(* try_enter: the slot advances in any case, the permits when granted.     *)
LEMMA EnterFacts ==
    ASSUME NEW a \in Counters, now \in Nat, NEW h \in Hosts
    PROVE  LET e == TryEnter(a, h)
           IN  /\ e \in Counters
               /\ e.nextAllowed = Slots(a, h)
               /\ ~Free(a, h) => e.global = a.global /\ e.perHost = a.perHost
               /\ Free(a, h) => e.global = a.global + 1 /\ e.perHost = [a.perHost EXCEPT ![h] = @ + 1]
<1>1. Slots(a, h) \in [Hosts -> Nat]
  BY ConstantTypes DEF Slots, Slot, Later, Counters
<1> DEFINE e == TryEnter(a, h)
<1>2. /\ e.global = IF Free(a, h) THEN a.global + 1 ELSE a.global
      /\ e.perHost = IF Free(a, h) THEN [a.perHost EXCEPT ![h] = @ + 1] ELSE a.perHost
      /\ e.nextAllowed = Slots(a, h)
      /\ e = [global |-> e.global, perHost |-> e.perHost, nextAllowed |-> e.nextAllowed]
  BY DEF TryEnter
<1> HIDE DEF e
<1>3. e.global \in Int /\ e.perHost \in [Hosts -> Int]
  BY <1>2 DEF Counters
<1>4. e \in Counters
  BY <1>1, <1>2, <1>3 DEF Counters
<1> QED BY <1>2, <1>4 DEF e

(* The slot of a request is an instant that has not passed.                *)
LEMMA SlotType ==
    ASSUME NEW a \in Counters, now \in Nat, NEW h \in Hosts
    PROVE  Slot(a, h) \in Nat /\ Slot(a, h) >= now
<1>1. a.nextAllowed[h] \in Nat
  BY DEF Counters
<1> QED BY <1>1 DEF Slot, Later

(* try_enter never moves a slot back.                                      *)
LEMMA SlotsAdvance ==
    ASSUME NEW a \in Counters, now \in Nat, NEW h \in Hosts
    PROVE  /\ Slots(a, h) \in [Hosts -> Nat]
           /\ \A k \in Hosts : Slots(a, h)[k] >= a.nextAllowed[k]
<1>1. Slots(a, h) \in [Hosts -> Nat]
  BY ConstantTypes DEF Slots, Slot, Later, Counters
<1>2. ASSUME NEW k \in Hosts PROVE Slots(a, h)[k] >= a.nextAllowed[k]
  BY ConstantTypes DEF Slots, Slot, Later, Counters
<1> QED BY <1>1, <1>2

(* The counters are integers, the slots instants; the limits of TypeOK     *)
(* need the count of the calls.                                            *)
Types ==
    /\ now \in 0 .. Horizon /\ admission \in Counters /\ fetch \in [Fetches -> Call]
    /\ \A f \in Fetches : fetch[f].pc \in {"sending", "body", "reuse"} <=> fetch[f].peer # NoPeer
    /\ lastBegan \in [Hosts -> Int]

(* The guard of a call that drops leaves the slots.                        *)
LEMMA HeldSlots ==
    ASSUME Types, NEW f \in Fetches
    PROVE  Held(f) \in Counters /\ Held(f).nextAllowed = admission.nextAllowed
BY HostType, LeaveFacts, Zenon DEF Held, Types, Call

(* No address is the placeholder of a call without a connection.           *)
LEMMA NoPeerIsNoAddress == NoPeer \notin Addresses
BY DEF NoPeer, Addresses, Ipv4, Ipv6

(* The hosts of the URLs are names or addresses: normalize keeps the host, *)
(* and refuses a URL without one.                                          *)
LEMMA HostsAreTyped == \A u \in Urls : u.host \in Domains \cup Addresses
<1> SUFFICES ASSUME NEW u \in Urls PROVE u.host \in Domains \cup Addresses
  OBVIOUS
<1>1. PICK t \in StoredUrls \cup Locations : Acceptable(t, FetchPolicy) /\ u = Normalized(t)
  BY DEF Urls
<1>2. PICK v \in Sources \cup Locations : t.host = v.host
  BY DEF StoredUrls, Normalized
<1>3. v \in Url /\ t.host # NoHost
  BY <1>1, FetchAssumption DEF Acceptable
<1> QED BY <1>1, <1>2, <1>3 DEF Normalized, Url

(* The client connects to an address of a validated answer, or to the host *)
(* of the URL when that is an address.                                     *)
LEMMA ConnectsToAddress ==
    ASSUME Types, NEW f \in Fetches, Connect(f)
    PROVE  \E address \in Addresses :
              /\ fetch' = [fetch EXCEPT ![f].pc = "sending", ![f].peer = address]
              /\ ValidLiteral(fetch[f].url) => ValidateAddress(address)
<1> DEFINE u == fetch[f].url
<1>1. u \in Urls /\ u.host \in Domains \cup Addresses
  BY HostsAreTyped DEF Types, Call
<1>2. CASE u.host[1] = "domain"
  <2>1. PICK address \in UNION {answer \in Answers : ResolveHost(answer)} :
            fetch' = [fetch EXCEPT ![f].pc = "sending", ![f].peer = address]
    BY <1>2, Zenon DEF Connect
  <2>2. address \in Addresses /\ ValidateAddress(address)
    BY <2>1, FetchAssumption DEF ResolveHost
  <2> QED BY <2>1, <2>2, Zenon
<1>3. CASE u.host[1] # "domain"
  <2>1. u.host \in Addresses
    BY <1>1, <1>3 DEF Domains
  <2>2. fetch' = [fetch EXCEPT ![f].pc = "sending", ![f].peer = u.host]
    BY <1>3, Zenon DEF Connect
  <2>3. ValidLiteral(u) => ValidateAddress(u.host)
    BY <1>3 DEF ValidLiteral
  <2> QED BY <2>1, <2>2, <2>3, Zenon
<1> QED BY <1>2, <1>3

(* A URL that is not refused is one that a call can be at.                 *)
LEMMA NotRefused ==
    ASSUME NEW t \in StoredUrls \cup Locations, Acceptable(t, FetchPolicy)
    PROVE  Normalized(t) \in Urls /\ Normalized(t).host \in Hosts
BY DEF Urls, Hosts

(* What a redirect makes of a call.                                        *)
LEMMA FollowFacts ==
    ASSUME NEW c \in Call
    PROVE  LET d == Followed(c)
           IN  d \in Call /\ d.pc = "resolving" /\ d.url = c.url /\ d.peer = NoPeer /\ d.deadline = c.deadline
BY DEF Followed, Call, Phases

(* The counters without f. *)
Base(f) == IF Guarded(f) THEN Held(f) ELSE admission

(* The call f goes on, at the same URL and with the same deadline; a timer *)
(* of its attempt is within the deadline, a new peer is an address that    *)
(* was validated, and only the end of its pacing is a start.               *)
Stays(f) ==
    /\ Guarded(f) /\ Guarded(f)'
    /\ UNCHANGED <<now, admission>>
    /\ fetch' \in [Fetches -> Call]
    /\ \A g \in Fetches : g # f => fetch'[g] = fetch[g]
    /\ fetch'[f].url = fetch[f].url /\ fetch'[f].deadline = fetch[f].deadline
    /\ fetch'[f].pc \in {"sending", "body", "reuse"} <=> fetch'[f].peer # NoPeer
    /\ fetch'[f].pc # "pacing"
    /\ fetch'[f].pc \in {"connecting", "sending"} =>
        \/ fetch'[f].timer <= fetch[f].deadline
        \/ fetch'[f].timer = fetch[f].timer /\ fetch[f].pc \in {"connecting", "sending"}
    /\ \/ fetch'[f].peer \in {fetch[f].peer, NoPeer}
       \/ fetch'[f].peer \in Addresses /\ (ValidLiteral(fetch[f].url) => ValidateAddress(fetch'[f].peer))
    /\ IF fetch[f].pc = "pacing"
       THEN /\ now = fetch[f].timer /\ fetch'[f].pc = "resolving"
            /\ lastBegan' = [lastBegan EXCEPT ![fetch[f].url.host] = now]
       ELSE lastBegan' = lastBegan

(* The call f returns, or is refused; it holds no permit then.             *)
Ends(f) ==
    /\ \E result \in Results : fetch' = [fetch EXCEPT ![f] = Done(result)]
    /\ UNCHANGED <<now, lastBegan>>
    /\ admission' \in Counters
    /\ admission'.global = Base(f).global /\ admission'.perHost = Base(f).perHost
    /\ \A h \in Hosts : admission'.nextAllowed[h] >= admission.nextAllowed[h]

(* The call f gives its permit up within a redirect, to c.                 *)
Hops(f, c) ==
    /\ Guarded(f) /\ fetch[f].pc = "sending" /\ fetch' = [fetch EXCEPT ![f] = c]
    /\ UNCHANGED <<now, lastBegan>> /\ admission' = Held(f)
    /\ c \in Call /\ c.pc = "hopping" /\ c.peer = NoPeer /\ ValidLiteral(c.url)
    /\ c.deadline = fetch[f].deadline

(* The call f becomes c, with a permit of the host of c.                   *)
Enters(f, c) ==
    /\ fetch' = [fetch EXCEPT ![f] = c] /\ now' = now
    /\ c \in Call /\ c.peer = NoPeer
    /\ ValidLiteral(c.url) \/ (Live(f) /\ c.url = fetch[f].url)
    /\ Free(Base(f), c.url.host) /\ admission' = TryEnter(Base(f), c.url.host)

(* Its first hop: it begins now, has a slot before its deadline, or fails. *)
Starts(f, c) ==
    /\ fetch[f].pc = "idle" /\ Enters(f, c)
    /\ c.timer = Slot(admission, c.url.host) /\ c.deadline = now + TotalTimeout
    /\ \/ c.timer > now /\ c.pc = "pacing" /\ c.timer < c.deadline /\ lastBegan' = lastBegan
       \/ c.pc = "leaving" /\ lastBegan' = lastBegan
       \/ c.timer = now /\ c.pc = "resolving" /\ lastBegan' = [lastBegan EXCEPT ![c.url.host] = now]

(* A later hop, or a loop. *)
Follows(f, c) ==
    /\ fetch[f].pc = "hopping" /\ Enters(f, c)
    /\ c.pc \in {"resolving", "leaving"} /\ c.deadline = fetch[f].deadline /\ lastBegan' = lastBegan

(* The call returns, and its permit with it.                               *)
Returns(f) == Guarded(f) /\ \E result \in Results : Return(f, result)

(* In every step but the first and a redirect a call stays or returns.     *)
LEMMA StayOrReturn ==
    ASSUME Types, NEW f \in Fetches,
           \/ Wake(f) \/ Resolve(f) \/ ResolveRefused(f) \/ Connect(f) \/ Unreachable(f) \/ Transient(f)
           \/ RedirectRefused(f) \/ GiveUp(f) \/ Answer(f) \/ Finish(f) \/ Expire(f)
    PROVE  Stays(f) \/ Returns(f)
<1>0. /\ fetch \in [Fetches -> Call] /\ now \in Nat /\ fetch[f] \in Call
      /\ fetch[f].pc \in {"sending", "body", "reuse"} <=> fetch[f].peer # NoPeer
  BY DEF Types
<1> DEFINE c == fetch'[f]
           Good == /\ fetch' \in [Fetches -> Call]
                   /\ \A g \in Fetches : g # f => fetch'[g] = fetch[g]
                   /\ c.url = fetch[f].url /\ c.deadline = fetch[f].deadline
<1>1. CASE Wake(f)
  <2>1. Good /\ c.pc = "resolving" /\ c.peer = fetch[f].peer
    BY <1>0, <1>1, Zenon DEF Wake, Call, Phases
  <2>2. /\ fetch[f].pc \in {"pacing", "backoff"} /\ UNCHANGED <<now, admission>> /\ now = fetch[f].timer
        /\ lastBegan' = IF fetch[f].pc = "pacing" THEN [lastBegan EXCEPT ![fetch[f].url.host] = now] ELSE lastBegan
    BY <1>1 DEF Wake
  <2> HIDE DEF NoPeer
  <2> QED BY <1>0, <2>1, <2>2 DEF Stays, Live, Guarded
<1>2. CASE Resolve(f)
  <2> DEFINE sent == Append(fetch[f].requested, fetch[f].url)
             timer == Earlier(fetch[f].deadline, now + FirstByteTimeout)
  <2>1. timer \in Nat /\ timer <= fetch[f].deadline
    BY <1>0, ConstantTypes DEF Earlier, Call
  <2>2. sent \in Seq(Urls)
    BY <1>0 DEF Call
  <2>3. fetch' = [fetch EXCEPT ![f].pc = "connecting", ![f].timer = timer, ![f].requested = sent]
    BY <1>2 DEF Resolve
  <2> HIDE DEF sent, timer
  <2>4. Good /\ c.pc = "connecting" /\ c.peer = fetch[f].peer /\ c.timer = timer
    BY <1>0, <2>1, <2>2, <2>3, Zenon DEF Call, Phases
  <2>5. fetch[f].pc = "resolving" /\ UNCHANGED <<now, admission, lastBegan>>
    BY <1>2 DEF Resolve
  <2> HIDE DEF NoPeer
  <2> QED BY <1>0, <2>1, <2>4, <2>5 DEF Stays, Live, Guarded
<1>3. CASE ResolveRefused(f)
  BY <1>3 DEF ResolveRefused, Returns, Live, Guarded, Results, Errors
<1>4. CASE Connect(f)
  <2>1. PICK address \in Addresses :
            /\ fetch' = [fetch EXCEPT ![f].pc = "sending", ![f].peer = address]
            /\ ValidLiteral(fetch[f].url) => ValidateAddress(address)
    BY <1>4, ConnectsToAddress
  <2>2. Good /\ c.pc = "sending" /\ c.peer = address /\ c.timer = fetch[f].timer
    BY <1>0, <2>1, Zenon DEF Call, Phases
  <2>3. fetch[f].pc = "connecting" /\ UNCHANGED <<now, admission, lastBegan>>
    BY <1>4 DEF Connect
  <2> QED BY <2>1, <2>2, <2>3, NoPeerIsNoAddress DEF Stays, Live, Guarded
<1>5. ASSUME NEW after \in Nat, Retry(f, after), fetch[f].pc \in {"connecting", "sending"} PROVE Stays(f)
  <2>1. PICK jitter \in 0 .. Ceiling(fetch[f].retries) :
          /\ fetch' = [fetch EXCEPT ![f].pc = "backoff", ![f].retries = @ + 1, ![f].peer = NoPeer,
                                    ![f].timer = now + Later(after, jitter)]
          /\ UNCHANGED <<now, admission, lastBegan>>
    BY <1>5, Zenon DEF Retry
  <2> DEFINE timer == now + Later(after, jitter)
             count == fetch[f].retries + 1
  <2>2. timer \in Nat /\ count \in Nat
    BY <1>0 DEF Later, Call
  <2>3. fetch' = [fetch EXCEPT ![f].pc = "backoff", ![f].retries = count, ![f].peer = NoPeer, ![f].timer = timer]
    BY <2>1
  <2> HIDE DEF timer, count, NoPeer
  <2>4. Good /\ c.pc = "backoff" /\ c.peer = NoPeer
    BY <1>0, <2>2, <2>3, Zenon DEF Call, Phases
  <2> QED BY <1>5, <2>1, <2>4 DEF Stays, Live, Guarded
<1>6. CASE Unreachable(f)
  BY <1>5, <1>6 DEF Unreachable, Returns, Live, Guarded, Results, Errors
<1>7. CASE Transient(f)
  <2>1. ASSUME NEW after \in RetryAfters \cup {0}, Retry(f, after), fetch[f].pc = "sending" PROVE Stays(f)
    BY <1>5, <2>1, FetchAssumption
  <2> QED BY <2>1, <1>7 DEF Transient, Returns, Live, Guarded, Results, Errors
<1>8. CASE RedirectRefused(f)
  BY <1>8 DEF RedirectRefused, Returns, Live, Guarded, Results, Errors
<1>9. CASE Answer(f)
  <2>1. ASSUME NEW next \in {"body", "reuse"}, fetch' = [fetch EXCEPT ![f].pc = next],
               UNCHANGED <<now, admission, lastBegan>>
        PROVE  Stays(f)
    <3>1. Good /\ c.pc = next /\ c.peer = fetch[f].peer
      BY <1>0, <2>1, Zenon DEF Call, Phases
    <3>2. fetch[f].pc = "sending"
      BY <1>9 DEF Answer
    <3> HIDE DEF NoPeer
    <3> QED BY <1>0, <2>1, <3>1, <3>2 DEF Stays, Live, Guarded
  <2> QED BY <1>9, <2>1 DEF Answer, Returns, Live, Guarded, Results, Errors
<1>10. CASE Finish(f)
  BY <1>10 DEF Finish, Returns, Live, Guarded, Results, Errors
<1>11. CASE Expire(f)
  BY <1>11 DEF Expire, Returns, Live, Guarded, Results, Errors
<1>12. CASE GiveUp(f)
  BY <1>0, <1>12 DEF GiveUp, Returns, Live, Guarded, Results, Call
<1> QED BY <1>1, <1>2, <1>3, <1>4, <1>6, <1>7, <1>8, <1>9, <1>10, <1>11, <1>12

(* The guard of a call that returns drops.                                 *)
LEMMA ReturnEnds ==
    ASSUME Types, NEW f \in Fetches, Returns(f)
    PROVE  Ends(f)
<1>1. PICK result \in Results : Return(f, result)
  BY DEF Returns
<1>2. /\ fetch' = [fetch EXCEPT ![f] = Done(result)] /\ UNCHANGED <<now, lastBegan>>
      /\ admission' = Held(f) /\ Base(f) = Held(f)
  BY <1>1, Zenon DEF Return, Returns, Base
<1>3. Held(f) \in Counters /\ Held(f).nextAllowed = admission.nextAllowed
  BY HeldSlots
<1>4. \A h \in Hosts : admission'.nextAllowed[h] >= admission.nextAllowed[h]
  BY <1>2, <1>3 DEF Counters
<1> QED BY <1>2, <1>3, <1>4, Zenon DEF Ends

(* What try_enter makes of the counters without f.                         *)
LEMMA BaseFacts ==
    ASSUME Types, NEW f \in Fetches, NEW h \in Hosts
    PROVE  LET a == Base(f)
           IN  /\ a \in Counters /\ a.nextAllowed = admission.nextAllowed
               /\ TryEnter(a, h) \in Counters /\ TryEnter(a, h).nextAllowed = Slots(a, h)
               /\ ~Free(a, h) => TryEnter(a, h).global = a.global /\ TryEnter(a, h).perHost = a.perHost
               /\ \A k \in Hosts : Slots(a, h)[k] >= admission.nextAllowed[k]
<1> DEFINE a == Base(f)
<1>1. now \in Nat
  BY ConstantTypes DEF Types
<1>2. a \in Counters /\ a.nextAllowed = admission.nextAllowed
  BY HeldSlots DEF Base, Types
<1> HIDE DEF a
<1>3. \A k \in Hosts : Slots(a, h)[k] >= admission.nextAllowed[k]
  BY <1>1, <1>2, SlotsAdvance
<1>4. /\ TryEnter(a, h) \in Counters /\ TryEnter(a, h).nextAllowed = Slots(a, h)
      /\ ~Free(a, h) => TryEnter(a, h).global = a.global /\ TryEnter(a, h).perHost = a.perHost
  BY <1>1, <1>2, EnterFacts, Zenon
<1> QED BY <1>2, <1>3, <1>4 DEF a

(* A call that is refused a permit ends.                                   *)
LEMMA OverloadEnds ==
    ASSUME Types, NEW f \in Fetches, NEW h \in Hosts, ~Guarded(f), ~Free(admission, h),
           fetch' = [fetch EXCEPT ![f] = Done("Overloaded")], UNCHANGED <<now, lastBegan>>,
           admission' = TryEnter(admission, h)
    PROVE  Ends(f)
<1>1. Base(f) = admission /\ "Overloaded" \in Results
  BY DEF Base, Results, Errors
<1>2. /\ admission' \in Counters /\ admission'.global = admission.global /\ admission'.perHost = admission.perHost
      /\ \A k \in Hosts : admission'.nextAllowed[k] >= admission.nextAllowed[k]
  BY <1>1, BaseFacts
<1> QED BY <1>1, <1>2, Zenon DEF Ends

(* fetch_inner before its loop ends the call, or starts it.                *)
LEMMA SubmitStep ==
    ASSUME Types, NEW f \in Fetches, NEW stored \in StoredUrls, Submit(f, stored)
    PROVE  Ends(f) \/ \E c : Starts(f, c)
<1> DEFINE u == Normalized(stored)
           h == u.host
           start == Slot(admission, h)
<1>1. fetch[f].pc = "idle" /\ now' = now /\ Base(f) = admission
  BY DEF Submit, Base, Live, Guarded
<1>2. admission \in Counters /\ now \in Nat
  BY ConstantTypes DEF Types
<1>3. CASE Refusal(stored) # "none"
  <2>1. Refusal(stored) \in Results
    BY DEF Refusal, Results, Errors
  <2>2. fetch' = [fetch EXCEPT ![f] = Done(Refusal(stored))] /\ UNCHANGED <<admission, lastBegan>>
    BY <1>3 DEF Submit
  <2>3. \A k \in Hosts : admission'.nextAllowed[k] >= admission.nextAllowed[k]
    BY <1>2, <2>2 DEF Counters
  <2> QED BY <1>1, <1>2, <2>1, <2>2, <2>3, Zenon DEF Ends
<1>4. CASE Refusal(stored) = "none"
  <2>1. u \in Urls /\ h \in Hosts /\ ValidLiteral(u)
    BY <1>4, NotRefused DEF Refusal
  <2>2. start \in Nat /\ start >= now
    BY <1>2, <2>1, SlotType
  <2>3. CASE ~Free(admission, h)
    <3>1. Done("Overloaded").pc = "done" /\ ~Guarded(f)
      BY <1>1, DoneType DEF Results, Errors, Guarded, Live
    <3>2. /\ fetch' = [fetch EXCEPT ![f] = Done("Overloaded")] /\ admission' = TryEnter(admission, h)
          /\ lastBegan' = lastBegan
      BY <1>4, <2>3, <3>1 DEF Submit
    <3> QED BY <1>1, <2>1, <2>3, <3>1, <3>2, OverloadEnds, Zenon
  <2>4. CASE Free(admission, h)
    <3> DEFINE late == start > now /\ start >= now + TotalTimeout
               pc == IF late THEN "leaving" ELSE IF start > now THEN "pacing" ELSE "resolving"
               result == IF late THEN "TimeoutTotal" ELSE "none"
               c == NewCall(pc, u, now + TotalTimeout, start, {u}, result)
    <3>1. pc \in {"pacing", "resolving", "leaving"} /\ now + TotalTimeout \in Nat /\ result \in Results
      BY <1>2, ConstantTypes DEF Results, Errors
    <3>2. /\ c \in Call /\ c.pc = pc /\ c.url = u /\ c.deadline = now + TotalTimeout /\ c.timer = start
          /\ c.peer = NoPeer
      <4> HIDE DEF pc, result
      <4> QED BY <2>1, <2>2, <3>1, NewCallType
    <3>3. Admitted(u, start) = c
      BY DEF Admitted
    <3> HIDE DEF c
    <3>4. /\ fetch' = [fetch EXCEPT ![f] = c] /\ admission' = TryEnter(admission, h)
          /\ lastBegan' = IF c.pc = "resolving" THEN [lastBegan EXCEPT ![h] = now] ELSE lastBegan
      BY <1>4, <2>4, <3>3 DEF Submit
    <3> HIDE DEF start, u, NoPeer
    <3>5. Enters(f, c)
      BY <1>1, <2>1, <2>4, <3>2, <3>4 DEF Enters
    <3>6. CASE late
      <4>1. c.pc = "leaving" /\ lastBegan' = lastBegan
        BY <3>2, <3>4, <3>6
      <4> QED BY <1>1, <3>2, <3>5, <4>1, Zenon DEF Starts, start
    <3>7. CASE ~late /\ start > now
      <4>1. c.pc = "pacing" /\ lastBegan' = lastBegan /\ start < now + TotalTimeout
        BY <1>2, <2>2, <3>1, <3>2, <3>4, <3>7
      <4> QED BY <1>1, <3>2, <3>5, <3>7, <4>1 DEF Starts, start
    <3>8. CASE ~late /\ start = now
      <4>1. c.pc = "resolving" /\ lastBegan' = [lastBegan EXCEPT ![h] = now]
        BY <1>2, <3>2, <3>4, <3>8
      <4> QED BY <1>1, <3>2, <3>5, <3>8, <4>1, Zenon DEF Starts, start
    <3> QED BY <1>2, <2>2, <3>6, <3>7, <3>8
  <2> QED BY <2>3, <2>4
<1> QED BY <1>3, <1>4

(* A redirect takes the call to its new URL, without a permit.             *)
LEMMA RedirectStep ==
    ASSUME Types, NEW f \in Fetches, NEW location \in Locations, Redirect(f, location)
    PROVE  \E c : Hops(f, c)
<1> DEFINE u == Normalized(location)
           c == [fetch[f] EXCEPT !.pc = "hopping", !.url = u, !.peer = NoPeer]
<1>1. /\ fetch[f].pc = "sending" /\ UNCHANGED <<now, lastBegan>> /\ admission' = Held(f)
      /\ Acceptable(location, FetchPolicy) /\ ValidLiteral(u)
      /\ fetch' = [fetch EXCEPT ![f].pc = "hopping", ![f].url = u, ![f].peer = NoPeer]
  BY DEF Redirect
<1>2. u \in Urls /\ fetch[f] \in Call /\ fetch \in [Fetches -> Call]
  BY <1>1, NotRefused DEF Types
<1> HIDE DEF u
<1>3. fetch' = [fetch EXCEPT ![f] = c]
  BY <1>1, <1>2
<1>4. c \in Call /\ c.pc = "hopping" /\ c.url = u /\ c.peer = NoPeer /\ c.deadline = fetch[f].deadline
  BY <1>2 DEF Call, Phases
<1>5. Guarded(f)
  BY <1>1 DEF Guarded, Live
<1> HIDE DEF c, NoPeer
<1> QED BY <1>1, <1>3, <1>4, <1>5, Zenon DEF Hops

(* The call enters its new host, or ends without a permit.                 *)
LEMMA ReenterStep ==
    ASSUME Types, NEW f \in Fetches, Reenter(f)
    PROVE  Ends(f) \/ \E c : Follows(f, c)
<1> DEFINE u == fetch[f].url
           h == u.host
<1>1. /\ fetch[f].pc = "hopping" /\ UNCHANGED <<now, lastBegan>> /\ Base(f) = admission
      /\ admission' = TryEnter(admission, h) /\ ~Guarded(f) /\ Live(f)
  BY DEF Reenter, Base, Live, Guarded
<1>2. u \in Urls /\ h \in Hosts /\ fetch[f] \in Call /\ fetch[f].peer = NoPeer /\ fetch \in [Fetches -> Call]
  BY <1>1, HostType DEF Types, Call
<1>3. CASE ~Free(admission, h)
  <2>1. fetch' = [fetch EXCEPT ![f] = Done("Overloaded")]
    BY <1>3 DEF Reenter
  <2> QED BY <1>1, <1>2, <1>3, <2>1, OverloadEnds, Zenon
<1>4. CASE Free(admission, h) /\ u \in fetch[f].visited
  <2> DEFINE c == [fetch[f] EXCEPT !.pc = "leaving", !.result = "RedirectLoop"]
  <2>1. fetch' = [fetch EXCEPT ![f].pc = "leaving", ![f].result = "RedirectLoop"]
    BY <1>4 DEF Reenter
  <2>2. fetch' = [fetch EXCEPT ![f] = c]
    BY <1>2, <2>1
  <2>3. c \in Call /\ c.pc = "leaving" /\ c.url = u /\ c.peer = NoPeer /\ c.deadline = fetch[f].deadline
    BY <1>2 DEF Call, Phases, Errors
  <2> HIDE DEF c, NoPeer
  <2> QED BY <1>1, <1>4, <2>2, <2>3, ZenonT(30) DEF Follows, Enters
<1>5. CASE Free(admission, h) /\ u \notin fetch[f].visited
  <2> DEFINE c == Followed(fetch[f])
  <2>1. fetch' = [fetch EXCEPT ![f] = c]
    BY <1>5 DEF Reenter
  <2>2. c \in Call /\ c.pc = "resolving" /\ c.url = u /\ c.peer = NoPeer /\ c.deadline = fetch[f].deadline
    BY <1>2, FollowFacts
  <2> HIDE DEF c, NoPeer
  <2> QED BY <1>1, <1>5, <2>1, <2>2, ZenonT(30) DEF Follows, Enters
<1> QED BY <1>3, <1>4, <1>5

(* The steps of SafeFetch.                                                 *)
LEMMA NextCases ==
    ASSUME Types, [Next]_vars
    PROVE  \/ Tick \/ UNCHANGED vars
           \/ \E f \in Fetches : Stays(f) \/ Ends(f) \/ \E c : Starts(f, c) \/ Hops(f, c) \/ Follows(f, c)
<1>1. ASSUME NEW f \in Fetches,
             \/ Wake(f) \/ Resolve(f) \/ ResolveRefused(f) \/ Connect(f) \/ Unreachable(f) \/ Transient(f)
             \/ RedirectRefused(f) \/ GiveUp(f) \/ Answer(f) \/ Finish(f) \/ Expire(f)
      PROVE  Stays(f) \/ Ends(f)
  BY <1>1, StayOrReturn, ReturnEnds
<1> QED BY <1>1, SubmitStep, RedirectStep, ReenterStep, Zenon DEF Next

(* What is left of the calls and the slots by a call that ends.            *)
LEMMA EndsFacts ==
    ASSUME Types, NEW f \in Fetches, Ends(f)
    PROVE  /\ fetch' \in [Fetches -> Call] /\ fetch'[f].pc = "done" /\ fetch'[f].peer = NoPeer
           /\ \A g \in Fetches : g # f => fetch'[g] = fetch[g]
           /\ UNCHANGED <<now, lastBegan>> /\ admission' \in Counters
<1>1. PICK result \in Results : fetch' = [fetch EXCEPT ![f] = Done(result)]
  BY Zenon DEF Ends
<1>2. Done(result) \in Call /\ Done(result).pc = "done" /\ Done(result).peer = NoPeer
  BY DoneType
<1> QED BY <1>1, <1>2 DEF Ends, Types

(* By a call that gives its permit up within a redirect.                   *)
LEMMA HopsFacts ==
    ASSUME Types, NEW f \in Fetches, NEW c, Hops(f, c)
    PROVE  /\ fetch' \in [Fetches -> Call] /\ fetch'[f] = c /\ c.pc = "hopping" /\ c.peer = NoPeer
           /\ ValidLiteral(c.url) /\ c.deadline = fetch[f].deadline
           /\ \A g \in Fetches : g # f => fetch'[g] = fetch[g]
           /\ UNCHANGED <<now, lastBegan>> /\ admission' \in Counters
           /\ admission'.nextAllowed = admission.nextAllowed
<1>1. c \in Call /\ fetch' = [fetch EXCEPT ![f] = c] /\ fetch \in [Fetches -> Call]
  BY DEF Hops, Types
<1>2. fetch' \in [Fetches -> Call] /\ fetch'[f] = c /\ \A g \in Fetches : g # f => fetch'[g] = fetch[g]
  BY <1>1
<1>3. admission' \in Counters /\ admission'.nextAllowed = admission.nextAllowed
  BY HeldSlots, Zenon DEF Hops
<1> QED BY <1>2, <1>3, Zenon DEF Hops

(* And by a call that gets a permit.                                       *)
LEMMA EntersFacts ==
    ASSUME Types, NEW f \in Fetches, NEW c, Enters(f, c)
    PROVE  /\ fetch' \in [Fetches -> Call] /\ fetch'[f] = c /\ \A g \in Fetches : g # f => fetch'[g] = fetch[g]
           /\ c.url.host \in Hosts /\ admission' \in Counters
           /\ admission'.nextAllowed = Slots(Base(f), c.url.host)
           /\ \A k \in Hosts : admission'.nextAllowed[k] >= admission.nextAllowed[k]
<1> DEFINE h == c.url.host
<1>1. c \in Call /\ fetch' = [fetch EXCEPT ![f] = c] /\ Free(Base(f), h) /\ admission' = TryEnter(Base(f), h)
  BY DEF Enters
<1>2. h \in Hosts /\ now \in Nat
  BY <1>1, HostType, ConstantTypes DEF Call, Types
<1> HIDE DEF h
<1>3. Base(f) \in Counters /\ \A k \in Hosts : Slots(Base(f), h)[k] >= admission.nextAllowed[k]
  BY <1>2, BaseFacts
<1>4. TryEnter(Base(f), h) \in Counters /\ TryEnter(Base(f), h).nextAllowed = Slots(Base(f), h)
  BY <1>2, <1>3, EnterFacts, Zenon
<1>5. fetch' \in [Fetches -> Call] /\ fetch'[f] = c /\ \A g \in Fetches : g # f => fetch'[g] = fetch[g]
  BY <1>1 DEF Types
<1> QED BY <1>1, <1>2, <1>3, <1>4, <1>5 DEF h

(* Every step keeps the types.                                             *)
LEMMA TypesStep ==
    ASSUME Types, [Next]_vars
    PROVE  Types'
<1>1. ASSUME NEW f \in Fetches, Ends(f) PROVE Types'
  <2> HIDE DEF NoPeer
  <2> QED BY <1>1, EndsFacts DEF Types
<1>2. ASSUME NEW f \in Fetches, Stays(f) PROVE Types'
  <2>1. lastBegan' \in [Hosts -> Int]
    BY <1>2, ConstantTypes DEF Stays, Types
  <2> HIDE DEF NoPeer
  <2> QED BY <1>2, <2>1 DEF Types, Stays
<1>3. ASSUME NEW f \in Fetches, NEW c, Enters(f, c), c.pc \in {"pacing", "resolving", "leaving"},
             \/ lastBegan' = lastBegan
             \/ lastBegan' = [lastBegan EXCEPT ![c.url.host] = now]
      PROVE  Types'
  <2>1. lastBegan' \in [Hosts -> Int] /\ now' \in 0 .. Horizon
    BY <1>3, ConstantTypes DEF Types, Enters
  <2>2. fetch'[f].pc \notin {"sending", "body", "reuse"} /\ fetch'[f].peer = NoPeer
    BY <1>3, EntersFacts, Zenon DEF Enters
  <2> HIDE DEF NoPeer
  <2> QED BY <1>3, <2>1, <2>2, EntersFacts DEF Types
<1>4. ASSUME NEW f \in Fetches, NEW c, Starts(f, c) \/ Follows(f, c) PROVE Types'
  BY <1>3, <1>4, Zenon DEF Starts, Follows
<1>5. CASE Tick \/ UNCHANGED vars
  BY <1>5, ConstantTypes DEF Tick, vars, Types
<1>6. ASSUME NEW f \in Fetches, NEW c, Hops(f, c) PROVE Types'
  <2> HIDE DEF NoPeer
  <2> QED BY <1>6, HopsFacts DEF Types
<1> QED BY <1>1, <1>2, <1>4, <1>5, <1>6, NextCases

(* No call is in progress in the initial states.                           *)
LEMMA TypesInit == Init => Types
<1> SUFFICES ASSUME Init PROVE Types
  OBVIOUS
<1>1. AnyUrl \in Urls
  BY FetchAssumption DEF AnyUrl
<1>2. Idle \in Call /\ Idle.pc = "idle" /\ Idle.peer = NoPeer
  BY <1>1 DEF Idle, NewCall, Call, Phases
<1> QED BY <1>2, ConstantTypes DEF Init, Types, Counters

(* The types hold in every state of SafeFetch.                             *)
LEMMA TypesAlways == Spec => []Types
BY TypesInit, TypesStep, PTL DEF Spec

---------------------------------------------------------------------------

(* Every await that goes on is within the deadline of its call.            *)
LEMMA BudgetStep ==
    ASSUME Types, OneBudget, [Next]_vars
    PROVE  OneBudget'
<1>0. /\ now \in Nat /\ TotalTimeout \in Nat
      /\ \A f \in Fetches : fetch[f].deadline \in Nat /\ fetch[f].timer \in Nat
  BY ConstantTypes DEF Types, Call
<1>1. ASSUME NEW f \in Fetches, Ends(f) PROVE OneBudget'
  BY <1>1, EndsFacts DEF OneBudget, Live
<1>2. ASSUME NEW f \in Fetches, Stays(f) PROVE OneBudget'
  BY <1>0, <1>2 DEF Stays, OneBudget, Live, Guarded
<1>3. ASSUME NEW f \in Fetches, NEW c, Enters(f, c), now <= c.deadline,
             c.pc \in {"pacing", "resolving", "leaving"}, c.pc = "pacing" => c.timer <= c.deadline
      PROVE  OneBudget'
  <2>1. now' = now
    BY <1>3 DEF Enters
  <2> QED BY <1>3, <2>1, EntersFacts DEF OneBudget, Live
<1>4. ASSUME NEW f \in Fetches, NEW c, Starts(f, c) PROVE OneBudget'
  <2>1. Enters(f, c) /\ c.pc \in {"pacing", "resolving", "leaving"} /\ c.deadline = now + TotalTimeout
    BY <1>4 DEF Starts
  <2>2. c.timer \in Nat /\ (c.pc = "pacing" => c.timer < c.deadline)
    BY <1>4 DEF Starts, Enters, Call
  <2> QED BY <1>0, <1>3, <2>1, <2>2
<1>5. ASSUME NEW f \in Fetches, NEW c, Follows(f, c) PROVE OneBudget'
  <2>1. Enters(f, c) /\ c.pc \in {"resolving", "leaving"} /\ now <= c.deadline
    BY <1>5 DEF Follows, OneBudget, Live
  <2> QED BY <1>3, <2>1
<1>6. CASE Tick
  <2>1. \A f \in Fetches : Live(f) => DueAt(f) <= fetch[f].deadline /\ DueAt(f) \in Nat
    BY <1>0 DEF DueAt, Earlier, OneBudget
  <2> QED BY <1>0, <1>6, <2>1 DEF Tick, OneBudget, Live
<1>7. CASE UNCHANGED vars
  BY <1>7 DEF vars, OneBudget, Live
<1>8. ASSUME NEW f \in Fetches, NEW c, Hops(f, c) PROVE OneBudget'
  <2>1. now <= fetch[f].deadline
    BY <1>8 DEF Hops, Guarded, OneBudget
  <2> QED BY <1>8, <2>1, HopsFacts DEF OneBudget, Live
<1> QED BY <1>1, <1>2, <1>4, <1>5, <1>6, <1>7, <1>8, NextCases

(* One absolute deadline bounds every await of a call, for any limits,     *)
(* timeouts and retry delays (OneBudget).                                  *)
THEOREM BudgetAlwaysOne == Spec => []OneBudget
<1>1. Init => OneBudget
  BY DEF Init, OneBudget, Live, Idle, NewCall
<1>2. Types /\ OneBudget /\ [Next]_vars => OneBudget'
  BY BudgetStep
<1> QED BY <1>1, <1>2, TypesAlways, PTL DEF Spec

---------------------------------------------------------------------------

(* A call is at a name or at an address that validate_literal accepted,    *)
(* and connected to none that the policy refuses.                          *)
Validated ==
    \A f \in Fetches :
        /\ Live(f) => ValidLiteral(fetch[f].url)
        /\ fetch[f].peer # NoPeer => ValidateAddress(fetch[f].peer)

(* Every step keeps the URLs and the peers validated.                      *)
LEMMA ValidatedStep ==
    ASSUME Types, Validated, [Next]_vars
    PROVE  Validated'
<1> HIDE DEF NoPeer
<1>1. ASSUME NEW f \in Fetches, Ends(f) PROVE Validated'
  BY <1>1, EndsFacts DEF Validated, Live
<1>2. ASSUME NEW f \in Fetches, Stays(f) PROVE Validated'
  BY <1>2, ZenonT(30) DEF Stays, Validated, Live, Guarded
<1>3. ASSUME NEW f \in Fetches, NEW c, Enters(f, c) PROVE Validated'
  <2>1. ValidLiteral(c.url) /\ c.peer = NoPeer
    BY <1>3 DEF Enters, Validated
  <2> QED BY <1>3, <2>1, EntersFacts DEF Validated, Live
<1>4. ASSUME NEW f \in Fetches, NEW c, Starts(f, c) \/ Follows(f, c) PROVE Validated'
  BY <1>3, <1>4, Zenon DEF Starts, Follows
<1>5. CASE Tick \/ UNCHANGED vars
  BY <1>5 DEF Tick, vars, Validated, Live
<1>6. ASSUME NEW f \in Fetches, NEW c, Hops(f, c) PROVE Validated'
  BY <1>6, HopsFacts DEF Validated, Live
<1> QED BY <1>1, <1>2, <1>4, <1>5, <1>6, NextCases

(* No request leaves for a special-purpose address outside the unnamed     *)
(* part of 2001::/23, for any URLs, redirects and answers to lookups       *)
(* (ContactsAreGlobal).                                                    *)
THEOREM ContactsAlwaysGlobal == Spec => []ContactsAreGlobal
<1>1. Init => Validated
  BY DEF Init, Validated, Live, Idle, NewCall
<1>2. Types /\ Validated /\ [Next]_vars => Validated'
  BY ValidatedStep
<1>3. Types /\ Validated => ContactsAreGlobal
  BY AcceptedIsGlobal DEF Types, Call, Validated, ContactsAreGlobal
<1> QED BY <1>1, <1>2, <1>3, TypesAlways, PTL DEF Spec

---------------------------------------------------------------------------

(* The attempt that belongs to no retry yet, of a call that has sent one. *)
Attempt(c) == IF c.pc \in {"connecting", "sending", "hopping", "leaving", "body", "reuse"} THEN 1 ELSE 0

(* The inductive form of RequestsFormAChain, for one call: what was sent   *)
(* is visited, and once the current URL was sent nothing else was, unless  *)
(* the call is within a redirect; every request is the first of its hop or *)
(* a retry.                                                                *)
Chained(c) ==
    LET sent == c.requested IN
    /\ c.retries <= MaxRetries
    /\ Len(sent) <= c.hop + c.retries + Attempt(c)
    /\ c.pc \notin {"idle", "done", "hopping"} => c.url \in c.visited
    /\ \A i \in 1 .. Len(sent) : sent[i] \in c.visited
    /\ \A i, j \in 1 .. Len(sent) : sent[i] = sent[j] => \A k \in i .. j : sent[k] = sent[i]
    /\ c.pc \notin {"hopping", "leaving"} =>
        \A i \in 1 .. Len(sent) : sent[i] = c.url => \A k \in i .. Len(sent) : sent[k] = c.url

(* A call that has sent nothing.                                           *)
LEMMA FreshChain ==
    ASSUME NEW c, c.requested = <<>>, c.retries = 0, c.hop = 0,
           c.pc \in {"idle", "done"} \/ c.url \in c.visited
    PROVE  Chained(c)
<1>1. Len(c.requested) = 0 /\ Attempt(c) \in {0, 1} /\ MaxRetries \in Nat
  BY ConstantTypes DEF Attempt
<1> QED BY <1>1 DEF Chained

(* A step of an attempt: the timer, the peer and the phase change.         *)
LEMMA KeptChain ==
    ASSUME NEW c \in Call, NEW d \in Call, Chained(c), Attempt(d) = Attempt(c),
           c.pc \notin {"idle", "done", "hopping", "leaving"},
           d.requested = c.requested, d.visited = c.visited, d.url = c.url, d.hop = c.hop, d.retries = c.retries
    PROVE  Chained(d)
BY SMTT(30) DEF Chained

(* A request is sent to the current URL.                                   *)
LEMMA SentChain ==
    ASSUME NEW c \in Call, NEW d \in Call, Chained(c), c.pc = "resolving", d.pc = "connecting",
           d.requested = Append(c.requested, c.url),
           d.visited = c.visited, d.url = c.url, d.hop = c.hop, d.retries = c.retries
    PROVE  Chained(d)
<1> DEFINE s == c.requested
           t == d.requested
           n == Len(s)
<1>1. /\ s \in Seq(Urls) /\ n \in Nat /\ c.url \in Urls /\ c.hop \in Nat /\ c.retries \in Nat
  BY DEF Call
<1>2. Len(t) = n + 1 /\ t[n + 1] = c.url /\ \A i \in 1 .. n : t[i] = s[i]
  BY <1>1
<1>3. Len(t) <= d.hop + d.retries + Attempt(d) /\ d.retries <= MaxRetries
  BY <1>1, <1>2 DEF Chained, Attempt
<1>4. /\ c.url \in c.visited
      /\ \A i \in 1 .. n : s[i] \in c.visited
      /\ \A i, j \in 1 .. n : s[i] = s[j] => \A k \in i .. j : s[k] = s[i]
      /\ \A i \in 1 .. n : s[i] = c.url => \A k \in i .. n : s[k] = c.url
  BY DEF Chained
<1> HIDE DEF s, t, n
<1>5. \A i \in 1 .. Len(t) : i \in 1 .. n \/ i = n + 1
  BY <1>1, <1>2
<1>6. \A i \in 1 .. Len(t) : t[i] \in d.visited
  BY <1>2, <1>4, <1>5
<1>7. ASSUME NEW i \in 1 .. Len(t), t[i] = c.url, NEW k \in i .. Len(t) PROVE t[k] = c.url
  <2>1. CASE k = n + 1
    BY <2>1, <1>2
  <2>2. CASE k # n + 1
    <3>1. i \in 1 .. n /\ k \in i .. n /\ k \in 1 .. n
      BY <2>2, <1>1, <1>2, <1>7
    <3> QED BY <3>1, <1>2, <1>4, <1>7
  <2> QED BY <2>1, <2>2
<1>8. ASSUME NEW i \in 1 .. Len(t), NEW j \in 1 .. Len(t), t[i] = t[j], NEW k \in i .. j PROVE t[k] = t[i]
  <2>1. CASE j = n + 1
    BY <2>1, <1>2, <1>7, <1>8
  <2>2. CASE j # n + 1
    <3>1. j \in 1 .. n /\ i \in 1 .. Len(t) /\ k \in 1 .. Len(t)
      BY <2>2, <1>1, <1>2
    <3>2. CASE i <= j
      <4>1. i \in 1 .. n /\ k \in 1 .. n
        BY <3>1, <3>2, <1>1, <1>2
      <4> QED BY <3>1, <4>1, <1>2, <1>4, <1>8
    <3>3. CASE i > j
      BY <3>1, <3>3, <1>1
    <3> QED BY <3>2, <3>3, <3>1, <1>1
  <2> QED BY <2>1, <2>2
<1>9. d.url \in d.visited
  BY <1>4
<1> QED BY <1>3, <1>6, <1>7, <1>8, <1>9 DEF Chained, t

(* A failed attempt becomes a retry.                                       *)
LEMMA RetriedChain ==
    ASSUME NEW c \in Call, NEW d \in Call, Chained(c), c.pc \in {"connecting", "sending"}, d.pc = "backoff",
           c.retries < MaxRetries, d.retries = c.retries + 1,
           d.requested = c.requested, d.visited = c.visited, d.url = c.url, d.hop = c.hop
    PROVE  Chained(d)
<1>0. /\ Len(c.requested) \in Nat /\ c.hop \in Nat /\ c.retries \in Nat /\ MaxRetries \in Nat
      /\ Attempt(c) = 1 /\ Attempt(d) = 0
  BY ConstantTypes DEF Attempt, Call
<1>1. Len(d.requested) <= d.hop + d.retries + Attempt(d) /\ d.retries <= MaxRetries
  BY <1>0 DEF Chained
<1>2. c.url \in c.visited
  BY DEF Chained
<1> QED BY <1>1, <1>2 DEF Chained

(* The guard drops, and a loop is found: nothing is sent.                  *)
LEMMA HopChain ==
    ASSUME NEW c \in Call, NEW d \in Call, Chained(c),
           \/ c.pc = "sending" /\ d.pc = "hopping"
           \/ c.pc = "hopping" /\ d.pc = "leaving" /\ d.url \in c.visited,
           d.requested = c.requested, d.visited = c.visited, d.hop = c.hop, d.retries = c.retries
    PROVE  Chained(d)
<1>1. Attempt(c) = Attempt(d)
  BY DEF Attempt
<1> QED BY <1>1 DEF Chained

(* A redirect to a URL that was not visited.                               *)
LEMMA FollowedChain ==
    ASSUME NEW c \in Call, Chained(c), c.pc = "hopping", c.url \notin c.visited
    PROVE  Chained(Followed(c))
<1> DEFINE d == Followed(c)
           u == c.url
<1>1. /\ d.pc = "resolving" /\ d.url = u /\ d.hop = c.hop + 1 /\ d.retries = c.retries
      /\ d.visited = c.visited \cup {u} /\ d.requested = c.requested
  BY DEF Followed
<1> HIDE DEF d
<1>2. Len(d.requested) <= d.hop + d.retries + Attempt(d) /\ d.retries <= MaxRetries
  BY <1>1 DEF Chained, Attempt, Call
<1>3. \A i \in 1 .. Len(c.requested) : c.requested[i] \in c.visited /\ c.requested[i] # u
  BY Zenon DEF Chained
<1>4. \A i, j \in 1 .. Len(c.requested) :
          c.requested[i] = c.requested[j] => \A k \in i .. j : c.requested[k] = c.requested[i]
  BY Zenon DEF Chained
<1>5. Chained(d)
  <2>1. d.url \in d.visited
    BY <1>1, Zenon
  <2>2. \A i \in 1 .. Len(d.requested) : d.requested[i] \in d.visited /\ d.requested[i] # d.url
    BY <1>1, <1>3, Zenon
  <2>3. \A i, j \in 1 .. Len(d.requested) :
            d.requested[i] = d.requested[j] => \A k \in i .. j : d.requested[k] = d.requested[i]
    BY <1>1, <1>4
  <2> QED BY <1>2, <2>1, <2>2, <2>3, Zenon DEF Chained
<1> QED BY <1>5, Zenon DEF d

(* A call that returned keeps no requests.                                 *)
LEMMA DoneChain == \A result : Chained(Done(result))
<1> SUFFICES ASSUME NEW result PROVE Chained(Done(result))
  OBVIOUS
<1>1. Done(result).pc = "done" /\ Done(result).requested = <<>> /\ Done(result).retries = 0 /\ Done(result).hop = 0
  BY DEF Done, NewCall
<1> QED BY <1>1, FreshChain

(* Only the call f changes, and its requests still form a chain.           *)
Extends(f) == Chained(fetch'[f]) /\ \A g \in Fetches : g # f => fetch'[g] = fetch[g]

(* Every step of a call extends its chain.                                 *)
LEMMA ExtendsStep ==
    ASSUME Types, Types', NEW f \in Fetches, Chained(fetch[f]),
           \/ Wake(f) \/ Resolve(f) \/ ResolveRefused(f) \/ Connect(f) \/ Unreachable(f) \/ Transient(f)
           \/ RedirectRefused(f) \/ GiveUp(f) \/ Answer(f) \/ Finish(f) \/ Expire(f)
    PROVE  Extends(f)
<1>0. /\ fetch \in [Fetches -> Call] /\ fetch[f] \in Call /\ fetch'[f] \in Call
  BY DEF Types
<1> DEFINE c == fetch[f]
           d == fetch'[f]
           Others == \A g \in Fetches : g # f => fetch'[g] = fetch[g]
           Same == d.requested = c.requested /\ d.visited = c.visited /\ d.url = c.url /\ d.hop = c.hop
<1>1. ASSUME NEW result, Return(f, result) PROVE Extends(f)
  <2>1. fetch' = [fetch EXCEPT ![f] = Done(result)]
    BY <1>1 DEF Return
  <2> QED BY <1>0, <2>1, DoneChain, Zenon DEF Extends
<1>2. CASE Wake(f)
  <2>1. Others /\ Same /\ d.retries = c.retries /\ d.pc = "resolving" /\ c.pc \in {"pacing", "backoff"}
    BY <1>0, <1>2, ZenonT(30) DEF Wake, Call
  <2>2. Attempt(d) = Attempt(c) /\ c.pc \notin {"idle", "done", "hopping", "leaving"}
    BY <2>1 DEF Attempt
  <2> QED BY <1>0, <2>1, <2>2, KeptChain, Zenon DEF Extends
<1>3. CASE Resolve(f)
  <2>1. /\ Others /\ d.requested = Append(c.requested, c.url) /\ d.visited = c.visited /\ d.url = c.url
        /\ d.hop = c.hop /\ d.retries = c.retries /\ d.pc = "connecting" /\ c.pc = "resolving"
    BY <1>0, <1>3, Zenon DEF Resolve, Call
  <2> QED BY <1>0, <2>1, SentChain, Zenon DEF Extends
<1>4. CASE ResolveRefused(f)
  BY <1>1, <1>4, Zenon DEF ResolveRefused
<1>5. CASE Connect(f)
  <2>1. PICK address : fetch' = [fetch EXCEPT ![f].pc = "sending", ![f].peer = address]
    BY <1>5, Zenon DEF Connect
  <2>2. Others /\ Same /\ d.retries = c.retries /\ d.pc = "sending" /\ c.pc = "connecting"
    BY <1>0, <1>5, <2>1, ZenonT(30) DEF Connect, Call
  <2>3. Attempt(d) = Attempt(c) /\ c.pc \notin {"idle", "done", "hopping", "leaving"}
    BY <2>2 DEF Attempt
  <2> QED BY <1>0, <2>2, <2>3, KeptChain, Zenon DEF Extends
<1>6. ASSUME NEW after, Retry(f, after), c.pc \in {"connecting", "sending"}, c.retries < MaxRetries PROVE Extends(f)
  <2>1. PICK timer : fetch' = [fetch EXCEPT ![f].pc = "backoff", ![f].retries = @ + 1, ![f].peer = NoPeer,
                                            ![f].timer = timer]
    BY <1>6, Zenon DEF Retry
  <2>2. Others /\ Same /\ d.retries = c.retries + 1 /\ d.pc = "backoff"
    BY <1>0, <2>1, ZenonT(30) DEF Call
  <2> QED BY <1>0, <1>6, <2>2, RetriedChain, Zenon DEF Extends
<1>7. CASE Unreachable(f)
  BY <1>1, <1>6, <1>7, Zenon DEF Unreachable
<1>8. CASE Transient(f)
  BY <1>1, <1>6, <1>8, Zenon DEF Transient
<1>9. CASE RedirectRefused(f)
  BY <1>1, <1>9, Zenon DEF RedirectRefused
<1>10. CASE Answer(f)
  <2>1. ASSUME NEW next \in {"body", "reuse"}, fetch' = [fetch EXCEPT ![f].pc = next] PROVE Extends(f)
    <3>1. Others /\ Same /\ d.retries = c.retries /\ d.pc = next /\ c.pc = "sending"
      BY <1>0, <1>10, <2>1, ZenonT(30) DEF Answer, Call
    <3>2. Attempt(d) = Attempt(c) /\ c.pc \notin {"idle", "done", "hopping", "leaving"}
      BY <3>1 DEF Attempt
    <3> QED BY <1>0, <3>1, <3>2, KeptChain, Zenon DEF Extends
  <2> QED BY <1>1, <1>10, <2>1, Zenon DEF Answer
<1>11. CASE Finish(f)
  BY <1>1, <1>11, Zenon DEF Finish
<1>12. CASE Expire(f)
  BY <1>1, <1>12, Zenon DEF Expire
<1>13. CASE GiveUp(f)
  BY <1>1, <1>13, Zenon DEF GiveUp
<1> QED BY <1>2, <1>3, <1>4, <1>5, <1>7, <1>8, <1>9, <1>10, <1>11, <1>12, <1>13

(* A call begins with no request sent.                                     *)
LEMMA ExtendsSubmit ==
    ASSUME Types, Types', NEW f \in Fetches, NEW stored \in StoredUrls, Submit(f, stored)
    PROVE  Extends(f)
<1>0. /\ fetch \in [Fetches -> Call] /\ fetch'[f] \in Call
  BY DEF Types
<1> DEFINE d == fetch'[f]
           Fresh(c) == c.requested = <<>> /\ c.retries = 0 /\ c.hop = 0 /\ (c.pc = "done" \/ c.url \in c.visited)
<1>1. \A result : Fresh(Done(result))
  BY DEF Done, NewCall
<1>2. \A u, start : Fresh(Admitted(u, start))
  BY DEF Admitted, NewCall
<1> HIDE DEF Fresh
<1>3. PICK c : fetch' = [fetch EXCEPT ![f] = c] /\ Fresh(c)
  BY <1>1, <1>2, Zenon DEF Submit
<1>4. d = c /\ \A g \in Fetches : g # f => fetch'[g] = fetch[g]
  BY <1>0, <1>3
<1>5. d.requested = <<>> /\ d.retries = 0 /\ d.hop = 0 /\ (d.pc = "done" \/ d.url \in d.visited)
  BY <1>3, <1>4 DEF Fresh
<1> QED BY <1>0, <1>4, <1>5, FreshChain DEF Extends

(* A redirect gives the permit up, before anything else is requested.      *)
LEMMA ExtendsRedirect ==
    ASSUME Types, Types', NEW f \in Fetches, Chained(fetch[f]), NEW location \in Locations, Redirect(f, location)
    PROVE  Extends(f)
<1> DEFINE c == fetch[f]
           d == fetch'[f]
<1>0. fetch \in [Fetches -> Call] /\ c \in Call /\ d \in Call
  BY DEF Types
<1>1. PICK u : fetch' = [fetch EXCEPT ![f].pc = "hopping", ![f].url = u, ![f].peer = NoPeer]
  BY Zenon DEF Redirect
<1>2. /\ d.requested = c.requested /\ d.visited = c.visited /\ d.hop = c.hop /\ d.retries = c.retries
      /\ d.pc = "hopping" /\ \A g \in Fetches : g # f => fetch'[g] = fetch[g]
  BY <1>0, <1>1, ZenonT(30) DEF Call
<1>3. c.pc = "sending"
  BY DEF Redirect
<1> QED BY <1>0, <1>2, <1>3, HopChain, Zenon DEF Extends

(* It then leads to a URL that the call has not visited, or ends it.       *)
LEMMA ExtendsReenter ==
    ASSUME Types, Types', NEW f \in Fetches, Chained(fetch[f]), Reenter(f)
    PROVE  Extends(f)
<1> DEFINE c == fetch[f]
           d == fetch'[f]
           Others == \A g \in Fetches : g # f => fetch'[g] = fetch[g]
<1>0. fetch \in [Fetches -> Call] /\ c \in Call /\ d \in Call /\ c.pc = "hopping"
  BY DEF Types, Reenter
<1>1. CASE fetch' = [fetch EXCEPT ![f] = Done("Overloaded")]
  BY <1>0, <1>1, DoneChain, Zenon DEF Extends
<1>2. CASE c.url \in c.visited /\ fetch' = [fetch EXCEPT ![f].pc = "leaving", ![f].result = "RedirectLoop"]
  <2>1. /\ d.requested = c.requested /\ d.visited = c.visited /\ d.hop = c.hop /\ d.retries = c.retries
        /\ d.pc = "leaving" /\ d.url = c.url /\ Others
    BY <1>0, <1>2, ZenonT(30) DEF Call
  <2> QED BY <1>0, <1>2, <2>1, HopChain, Zenon DEF Extends
<1>3. CASE c.url \notin c.visited /\ fetch' = [fetch EXCEPT ![f] = Followed(c)]
  BY <1>0, <1>3, FollowedChain, Zenon DEF Extends
<1> QED BY <1>1, <1>2, <1>3, Zenon DEF Reenter

(* The inductive form, for every call. *)
Chains == \A f \in Fetches : Chained(fetch[f])

(* Every step keeps the requests of every call a chain.                    *)
LEMMA ChainsStep ==
    ASSUME Types, Types', Chains, [Next]_vars
    PROVE  Chains'
<1>1. ASSUME NEW f \in Fetches, Extends(f) PROVE Chains'
  BY <1>1, Zenon DEF Extends, Chains
<1>2. CASE Tick \/ UNCHANGED vars
  <2>1. fetch' = fetch
    BY <1>2 DEF Tick, vars
  <2> QED BY <2>1, Zenon DEF Chains
<1>3. \A f \in Fetches : Chained(fetch[f])
  BY DEF Chains
<1> QED BY <1>1, <1>2, <1>3, ExtendsStep, ExtendsSubmit, ExtendsRedirect, ExtendsReenter DEF Next

(* Every request of a call is the first of its hop or a retry, always.     *)
LEMMA ChainsAlways == Spec => []Chains
<1>1. Init => Chains
  <2>1. Idle.pc = "idle" /\ Idle.requested = <<>> /\ Idle.retries = 0 /\ Idle.hop = 0
    BY DEF Idle, NewCall
  <2>2. Chained(Idle)
    BY <2>1, FreshChain
  <2> QED BY <2>2 DEF Init, Chains
<1>2. Types /\ Types' /\ Chains /\ [Next]_vars => Chains'
  BY ChainsStep
<1> QED BY <1>1, <1>2, TypesAlways, PTL DEF Spec

(* The requests of a call form one redirect chain, for any limits of       *)
(* redirects and retries and any answers (RequestsFormAChain).             *)
THEOREM RequestsAlwaysChain == Spec => []RequestsFormAChain
<1>1. Types /\ Chains => RequestsFormAChain
  <2> SUFFICES ASSUME Types, Chains, NEW f \in Fetches
               PROVE  LET sent == fetch[f].requested IN
                      /\ Len(sent) <= 1 + fetch[f].hop + MaxRetries
                      /\ \A i, j \in DOMAIN sent : sent[i] = sent[j] => \A k \in i .. j : sent[k] = sent[i]
    BY DEF RequestsFormAChain
  <2>1. Chained(fetch[f]) /\ fetch[f] \in Call
    BY DEF Types, Chains
  <2>2. /\ fetch[f].requested \in Seq(Urls) /\ fetch[f].hop \in Nat /\ fetch[f].retries \in Nat
        /\ Attempt(fetch[f]) \in {0, 1} /\ MaxRetries \in Nat
    BY <2>1, ConstantTypes DEF Call, Attempt
  <2>3. Len(fetch[f].requested) \in Nat /\ DOMAIN fetch[f].requested = 1 .. Len(fetch[f].requested)
    BY <2>2
  <2>4. /\ Len(fetch[f].requested) <= fetch[f].hop + fetch[f].retries + Attempt(fetch[f])
        /\ fetch[f].retries <= MaxRetries
    BY <2>1, Zenon DEF Chained
  <2>5. Len(fetch[f].requested) <= 1 + fetch[f].hop + MaxRetries
    BY <2>2, <2>3, <2>4
  <2> QED BY <2>1, <2>3, <2>5 DEF Chained
<1> QED BY <1>1, TypesAlways, ChainsAlways, PTL
=============================================================================
