--------------------- MODULE SafeFetchAdmissionProofs ---------------------
(***************************************************************************)
(* SafeFetch, for any number of calls, any URLs, limits and intervals: the *)
(* slots of a host are apart, the permits are counted exactly, and the     *)
(* normal form of a URL is a stable key of its target.                     *)
(***************************************************************************)
EXTENDS SafeFetchProofs

Pacing(f) == fetch[f].pc = "pacing"

HostOf(f) == fetch[f].url.host

(* The slots behind FirstAttemptsAreSpaced: the next slot of a host is an  *)
(* interval after its last start and after every slot that a call waits    *)
(* for, and these are an interval apart, in the future and an interval     *)
(* after the last start.                                                   *)
Paced ==
    /\ \A h \in Hosts : /\ lastBegan[h] <= now
                        /\ MinInterval # 0 => lastBegan[h] + MinInterval <= admission.nextAllowed[h]
    /\ \A f \in Fetches : Pacing(f) =>
        /\ MinInterval # 0 /\ now <= fetch[f].timer
        /\ lastBegan[HostOf(f)] + MinInterval <= fetch[f].timer
        /\ fetch[f].timer + MinInterval <= admission.nextAllowed[HostOf(f)]
    /\ \A f, g \in Fetches : f # g /\ Pacing(f) /\ Pacing(g) /\ HostOf(f) = HostOf(g) =>
        \/ fetch[f].timer + MinInterval <= fetch[g].timer
        \/ fetch[g].timer + MinInterval <= fetch[f].timer

(* What FirstAttemptsAreSpaced says of a step. *)
Spaced ==
    \A f \in Fetches :
        fetch[f].pc \in {"idle", "pacing"} /\ fetch'[f].pc = "resolving"
            => now >= lastBegan[fetch'[f].url.host] + MinInterval

(* The types that the pacing argument needs, without the records.          *)
LEMMA PacingTypes ==
    ASSUME Types
    PROVE  /\ now \in Nat /\ MinInterval \in Nat
           /\ \A h \in Hosts : lastBegan[h] \in Int /\ admission.nextAllowed[h] \in Nat
           /\ \A f \in Fetches : fetch[f].timer \in Nat /\ HostOf(f) \in Hosts
BY ConstantTypes, HostType DEF Types, Counters, Call, HostOf

(* A step of f that starts no first attempt and reserves no slot for f.    *)
Quiet(f) ==
    /\ UNCHANGED <<now, lastBegan>>
    /\ \A g \in Fetches : g # f => fetch'[g] = fetch[g]
    /\ fetch'[f].pc # "pacing"
    /\ \A h \in Hosts : admission'.nextAllowed[h] >= admission.nextAllowed[h]
    /\ fetch'[f].pc = "resolving" => fetch[f].pc \notin {"idle", "pacing"}

(* Such a step keeps the slots apart.                                      *)
LEMMA QuietStep ==
    ASSUME Types, Types', Paced, NEW f \in Fetches, Quiet(f)
    PROVE  Paced' /\ Spaced
<1>1. Spaced
  BY DEF Quiet, Spaced
<1>2. \A h \in Hosts : admission'.nextAllowed[h] \in Nat
  BY DEF Types, Counters
<1>3. \A g \in Fetches : Pacing(g)' => Pacing(g) /\ fetch'[g] = fetch[g] /\ HostOf(g)' = HostOf(g)
  BY DEF Quiet, Pacing, HostOf
<1>4. \A h \in Hosts : /\ lastBegan'[h] <= now'
                       /\ MinInterval # 0 => lastBegan'[h] + MinInterval <= admission'.nextAllowed[h]
  BY <1>2, PacingTypes DEF Quiet, Paced
<1>5. ASSUME NEW g \in Fetches, Pacing(g)'
      PROVE  /\ MinInterval # 0 /\ now' <= fetch'[g].timer
             /\ lastBegan'[HostOf(g)'] + MinInterval <= fetch'[g].timer
             /\ fetch'[g].timer + MinInterval <= admission'.nextAllowed[HostOf(g)']
  BY <1>2, <1>3, <1>5, PacingTypes DEF Quiet, Paced
<1>6. ASSUME NEW g \in Fetches, NEW e \in Fetches, g # e, Pacing(g)', Pacing(e)', HostOf(g)' = HostOf(e)'
      PROVE  \/ fetch'[g].timer + MinInterval <= fetch'[e].timer
             \/ fetch'[e].timer + MinInterval <= fetch'[g].timer
  BY <1>3, <1>6 DEF Paced
<1> QED BY <1>1, <1>4, <1>5, <1>6 DEF Paced

(* A first attempt that starts at once, or after its slot: the call f is   *)
(* at u, now is an interval after the last start and the slots of others   *)
(* are an interval after now.                                              *)
LEMMA BeginStep ==
    ASSUME Types, Types', Paced, NEW f \in Fetches, NEW h \in Hosts, now' = now,
           \A g \in Fetches : g # f => fetch'[g] = fetch[g],
           fetch'[f].pc = "resolving", fetch'[f].url.host = h,
           lastBegan' = [lastBegan EXCEPT ![h] = now],
           \A k \in Hosts : admission'.nextAllowed[k] >= admission.nextAllowed[k],
           lastBegan[h] + MinInterval <= now,
           MinInterval # 0 => now + MinInterval <= admission'.nextAllowed[h],
           \A g \in Fetches : g # f /\ Pacing(g) /\ HostOf(g) = h => now + MinInterval <= fetch[g].timer
    PROVE  Paced' /\ Spaced
<1>1. Spaced
  BY PacingTypes DEF Spaced
<1>2. /\ \A k \in Hosts : admission'.nextAllowed[k] \in Nat
      /\ \A k \in Hosts : lastBegan'[k] = IF k = h THEN now ELSE lastBegan[k]
  BY DEF Types, Counters
<1>3. \A g \in Fetches : Pacing(g)' => g # f /\ Pacing(g) /\ fetch'[g] = fetch[g] /\ HostOf(g)' = HostOf(g)
  BY DEF Pacing, HostOf
<1>4. \A k \in Hosts : /\ lastBegan'[k] <= now'
                       /\ MinInterval # 0 => lastBegan'[k] + MinInterval <= admission'.nextAllowed[k]
  BY <1>2, PacingTypes DEF Paced
<1>5. ASSUME NEW g \in Fetches, Pacing(g)'
      PROVE  /\ MinInterval # 0 /\ now' <= fetch'[g].timer
             /\ lastBegan'[HostOf(g)'] + MinInterval <= fetch'[g].timer
             /\ fetch'[g].timer + MinInterval <= admission'.nextAllowed[HostOf(g)']
  BY <1>2, <1>3, <1>5, PacingTypes DEF Paced
<1>6. ASSUME NEW g \in Fetches, NEW e \in Fetches, g # e, Pacing(g)', Pacing(e)', HostOf(g)' = HostOf(e)'
      PROVE  \/ fetch'[g].timer + MinInterval <= fetch'[e].timer
             \/ fetch'[e].timer + MinInterval <= fetch'[g].timer
  BY <1>3, <1>6 DEF Paced
<1> QED BY <1>1, <1>4, <1>5, <1>6 DEF Paced

(* The slot that try_enter gives: now, or the next one of the host.        *)
LEMMA SlotFacts ==
    ASSUME NEW a \in Counters, now \in Nat, NEW h \in Hosts
    PROVE  LET start == Slot(a, h)
           IN  /\ MinInterval # 0 => start >= a.nextAllowed[h] /\ Slots(a, h)[h] = start + MinInterval
               /\ start > now => MinInterval # 0 /\ start = a.nextAllowed[h]
<1>1. a.nextAllowed \in [Hosts -> Nat] /\ a.nextAllowed[h] \in Nat /\ MinInterval \in Nat
  BY ConstantTypes DEF Counters
<1>2. MinInterval # 0 => Slots(a, h)[h] = Slot(a, h) + MinInterval
  BY <1>1 DEF Slots
<1>3. MinInterval # 0 => Slot(a, h) >= a.nextAllowed[h]
  BY <1>1 DEF Slot, Later
<1>4. Slot(a, h) > now => MinInterval # 0 /\ Slot(a, h) = a.nextAllowed[h]
  BY <1>1 DEF Slot, Later
<1> QED BY <1>2, <1>3, <1>4

(* A call that has to wait takes the next slot of its host.                *)
LEMMA WaitStep ==
    ASSUME Types, Types', Paced, NEW f \in Fetches, NEW h \in Hosts, UNCHANGED <<now, lastBegan>>,
           \A g \in Fetches : g # f => fetch'[g] = fetch[g],
           fetch'[f].pc = "pacing", fetch'[f].url.host = h, fetch'[f].timer > now, MinInterval # 0,
           fetch'[f].timer = admission.nextAllowed[h],
           admission'.nextAllowed[h] = fetch'[f].timer + MinInterval,
           \A k \in Hosts : admission'.nextAllowed[k] >= admission.nextAllowed[k]
    PROVE  Paced' /\ Spaced
<1>1. Spaced
  BY DEF Spaced
<1>2. \A k \in Hosts : admission'.nextAllowed[k] \in Nat
  BY DEF Types, Counters
<1>3. \A g \in Fetches : g # f => fetch'[g] = fetch[g] /\ HostOf(g)' = HostOf(g) /\ (Pacing(g)' <=> Pacing(g))
  BY DEF HostOf, Pacing
<1>4. HostOf(f)' = h
  BY DEF HostOf
<1>5. \A k \in Hosts : /\ lastBegan'[k] <= now'
                       /\ MinInterval # 0 => lastBegan'[k] + MinInterval <= admission'.nextAllowed[k]
  BY <1>2, PacingTypes DEF Paced
<1>6. ASSUME NEW g \in Fetches, Pacing(g)'
      PROVE  /\ now' <= fetch'[g].timer
             /\ lastBegan'[HostOf(g)'] + MinInterval <= fetch'[g].timer
             /\ fetch'[g].timer + MinInterval <= admission'.nextAllowed[HostOf(g)']
  <2>1. CASE g = f
    <3>1. lastBegan[h] + MinInterval <= admission.nextAllowed[h] /\ admission.nextAllowed[h] \in Nat /\ now \in Nat
      BY PacingTypes DEF Paced
    <3> QED BY <1>4, <2>1, <3>1, PacingTypes
  <2>2. CASE g # f
    <3> DEFINE k == HostOf(g)
    <3>1. Pacing(g) /\ fetch'[g] = fetch[g] /\ HostOf(g)' = k /\ k \in Hosts
      BY <1>3, <1>6, <2>2, PacingTypes
    <3>2. /\ now <= fetch[g].timer /\ lastBegan[k] + MinInterval <= fetch[g].timer
          /\ fetch[g].timer + MinInterval <= admission.nextAllowed[k]
      BY <3>1 DEF Paced
    <3>3. /\ admission'.nextAllowed[k] \in Nat /\ admission.nextAllowed[k] \in Nat /\ fetch[g].timer \in Nat
          /\ admission'.nextAllowed[k] >= admission.nextAllowed[k]
      BY <1>2, <3>1, PacingTypes
    <3> HIDE DEF k
    <3> QED BY <3>1, <3>2, <3>3, PacingTypes
  <2> QED BY <2>1, <2>2
<1>7. ASSUME NEW g \in Fetches, g # f, Pacing(g)', HostOf(g)' = h
      PROVE  fetch'[g].timer + MinInterval <= fetch'[f].timer
  BY <1>3, <1>7, ZenonT(30) DEF Paced
<1>8. ASSUME NEW g \in Fetches, NEW e \in Fetches, g # e, Pacing(g)', Pacing(e)', HostOf(g)' = HostOf(e)'
      PROVE  \/ fetch'[g].timer + MinInterval <= fetch'[e].timer
             \/ fetch'[e].timer + MinInterval <= fetch'[g].timer
  <2>1. CASE g # f /\ e # f
    BY <1>3, <1>8, <2>1, ZenonT(30) DEF Paced
  <2>2. CASE g = f \/ e = f
    BY <1>4, <1>7, <1>8, <2>2, Zenon
  <2> QED BY <2>1, <2>2
<1> QED BY <1>1, <1>5, <1>6, <1>8 DEF Paced

(* A call starts: at once, or when its slot comes.                         *)
LEMMA PacedStart ==
    ASSUME Types, Types', Paced, NEW f \in Fetches, NEW c, Starts(f, c)
    PROVE  Paced' /\ Spaced
<1> DEFINE h == c.url.host
           slot == admission.nextAllowed[h]
<1>1. Enters(f, c) /\ now' = now /\ Base(f) = admission /\ c.timer = Slot(admission, h)
  BY DEF Starts, Enters, Base, Live, Guarded
<1>2. /\ fetch'[f] = c /\ (\A g \in Fetches : g # f => fetch'[g] = fetch[g]) /\ h \in Hosts
      /\ admission'.nextAllowed = Slots(admission, h)
      /\ \A k \in Hosts : admission'.nextAllowed[k] >= admission.nextAllowed[k]
  BY <1>1, EntersFacts
<1>3. now \in Nat /\ MinInterval \in Nat /\ slot \in Nat /\ lastBegan[h] \in Int /\ lastBegan[h] <= now
  BY <1>2, PacingTypes DEF Paced
<1> HIDE DEF h
<1>4. /\ MinInterval # 0 => c.timer >= slot /\ admission'.nextAllowed[h] = c.timer + MinInterval
      /\ c.timer > now => MinInterval # 0 /\ c.timer = slot
  BY <1>1, <1>2, <1>3, SlotFacts DEF Types
<1>5. CASE c.timer > now /\ c.pc = "pacing" /\ lastBegan' = lastBegan
  <2>1. /\ fetch'[f].pc = "pacing" /\ fetch'[f].url.host = h /\ fetch'[f].timer > now /\ MinInterval # 0
        /\ fetch'[f].timer = slot /\ admission'.nextAllowed[h] = fetch'[f].timer + MinInterval
    BY <1>2, <1>4, <1>5, Zenon DEF h
  <2> QED BY <1>1, <1>2, <1>5, <2>1, WaitStep, Zenon
<1>6. CASE c.timer = now /\ c.pc = "resolving" /\ lastBegan' = [lastBegan EXCEPT ![h] = now]
  <2>1. fetch'[f].pc = "resolving" /\ fetch'[f].url.host = h
    BY <1>2, <1>6, Zenon DEF h
  <2>2. MinInterval # 0 => now >= slot /\ now + MinInterval <= admission'.nextAllowed[h]
    BY <1>3, <1>4, <1>6
  <2>3. lastBegan[h] + MinInterval <= now
    <3>1. MinInterval # 0 => lastBegan[h] + MinInterval <= slot
      BY <1>2 DEF Paced
    <3> QED BY <1>3, <2>2, <3>1
  <2>4. ASSUME NEW g \in Fetches, g # f, Pacing(g), HostOf(g) = h
        PROVE  now + MinInterval <= fetch[g].timer
    <3>1. MinInterval # 0 /\ now <= fetch[g].timer /\ fetch[g].timer + MinInterval <= slot /\ fetch[g].timer \in Nat
      BY <2>4, PacingTypes DEF Paced
    <3> QED BY <1>3, <2>2, <3>1
  <2>5. MinInterval # 0 => now + MinInterval <= admission'.nextAllowed[h]
    BY <2>2
  <2> QED BY <1>1, <1>2, <1>6, <2>1, <2>3, <2>4, <2>5, BeginStep, Zenon
<1>7. CASE c.pc = "leaving" /\ lastBegan' = lastBegan
  <2>1. Quiet(f)
    BY <1>1, <1>2, <1>7 DEF Quiet
  <2> QED BY <2>1, QuietStep
<1> QED BY <1>5, <1>6, <1>7 DEF Starts, h

(* A call goes on: only the end of its pacing is a start.                  *)
LEMMA PacedStay ==
    ASSUME Types, Types', Paced, NEW f \in Fetches, Stays(f)
    PROVE  Paced' /\ Spaced
<1>1. /\ UNCHANGED <<now, admission>> /\ (\A g \in Fetches : g # f => fetch'[g] = fetch[g])
      /\ fetch'[f].url = fetch[f].url /\ fetch'[f].pc # "pacing" /\ Live(f)
  BY DEF Stays, Guarded
<1>2. \A k \in Hosts : admission'.nextAllowed[k] >= admission.nextAllowed[k]
  BY <1>1, PacingTypes
<1>3. CASE ~Pacing(f)
  <2>1. Quiet(f)
    BY <1>1, <1>2, <1>3 DEF Quiet, Stays, Pacing, Live
  <2> QED BY <2>1, QuietStep
<1>4. CASE Pacing(f)
  <2> DEFINE h == HostOf(f)
  <2>1. /\ now = fetch[f].timer /\ fetch'[f].pc = "resolving" /\ fetch'[f].url.host = h
        /\ lastBegan' = [lastBegan EXCEPT ![h] = now] /\ h \in Hosts
    BY <1>1, <1>4, PacingTypes DEF Stays, Pacing, HostOf
  <2> HIDE DEF h
  <2>2. lastBegan[h] + MinInterval <= now /\ now + MinInterval <= admission'.nextAllowed[h]
    BY <1>1, <1>4, <2>1, Zenon DEF Paced, h
  <2>3. ASSUME NEW g \in Fetches, g # f, Pacing(g), HostOf(g) = h
        PROVE  now + MinInterval <= fetch[g].timer
    <3>1. /\ now <= fetch[g].timer /\ fetch[g].timer \in Nat /\ now \in Nat /\ MinInterval \in Nat
      BY <2>3, PacingTypes DEF Paced
    <3>2. \/ now + MinInterval <= fetch[g].timer
          \/ fetch[g].timer + MinInterval <= now
      BY <1>4, <2>1, <2>3, Zenon DEF Paced, h
    <3> QED BY <3>1, <3>2
  <2> QED BY <1>1, <1>2, <2>1, <2>2, <2>3, BeginStep, ZenonT(30)
<1> QED BY <1>3, <1>4

(* Every step keeps the slots apart and starts first attempts apart.       *)
LEMMA PacedStep ==
    ASSUME Types, Types', Paced, [Next]_vars
    PROVE  Paced' /\ (Spaced \/ UNCHANGED vars)
<1>1. CASE Tick
  <2>1. /\ UNCHANGED <<admission, fetch, lastBegan>> /\ now' = now + 1
        /\ \A f \in Fetches : Pacing(f) => now < fetch[f].timer
    BY <1>1 DEF Tick, Pacing, Live, DueAt
  <2>2. Paced'
    BY <2>1, PacingTypes DEF Paced, Pacing, HostOf
  <2>3. Spaced
    BY <2>1 DEF Spaced
  <2> QED BY <2>2, <2>3
<1>2. CASE UNCHANGED vars
  BY <1>2 DEF vars, Paced, Pacing, HostOf
<1>3. ASSUME NEW f \in Fetches, Ends(f) PROVE Paced' /\ Spaced
  <2>1. Quiet(f)
    BY <1>3, EndsFacts, Zenon DEF Quiet, Ends
  <2> QED BY <2>1, QuietStep
<1>4. ASSUME NEW f \in Fetches, NEW c, Follows(f, c) PROVE Paced' /\ Spaced
  <2>1. /\ Enters(f, c) /\ fetch[f].pc = "hopping" /\ c.pc \in {"resolving", "leaving"}
        /\ UNCHANGED <<now, lastBegan>>
    BY <1>4 DEF Follows, Enters
  <2>2. Quiet(f)
    BY <2>1, EntersFacts DEF Quiet
  <2> QED BY <2>2, QuietStep
<1>5. ASSUME NEW f \in Fetches, NEW c, Hops(f, c) PROVE Paced' /\ Spaced
  <2>1. \A h \in Hosts : admission'.nextAllowed[h] >= admission.nextAllowed[h]
    BY <1>5, HopsFacts, PacingTypes
  <2>2. Quiet(f)
    BY <1>5, <2>1, HopsFacts DEF Quiet
  <2> QED BY <2>2, QuietStep
<1> QED BY <1>1, <1>2, <1>3, <1>4, <1>5, NextCases, PacedStart, PacedStay

(* The first attempts toward one host begin an interval apart, for any     *)
(* number of calls and any interval (FirstAttemptsAreSpaced).              *)
THEOREM FirstAttemptsAlwaysSpaced == Spec => FirstAttemptsAreSpaced
<1>1. Init => Paced
  <2> SUFFICES ASSUME Init PROVE Paced
    OBVIOUS
  <2>1. \A f \in Fetches : ~Pacing(f)
    BY DEF Init, Pacing, Idle, NewCall
  <2> QED BY <2>1, ConstantTypes DEF Init, Paced
<1>2. Types /\ Types' /\ Paced /\ [Next]_vars => Paced' /\ [Spaced]_vars
  BY PacedStep
<1> QED BY <1>1, <1>2, TypesAlways, PTL DEF Spec, FirstAttemptsAreSpaced, Spaced

---------------------------------------------------------------------------

Holders == {f \in Fetches : Guarded(f)}

On(h) == {f \in Fetches : Guarded(f) /\ fetch[f].url.host = h}

(* The second half of PermitsAreExact. *)
Exact ==
    /\ admission.global = Cardinality(Holders)
    /\ \A h \in Hosts : admission.perHost[h] = Cardinality(On(h))

Limits == [global : 0 .. GlobalLimit, perHost : [Hosts -> 0 .. PerHostLimit], nextAllowed : [Hosts -> Nat]]

(* What the proofs use of the library: facts on finite sets, and that a    *)
(* nonempty set of naturals has a least element.                           *)
LibraryFacts ==
    /\ IsFiniteSet({}) /\ Cardinality({}) = 0
    /\ \A n \in Nat : IsFiniteSet(1 .. n) /\ Cardinality(1 .. n) = n
    /\ \A S : IsFiniteSet(S) => Cardinality(S) \in Nat
    /\ \A S, T : IsFiniteSet(T) /\ S \subseteq T => IsFiniteSet(S)
    /\ \A S, x : IsFiniteSet(S) /\ x \notin S => Cardinality(S \cup {x}) = Cardinality(S) + 1
    /\ \A S, x : IsFiniteSet(S) /\ x \in S => Cardinality(S \ {x}) = Cardinality(S) - 1
    /\ \A S \in SUBSET Nat : S # {} => \E m \in S : \A n \in S : m <= n

(* A set of calls is finite; one call more or less counts for one.         *)
LEMMA Counting ==
    ASSUME LibraryFacts, NEW S \in SUBSET Fetches, NEW f \in Fetches
    PROVE  /\ Cardinality(S) \in Nat
           /\ f \notin S => Cardinality(S \cup {f}) = Cardinality(S) + 1
           /\ f \in S => Cardinality(S \ {f}) = Cardinality(S) - 1 /\ Cardinality(S) >= 1
<1>1. IsFiniteSet(S) /\ IsFiniteSet(S \ {f})
  <2>1. S \subseteq Fetches /\ S \ {f} \subseteq Fetches
    OBVIOUS
  <2> QED BY <2>1, FetchAssumption, Zenon DEF LibraryFacts
<1>2. Cardinality(S) \in Nat /\ Cardinality(S \ {f}) \in Nat
  BY <1>1, Zenon DEF LibraryFacts
<1>3. f \notin S => Cardinality(S \cup {f}) = Cardinality(S) + 1
  BY <1>1, Zenon DEF LibraryFacts
<1>4. f \in S => Cardinality(S \ {f}) = Cardinality(S) - 1
  BY <1>1, Zenon DEF LibraryFacts
<1> QED BY <1>2, <1>3, <1>4

(* The counters a count every call but f. *)
CountsOthers(a, f) ==
    /\ a \in Counters
    /\ a.global = Cardinality(Holders \ {f}) /\ a.global \in 0 .. GlobalLimit
    /\ \A h \in Hosts : a.perHost[h] = Cardinality(On(h) \ {f}) /\ a.perHost[h] \in 0 .. PerHostLimit

(* A call with a guard holds a permit, globally and of its host.           *)
LEMMA HeldFacts ==
    ASSUME LibraryFacts, Types, admission \in Limits, Exact, NEW f \in Fetches, Guarded(f)
    PROVE  CountsOthers(Held(f), f) /\ Held(f).nextAllowed = admission.nextAllowed
<1> DEFINE k == fetch[f].url.host
<1>1. admission \in Counters /\ k \in Hosts
  BY HostType DEF Types, Call
<1>2. /\ Held(f) \in Counters
      /\ Held(f).global = admission.global - 1
      /\ Held(f).perHost = [admission.perHost EXCEPT ![k] = @ - 1]
      /\ Held(f).nextAllowed = admission.nextAllowed
  BY <1>1, LeaveFacts DEF Held
<1>3. Holders \in SUBSET Fetches /\ f \in Holders
  BY DEF Holders
<1>4. Cardinality(Holders \ {f}) = Cardinality(Holders) - 1 /\ Cardinality(Holders) >= 1
  BY <1>3, Counting
<1>5. Held(f).global = Cardinality(Holders \ {f}) /\ Held(f).global \in 0 .. GlobalLimit
  BY <1>2, <1>4, ConstantTypes DEF Exact, Limits
<1>6. ASSUME NEW h \in Hosts
      PROVE  Held(f).perHost[h] = Cardinality(On(h) \ {f}) /\ Held(f).perHost[h] \in 0 .. PerHostLimit
  <2>1. On(h) \in SUBSET Fetches /\ (f \in On(h) <=> h = k)
    BY DEF On
  <2>2. admission.perHost[h] = Cardinality(On(h)) /\ admission.perHost[h] \in 0 .. PerHostLimit
    BY DEF Exact, Limits
  <2>3. CASE h = k
    <3>1. Cardinality(On(h) \ {f}) = Cardinality(On(h)) - 1 /\ Cardinality(On(h)) >= 1
      BY <2>1, <2>3, Counting
    <3>2. Held(f).perHost[h] = admission.perHost[h] - 1
      BY <1>1, <1>2, <2>3 DEF Counters
    <3> QED BY <2>2, <3>1, <3>2, ConstantTypes
  <2>4. CASE h # k
    <3>1. On(h) \ {f} = On(h)
      BY <2>1, <2>4
    <3>2. Held(f).perHost[h] = admission.perHost[h]
      BY <1>1, <1>2, <2>4 DEF Counters
    <3> QED BY <2>2, <3>1, <3>2, ConstantTypes
  <2> QED BY <2>3, <2>4
<1> QED BY <1>2, <1>5, <1>6, Zenon DEF CountsOthers

(* A call without a guard counts for nothing.                              *)
LEMMA OutsideFacts ==
    ASSUME Types, admission \in Limits, Exact, NEW f \in Fetches, ~Guarded(f)
    PROVE  CountsOthers(admission, f)
<1>1. Holders \ {f} = Holders /\ \A h \in Hosts : On(h) \ {f} = On(h)
  BY DEF Holders, On
<1>2. admission \in Counters /\ admission.global \in 0 .. GlobalLimit
      /\ \A h \in Hosts : admission.perHost[h] \in 0 .. PerHostLimit
  BY DEF Types, Limits
<1> QED BY <1>1, <1>2, Zenon DEF CountsOthers, Exact

OnlyChanges(f) == fetch' \in [Fetches -> Call] /\ \A g \in Fetches : g # f => fetch'[g] = fetch[g]

(* A step after which f has no guard leaves the counts of the others.      *)
LEMMA Outside ==
    ASSUME Types, NEW f \in Fetches, OnlyChanges(f), ~Guarded(f)', NEW a, CountsOthers(a, f),
           admission' \in Counters, admission'.global = a.global, admission'.perHost = a.perHost
    PROVE  Exact' /\ admission' \in Limits
<1>1. Holders' = Holders \ {f} /\ \A h \in Hosts : On(h)' = On(h) \ {f}
  BY DEF Holders, On, Guarded, Live, OnlyChanges
<1>2. Exact'
  BY <1>1 DEF Exact, CountsOthers
<1>3. admission' \in Limits
  BY Zenon DEF CountsOthers, Counters, Limits
<1> QED BY <1>2, <1>3

(* A call that enters a host with a free permit counts for one more.       *)
LEMMA Joins ==
    ASSUME LibraryFacts, Types, NEW f \in Fetches, NEW u \in Urls, OnlyChanges(f), Guarded(f)', fetch'[f].url = u,
           NEW a, CountsOthers(a, f), Free(a, u.host), admission' = TryEnter(a, u.host)
    PROVE  Exact' /\ admission' \in Limits
<1> DEFINE k == u.host
<1>1. k \in Hosts /\ now \in Nat /\ a \in Counters
  BY HostType, ConstantTypes DEF Types, CountsOthers
<1>2. /\ admission' \in Counters
      /\ admission'.global = a.global + 1
      /\ admission'.perHost = [a.perHost EXCEPT ![k] = @ + 1]
  BY <1>1, EnterFacts, SMTT(30)
<1>3. /\ Holders' = (Holders \ {f}) \cup {f}
      /\ \A h \in Hosts : On(h)' = IF h = k THEN (On(h) \ {f}) \cup {f} ELSE On(h) \ {f}
  BY DEF Holders, On, Guarded, Live, OnlyChanges
<1>4. Cardinality(Holders') = a.global + 1
  <2>1. Holders \ {f} \in SUBSET Fetches /\ f \notin Holders \ {f}
    BY DEF Holders
  <2> QED BY <1>3, <2>1, Counting DEF CountsOthers
<1>5. ASSUME NEW h \in Hosts PROVE admission'.perHost[h] = Cardinality(On(h)')
  <2>1. On(h) \ {f} \in SUBSET Fetches /\ f \notin On(h) \ {f}
    BY DEF On
  <2>2. Cardinality((On(h) \ {f}) \cup {f}) = a.perHost[h] + 1 /\ Cardinality(On(h) \ {f}) = a.perHost[h]
    BY <2>1, Counting, ZenonT(30) DEF CountsOthers
  <2> QED BY <1>1, <1>2, <1>3, <2>2, Zenon DEF Counters
<1>6. Exact'
  BY <1>2, <1>4, <1>5 DEF Exact
<1>7. admission' \in Limits
  <2>1. admission'.global \in 0 .. GlobalLimit
    BY <1>2, ConstantTypes DEF CountsOthers, Free
  <2>2. ASSUME NEW h \in Hosts PROVE admission'.perHost[h] \in 0 .. PerHostLimit
    <3>1. a.perHost[h] \in 0 .. PerHostLimit /\ a.perHost[k] < PerHostLimit /\ a.perHost \in [Hosts -> Int]
      BY <1>1, Zenon DEF CountsOthers, Free, Counters
    <3>2. admission'.perHost[h] = IF h = k THEN a.perHost[h] + 1 ELSE a.perHost[h]
      BY <1>1, <1>2, <3>1
    <3> QED BY <3>1, <3>2, ConstantTypes
  <2> QED BY <1>2, <2>1, <2>2 DEF Counters, Limits
<1> QED BY <1>6, <1>7

(* Every step keeps the counts, and with them the limits.                  *)
LEMMA PermitStep ==
    ASSUME LibraryFacts, Types, admission \in Limits, Exact, [Next]_vars
    PROVE  Exact' /\ admission' \in Limits
<1>1. ASSUME NEW f \in Fetches PROVE CountsOthers(Base(f), f)
  BY HeldFacts, OutsideFacts, Zenon DEF Base
<1>2. ASSUME NEW f \in Fetches, Ends(f) PROVE Exact' /\ admission' \in Limits
  <2>1. OnlyChanges(f) /\ ~Guarded(f)'
    BY <1>2, EndsFacts DEF OnlyChanges, Live, Guarded
  <2>2. admission' \in Counters /\ admission'.global = Base(f).global /\ admission'.perHost = Base(f).perHost
    BY <1>2 DEF Ends
  <2> QED BY <1>1, <2>1, <2>2, Outside, Zenon
<1>3. ASSUME NEW f \in Fetches, NEW c, Enters(f, c), c.pc \in {"pacing", "resolving", "leaving"}
      PROVE  Exact' /\ admission' \in Limits
  <2>1. c.url \in Urls /\ Free(Base(f), c.url.host) /\ admission' = TryEnter(Base(f), c.url.host)
    BY <1>3 DEF Enters, Call
  <2>2. OnlyChanges(f) /\ Guarded(f)' /\ fetch'[f].url = c.url
    BY <1>3, EntersFacts DEF OnlyChanges, Live, Guarded
  <2> QED BY <1>1, <2>1, <2>2, Joins, Zenon
<1>4. ASSUME NEW f \in Fetches, NEW c, Starts(f, c) \/ Follows(f, c) PROVE Exact' /\ admission' \in Limits
  BY <1>3, <1>4, ZenonT(30) DEF Starts, Follows
<1>5. ASSUME NEW f \in Fetches, Stays(f) PROVE Exact' /\ admission' \in Limits
  <2>1. \A g \in Fetches : (Guarded(g)' <=> Guarded(g)) /\ fetch'[g].url = fetch[g].url
    BY <1>5 DEF Stays, Guarded, Live
  <2>2. Holders' = Holders /\ \A h \in Hosts : On(h)' = On(h)
    BY <2>1 DEF Holders, On
  <2> QED BY <1>5, <2>2 DEF Exact, Stays
<1>6. CASE Tick \/ UNCHANGED vars
  <2>1. Holders' = Holders /\ (\A h \in Hosts : On(h)' = On(h)) /\ admission' = admission
    BY <1>6 DEF Holders, On, Guarded, Live, Tick, vars
  <2> QED BY <2>1 DEF Exact
<1>7. ASSUME NEW f \in Fetches, NEW c, Hops(f, c) PROVE Exact' /\ admission' \in Limits
  <2>1. OnlyChanges(f) /\ ~Guarded(f)'
    BY <1>7, HopsFacts DEF OnlyChanges, Guarded
  <2>2. admission' = Base(f)
    BY <1>7, Zenon DEF Hops, Base
  <2>3. admission' \in Counters
    BY <1>7, HopsFacts
  <2> QED BY <1>1, <2>1, <2>2, <2>3, Outside, Zenon
<1> QED BY <1>2, <1>4, <1>5, <1>6, <1>7, NextCases

---------------------------------------------------------------------------

(* The pairs of a query that are kept, and the number of them, up to n. *)
Kept(query, n) == {j \in 1 .. n : ~IsTrackingPair(query[j])}

Rank(query, n) == Cardinality(Kept(query, n))

Queries == Seq(STRING \X STRING)

(* Induction up to a bound, over the set of the numbers it fails for.      *)
LEMMA UpTo ==
    ASSUME LibraryFacts, NEW N \in Nat, NEW G, 0 \in G, \A n \in 1 .. N : n - 1 \in G => n \in G
    PROVE  \A n \in 0 .. N : n \in G
<1> DEFINE B == {n \in 0 .. N : n \notin G}
<1>1. SUFFICES ASSUME B # {} PROVE FALSE
    OBVIOUS
<1>2. B \in SUBSET Nat
    OBVIOUS
<1>3. PICK m \in B : \A n \in B : m <= n
    <2> HIDE DEF B
    <2> QED  BY <1>1, <1>2, Zenon DEF LibraryFacts
<1>4. m \in 1 .. N /\ m - 1 \in 0 .. N
    BY <1>3
<1>5. m - 1 \in G
    BY <1>3, <1>4
<1> QED  BY <1>3, <1>4, <1>5

(* How many of the first n pairs are kept. *)
LEMMA RankFacts ==
    ASSUME LibraryFacts, NEW query
    PROVE  /\ Rank(query, 0) = 0
           /\ \A n \in Nat : Rank(query, n) \in Nat
           /\ \A n \in Nat \ {0} : Rank(query, n) = IF IsTrackingPair(query[n]) THEN Rank(query, n - 1)
                                                    ELSE Rank(query, n - 1) + 1
<1>1. Kept(query, 0) = {}
    BY DEF Kept
<1>2. \A n \in Nat : IsFiniteSet(Kept(query, n))
    <2> SUFFICES ASSUME NEW n \in Nat PROVE IsFiniteSet(Kept(query, n))
        OBVIOUS
    <2>1. Kept(query, n) \subseteq 1 .. n
        BY DEF Kept
    <2> QED  BY <2>1, Zenon DEF LibraryFacts
<1>3. \A n \in Nat : Rank(query, n) \in Nat
    BY <1>2, Zenon DEF Rank, LibraryFacts
<1>4. ASSUME NEW n \in Nat \ {0}
      PROVE  Rank(query, n) = IF IsTrackingPair(query[n]) THEN Rank(query, n - 1) ELSE Rank(query, n - 1) + 1
    <2>1. n - 1 \in Nat /\ n \notin Kept(query, n - 1) /\ n \in 1 .. n
        BY DEF Kept
    <2>2. \A j : j \in 1 .. n <=> j \in 1 .. n - 1 \/ j = n
        OBVIOUS
    <2>3. Kept(query, n) = IF IsTrackingPair(query[n]) THEN Kept(query, n - 1) ELSE Kept(query, n - 1) \cup {n}
        BY <2>2, Zenon DEF Kept
    <2>4. Cardinality(Kept(query, n - 1) \cup {n}) = Cardinality(Kept(query, n - 1)) + 1
        BY <2>1, <1>2, Zenon DEF LibraryFacts
    <2> QED  BY <2>3, <2>4, Zenon DEF Rank
<1> QED  BY <1>1, <1>3, <1>4, Zenon DEF Rank, LibraryFacts

(* The recursion of Retained, up to the n-th pair. *)
Scans(query, f, m) ==
    /\ f[0] = <<>>
    /\ \A n \in 1 .. m : f[n] = IF IsTrackingPair(query[n]) THEN f[n - 1] ELSE Append(f[n - 1], query[n])

(* It defines a function.                                                  *)
LEMMA ScanExists ==
    ASSUME LibraryFacts, NEW query \in Queries
    PROVE  \E f \in [0 .. Len(query) -> Queries] : Scans(query, f, Len(query))
<1> DEFINE N == Len(query)
           G == {m \in 0 .. N : \E f \in [0 .. m -> Queries] : Scans(query, f, m)}
<1>1. N \in Nat /\ \A n \in 1 .. N : query[n] \in STRING \X STRING
    BY DEF Queries
<1> HIDE DEF N
<1>2. 0 \in G
    <2> DEFINE f == [n \in 0 .. 0 |-> <<>>]
    <2>1. f \in [0 .. 0 -> Queries] /\ Scans(query, f, 0)
        BY DEF Scans, Queries
    <2> QED  BY <2>1, <1>1
<1>3. ASSUME NEW m \in 1 .. N, m - 1 \in G PROVE m \in G
    <2>1. PICK f \in [0 .. m - 1 -> Queries] : Scans(query, f, m - 1)
        BY <1>3
    <2> DEFINE next == IF IsTrackingPair(query[m]) THEN f[m - 1] ELSE Append(f[m - 1], query[m])
               g == [n \in 0 .. m |-> IF n = m THEN next ELSE f[n]]
    <2>2. m - 1 \in 0 .. m - 1 /\ m \in Nat /\ 0 \in 0 .. m - 1
        BY <1>1
    <2>3. next \in Queries
        <3>1. f[m - 1] \in Queries
            BY <2>2
        <3> QED  BY <3>1, <1>1 DEF Queries
    <2>4. g \in [0 .. m -> Queries]
        <3> HIDE DEF next
        <3> QED  BY <2>2, <2>3
    <2>5. \A n \in 0 .. m - 1 : g[n] = f[n]
        BY <2>2
    <2>6. g[m] = next
        BY <2>2
    <2> HIDE DEF g
    <2>7. g[0] = <<>>
        BY <2>1, <2>2, <2>5 DEF Scans
    <2>8. ASSUME NEW n \in 1 .. m
          PROVE  g[n] = IF IsTrackingPair(query[n]) THEN g[n - 1] ELSE Append(g[n - 1], query[n])
        <3>1. CASE n = m
            BY <3>1, <2>2, <2>5, <2>6
        <3>2. CASE n # m
            <4>1. n \in 1 .. m - 1 /\ n \in 0 .. m - 1 /\ n - 1 \in 0 .. m - 1
                BY <3>2, <2>2
            <4> QED  BY <4>1, <2>1, <2>5, Zenon DEF Scans
        <3> QED  BY <3>1, <3>2
    <2>9. Scans(query, g, m)
        BY <2>7, <2>8, Zenon DEF Scans
    <2> QED  BY <2>4, <2>9, <2>2
<1>4. N \in G
    <2> HIDE DEF G
    <2> QED  BY <1>1, <1>2, <1>3, UpTo
<1> QED  BY <1>4 DEF N

(* Retained is its last value.                                             *)
LEMMA RetainedScans ==
    ASSUME LibraryFacts, NEW query \in Queries
    PROVE  \E f : Scans(query, f, Len(query)) /\ Retained(query) = f[Len(query)]
<1> DEFINE Step(f) == [n \in 0 .. Len(query) |-> IF n = 0 THEN <<>>
                                                ELSE IF IsTrackingPair(query[n]) THEN f[n - 1]
                                                ELSE Append(f[n - 1], query[n])]
           f == CHOOSE f : f = Step(f)
<1>1. Len(query) \in Nat
    BY DEF Queries
<1>2. PICK g \in [0 .. Len(query) -> Queries] : Scans(query, g, Len(query))
    BY ScanExists
<1>3. g = Step(g)
    <2>1. g = [n \in 0 .. Len(query) |-> g[n]]
        OBVIOUS
    <2>2. \A n \in 0 .. Len(query) : n = 0 \/ n \in 1 .. Len(query)
        BY <1>1
    <2>3. \A n \in 0 .. Len(query) : g[n] = Step(g)[n]
        BY <1>2, <2>2, Zenon DEF Scans
    <2> QED  BY <2>1, <2>3, Zenon
<1>4. f = Step(f)
    <2> HIDE DEF Step
    <2> QED  BY <1>3, Zenon
<1>5. Retained(query) = f[Len(query)]
    BY Zenon DEF Retained
<1> HIDE DEF f
<1>6. Scans(query, f, Len(query))
    <2>1. 0 \in 0 .. Len(query) /\ \A n \in 1 .. Len(query) : n \in 0 .. Len(query) /\ n # 0
        BY <1>1
    <2>2. \A n \in 0 .. Len(query) : f[n] = IF n = 0 THEN <<>> ELSE IF IsTrackingPair(query[n]) THEN f[n - 1]
                                                                   ELSE Append(f[n - 1], query[n])
        BY <1>4, Zenon
    <2> QED  BY <2>1, <2>2, Zenon DEF Scans
<1> QED  BY <1>5, <1>6

(* s holds the kept ones of the first n pairs, each at its rank. *)
Holds(query, s, n) ==
    /\ s \in Queries /\ Len(s) = Rank(query, n) /\ Len(s) <= n
    /\ \A i \in Kept(query, n) : Rank(query, i) \in 1 .. Len(s) /\ s[Rank(query, i)] = query[i]
    /\ \A k \in 1 .. Len(s) : \E i \in Kept(query, n) : Rank(query, i) = k

(* Retained keeps the pairs that are not for tracking, in their order.     *)
LEMMA RetainedHolds ==
    ASSUME LibraryFacts, NEW query \in Queries
    PROVE  Holds(query, Retained(query), Len(query))
<1>1. PICK f : Scans(query, f, Len(query)) /\ Retained(query) = f[Len(query)]
    BY RetainedScans
<1> DEFINE N == Len(query)
           G == {n \in 0 .. N : Holds(query, f[n], n)}
<1>2. N \in Nat /\ \A n \in 1 .. N : query[n] \in STRING \X STRING
    BY DEF Queries
<1>3. Scans(query, f, N)
    BY <1>1
<1> HIDE DEF N
<1>4. 0 \in G
    <2>1. f[0] = <<>> /\ Kept(query, 0) = {} /\ Rank(query, 0) = 0
        BY <1>3, RankFacts DEF Scans, Kept
    <2>2. <<>> \in Queries /\ Len(<<>>) = 0
        BY DEF Queries
    <2> QED  BY <1>2, <2>1, <2>2 DEF Holds
<1>5. ASSUME NEW m \in 1 .. N, m - 1 \in G PROVE m \in G
    <2> DEFINE s == f[m - 1]  t == f[m]  p == query[m]
    <2>1. Holds(query, s, m - 1)
        BY <1>5
    <2>2. t = IF IsTrackingPair(p) THEN s ELSE Append(s, p)
        BY <1>3, Zenon DEF Scans
    <2>3. m \in Nat \ {0} /\ m \in 0 .. N /\ p \in STRING \X STRING
        BY <1>2
    <2>4. \A j : j \in 1 .. m <=> j \in 1 .. m - 1 \/ j = m
        BY <2>3
    <2>5. Rank(query, m) = IF IsTrackingPair(p) THEN Rank(query, m - 1) ELSE Rank(query, m - 1) + 1
        BY <2>3, RankFacts, Zenon
    <2>6. \A i : i \in Kept(query, m) <=> i \in Kept(query, m - 1) \/ (i = m /\ ~IsTrackingPair(p))
        BY <2>4, Zenon DEF Kept
    <2> HIDE DEF s, t, p
    <2>7. CASE IsTrackingPair(p)
        <3>1. t = s /\ Rank(query, m) = Rank(query, m - 1) /\ Kept(query, m) = Kept(query, m - 1)
            BY <2>7, <2>2, <2>5, <2>6, Zenon
        <3>2. Len(s) <= m
            BY <2>1, <2>3 DEF Holds, Queries
        <3>3. Holds(query, t, m)
            BY <3>1, <3>2, <2>1, Zenon DEF Holds
        <3> QED  BY <3>3, <2>3 DEF t
    <2>8. CASE ~IsTrackingPair(p)
        <3>1. t = Append(s, p) /\ Rank(query, m) = Rank(query, m - 1) + 1
            BY <2>8, <2>2, <2>5, Zenon
        <3>2. s \in Queries /\ Len(s) \in Nat /\ Len(s) = Rank(query, m - 1) /\ Len(s) <= m - 1
            BY <2>1 DEF Holds, Queries
        <3>3. /\ t \in Queries /\ Len(t) = Len(s) + 1 /\ t[Len(t)] = p
              /\ \A k \in 1 .. Len(s) : t[k] = s[k]
            BY <3>1, <3>2, <2>3 DEF Queries
        <3>4. Len(t) = Rank(query, m) /\ Len(t) <= m
            BY <3>1, <3>2, <3>3, <2>3
        <3>5. ASSUME NEW i \in Kept(query, m)
              PROVE  Rank(query, i) \in 1 .. Len(t) /\ t[Rank(query, i)] = query[i]
            <4>1. CASE i \in Kept(query, m - 1)
                <5>1. Rank(query, i) \in 1 .. Len(s) /\ s[Rank(query, i)] = query[i]
                    BY <4>1, <2>1, Zenon DEF Holds
                <5> QED  BY <5>1, <3>2, <3>3
            <4>2. CASE i = m
                <5>1. Rank(query, i) = Len(t) /\ Len(t) \in 1 .. Len(t) /\ query[i] = p
                    BY <4>2, <3>2, <3>3, <3>4 DEF p
                <5> QED  BY <5>1, <3>3, Zenon
            <4> QED  BY <4>1, <4>2, <2>6, Zenon
        <3>6. ASSUME NEW k \in 1 .. Len(t)
              PROVE  \E i \in Kept(query, m) : Rank(query, i) = k
            <4>1. CASE k \in 1 .. Len(s)
                BY <4>1, <2>1, <2>6, Zenon DEF Holds
            <4>2. CASE k = Len(t)
                BY <4>2, <3>4, <2>6, <2>8, Zenon
            <4> QED  BY <4>1, <4>2, <3>2, <3>3
        <3>7. Holds(query, t, m)
            BY <3>3, <3>4, <3>5, <3>6, Zenon DEF Holds
        <3> QED  BY <3>7, <2>3 DEF t
    <2> QED  BY <2>7, <2>8, Zenon
<1>6. N \in G
    <2> HIDE DEF G
    <2> QED  BY <1>2, <1>4, <1>5, UpTo
<1> QED  BY <1>1, <1>6 DEF N

(* The places of a sequence with what they hold. *)
Places(s) == {<<k, s[k]>> : k \in 1 .. Len(s)}

Ranked(query) == {<<Rank(query, i), query[i]>> : i \in Kept(query, Len(query))}

(* Its ranks and pairs are those of the reference.                         *)
LEMMA RetainedRanked ==
    ASSUME LibraryFacts, NEW query \in Queries
    PROVE  Places(Retained(query)) = Ranked(query)
<1> DEFINE s == Retained(query)  N == Len(query)
<1>1. Holds(query, s, N)
    BY RetainedHolds
<1> HIDE DEF s, N
<1>2. ASSUME NEW i \in Kept(query, N)
      PROVE  \E k \in 1 .. Len(s) : <<Rank(query, i), query[i]>> = <<k, s[k]>>
    BY <1>1, Zenon DEF Holds
<1>3. ASSUME NEW k \in 1 .. Len(s)
      PROVE  \E i \in Kept(query, N) : <<Rank(query, i), query[i]>> = <<k, s[k]>>
    <2>1. PICK i \in Kept(query, N) : Rank(query, i) = k
        BY <1>1, Zenon DEF Holds
    <2>2. s[k] = query[i]
        BY <2>1, <1>1, Zenon DEF Holds
    <2> QED  BY <2>1, <2>2, Zenon
<1>4. Places(s) \subseteq {<<Rank(query, i), query[i]>> : i \in Kept(query, N)}
    BY <1>3, Zenon DEF Places
<1>5. {<<Rank(query, i), query[i]>> : i \in Kept(query, N)} \subseteq Places(s)
    BY <1>2, Zenon DEF Places
<1> QED  BY <1>4, <1>5, Zenon DEF Ranked, s, N

(* A sequence is determined by its places.                                 *)
LEMMA PlacesDetermine ==
    ASSUME NEW V, NEW s \in Seq(V), NEW t \in Seq(V), Places(s) = Places(t)
    PROVE  s = t
<1>1. Len(s) \in Nat /\ Len(t) \in Nat
    OBVIOUS
<1>2. \A k \in 1 .. Len(s) : k \in 1 .. Len(t) /\ s[k] = t[k]
    <2> SUFFICES ASSUME NEW k \in 1 .. Len(s) PROVE k \in 1 .. Len(t) /\ s[k] = t[k]
        OBVIOUS
    <2>1. PICK l \in 1 .. Len(t) : <<k, s[k]>> = <<l, t[l]>>
        BY Zenon DEF Places
    <2>2. k = l /\ s[k] = t[l]
        BY <2>1
    <2> QED  BY <2>2
<1>3. \A k \in 1 .. Len(t) : k \in 1 .. Len(s)
    <2> SUFFICES ASSUME NEW k \in 1 .. Len(t) PROVE k \in 1 .. Len(s)
        OBVIOUS
    <2>1. PICK l \in 1 .. Len(s) : <<k, t[k]>> = <<l, s[l]>>
        BY Zenon DEF Places
    <2> QED  BY <2>1
<1>4. Len(s) = Len(t)
    <2>1. ~(Len(s) < Len(t))
        <3> SUFFICES ASSUME Len(s) < Len(t) PROVE FALSE
            OBVIOUS
        <3>1. Len(t) \in 1 .. Len(t)
            BY <1>1
        <3> QED  BY <3>1, <1>1, <1>3
    <2>2. ~(Len(t) < Len(s))
        <3> SUFFICES ASSUME Len(t) < Len(s) PROVE FALSE
            OBVIOUS
        <3>1. Len(s) \in 1 .. Len(s)
            BY <1>1
        <3> QED  BY <3>1, <1>1, <1>2
    <2> QED  BY <1>1, <2>1, <2>2
<1> QED  BY <1>1, <1>2, <1>4

(* What a normal form keeps of a query is what the reference says, pair by *)
(* pair and rank by rank.                                                  *)
LEMMA KeptIsRemaining ==
    ASSUME LibraryFacts, NEW query \in Queries
    PROVE  KeptPairs(query) = Places(RemoveTrackingQuery(query))
<1> DEFINE kept == {i \in DOMAIN query : query[i][1] \notin TrackingKeys}
           none == <<"", "">>
<1>1. DOMAIN query = 1 .. Len(query) /\ Len(query) \in Nat
    BY DEF Queries
<1>2. kept = Kept(query, Len(query))
    BY <1>1, Zenon DEF Kept, IsTrackingPair
<1>3. ASSUME NEW i \in kept PROVE Cardinality({j \in kept : j <= i}) = Rank(query, i)
    <2>1. i \in 1 .. Len(query)
        BY <1>1
    <2>2. \A j : (j \in 1 .. Len(query) /\ j <= i) <=> j \in 1 .. i
        BY <1>1, <2>1
    <2>3. {j \in kept : j <= i} = Kept(query, i)
        BY <1>2, <2>2, Zenon DEF Kept
    <2> QED  BY <2>3, Zenon DEF Rank
<1>4. {<<Cardinality({j \in kept : j <= i}), query[i]>> : i \in kept} = Ranked(query)
    <2> DEFINE c(i) == Cardinality({j \in kept : j <= i})
    <2>1. \A i \in kept : c(i) = Rank(query, i)
        BY <1>3, Zenon
    <2> HIDE DEF c, kept
    <2>2. {<<c(i), query[i]>> : i \in kept} = {<<Rank(query, i), query[i]>> : i \in kept}
        BY <2>1, Zenon
    <2> QED  BY <2>2, <1>2, Zenon DEF c, Ranked
<1>5. KeptPairs(query) = IF Ranked(query) = {<<1, none>>} THEN {} ELSE Ranked(query)
    BY <1>4, Zenon DEF KeptPairs
<1>6. Ranked(query) = Places(Retained(query)) /\ Retained(query) \in Queries
    BY RetainedRanked, RetainedHolds, Zenon DEF Holds
<1>7. Places(<<none>>) = {<<1, none>>} /\ Places(<<>>) = {}
    <2>1. Len(<<none>>) = 1 /\ <<none>>[1] = none /\ Len(<<>>) = 0
        BY Zenon
    <2>2. 1 .. 1 = {1} /\ 1 .. 0 = {}
        OBVIOUS
    <2>3. Places(<<none>>) = {<<k, <<none>>[k]>> : k \in {1}} /\ Places(<<>>) = {}
        BY <2>1, <2>2, Zenon DEF Places
    <2> HIDE DEF none
    <2>4. {<<k, <<none>>[k]>> : k \in {1}} = {<<1, none>>}
        OBVIOUS
    <2> QED  BY <2>1, <2>3, <2>4, Zenon
<1>8. Ranked(query) = {<<1, none>>} <=> Retained(query) = <<none>>
    <2> DEFINE V == (STRING \X STRING) \cup {none}  r == Retained(query)
    <2> HIDE DEF none, r
    <2>1. r \in Seq(V) /\ <<none>> \in Seq(V)
        BY <1>6 DEF Queries, r
    <2>2. Places(r) = Places(<<none>>) => r = <<none>>
        BY <2>1, PlacesDetermine, Zenon
    <2> QED  BY <1>6, <1>7, <2>2, Zenon DEF r
<1> QED  BY <1>5, <1>6, <1>7, <1>8, Zenon DEF RemoveTrackingQuery

(* A query with no pair for tracking is retained as it is.                 *)
LEMMA NothingToRemove ==
    ASSUME LibraryFacts, NEW query \in Queries, \A i \in 1 .. Len(query) : ~IsTrackingPair(query[i])
    PROVE  Retained(query) = query
<1> DEFINE N == Len(query)  s == Retained(query)
<1>1. N \in Nat /\ Holds(query, s, N)
    BY RetainedHolds DEF Queries
<1>2. \A n \in 0 .. N : Kept(query, n) = 1 .. n
    BY <1>1 DEF Kept
<1>3. \A n \in 0 .. N : Rank(query, n) = n
    <2> SUFFICES ASSUME NEW n \in 0 .. N PROVE Rank(query, n) = n
        OBVIOUS
    <2>1. n \in Nat
        BY <1>1
    <2> QED  BY <1>2, <2>1, Zenon DEF Rank, LibraryFacts
<1> HIDE DEF N, s
<1>4. N \in 0 .. N /\ \A i \in 1 .. N : i \in 0 .. N
    BY <1>1
<1>5. s \in Queries /\ Len(s) = N /\ \A i \in 1 .. N : s[i] = query[i]
    BY <1>1, <1>2, <1>3, <1>4, Zenon DEF Holds
<1>6. s = query
    BY <1>1, <1>5 DEF Queries, N
<1> QED  BY <1>6 DEF s

(* Removing the pairs for tracking keeps a query, makes it no longer, and  *)
(* leaves nothing to remove.                                               *)
LEMMA RemovalFacts ==
    ASSUME LibraryFacts, NEW query \in Queries
    PROVE  /\ RemoveTrackingQuery(query) \in Queries
           /\ Len(RemoveTrackingQuery(query)) <= Len(query)
           /\ RemoveTrackingQuery(RemoveTrackingQuery(query)) = RemoveTrackingQuery(query)
<1> DEFINE s == Retained(query)  none == << <<"", "">> >>
<1>1. Holds(query, s, Len(query)) /\ Len(query) \in Nat
    BY RetainedHolds DEF Queries
<1>2. s \in Queries /\ Len(s) <= Len(query)
    BY <1>1, Zenon DEF Holds
<1>3. ASSUME NEW k \in 1 .. Len(s) PROVE ~IsTrackingPair(s[k])
    <2>1. PICK i \in Kept(query, Len(query)) : Rank(query, i) = k
        BY <1>1, Zenon DEF Holds
    <2>2. s[k] = query[i]
        BY <2>1, <1>1, Zenon DEF Holds
    <2> QED  BY <2>1, <2>2, Zenon DEF Kept
<1>4. Retained(s) = s
    <2> HIDE DEF s
    <2> QED  BY <1>2, <1>3, NothingToRemove, Zenon
<1>5. <<>> \in Queries /\ Len(<<>>) = 0 /\ none # <<>> /\ \A i \in 1 .. Len(<<>>) : FALSE
    BY DEF Queries
<1>6. Retained(<<>>) = <<>>
    BY <1>5, NothingToRemove, Zenon
<1>7. CASE s = none
    <2>1. RemoveTrackingQuery(query) = <<>> /\ RemoveTrackingQuery(<<>>) = <<>>
        BY <1>7, <1>5, <1>6, Zenon DEF RemoveTrackingQuery
    <2> QED  BY <2>1, <1>5, <1>1
<1>8. CASE s # none
    <2>1. RemoveTrackingQuery(query) = s /\ RemoveTrackingQuery(s) = s
        BY <1>8, <1>4, Zenon DEF RemoveTrackingQuery
    <2> QED  BY <2>1, <1>2, Zenon
<1> QED  BY <1>7, <1>8, Zenon

---------------------------------------------------------------------------

(* Classify looks at the host and the path only. *)
RouteOf(host, path) ==
    LET owners == {owner \in Owners : HostMatches(host, owner[2])}
    IN  IF owners # {} THEN (CHOOSE owner \in owners : TRUE)[1]
        ELSE IF path # <<>> /\ path[Len(path)] \in PdfNames THEN "Pdf"
        ELSE "GenericWeb"

(* A normal form is accepted by every policy that accepts the URL, is its  *)
(* own normal form, and takes the same route.                              *)
LEMMA NormalFormFacts ==
    ASSUME LibraryFacts, NEW url \in Url, NEW policy, policy.maxLength \in Int
    PROVE  /\ Normalized(url) \in Url
           /\ Normalized(Normalized(url)) = Normalized(url)
           /\ Acceptable(url, policy) => Acceptable(Normalized(url), policy)
           /\ Classify(Normalized(url), PdfNames) = Classify(url, PdfNames)
<1> DEFINE n == Normalized(url)
<1>1. /\ url.absolute \in BOOLEAN /\ url.scheme \in STRING /\ url.plain \in BOOLEAN /\ url.userinfo \in BOOLEAN
      /\ url.host \in Domains \cup Addresses \cup {NoHost} /\ url.port \in Int /\ url.fragment \in BOOLEAN
      /\ url.path \in Seq(STRING) /\ url.query \in Queries
    BY DEF Url, Queries
<1>2. /\ n.absolute /\ n.scheme = url.scheme /\ n.host = url.host /\ n.plain /\ ~n.userinfo
      /\ n.port = (IF url.port = DefaultPort(url.scheme) THEN NoPort ELSE url.port)
      /\ n.path = url.path /\ n.query = RemoveTrackingQuery(url.query) /\ ~n.fragment
    BY Zenon DEF Normalized
<1>3. n.query \in Queries /\ Len(n.query) <= Len(url.query) /\ RemoveTrackingQuery(n.query) = n.query
    BY <1>1, <1>2, RemovalFacts, Zenon
<1>4. n \in Url
    <2>1. (IF url.port = DefaultPort(url.scheme) THEN NoPort ELSE url.port) \in Int
        BY <1>1 DEF NoPort
    <2>2. RemoveTrackingQuery(url.query) \in Seq(STRING \X STRING)
        BY <1>2, <1>3, ZenonT(30) DEF Queries
    <2> QED  BY <1>1, <2>1, <2>2, ZenonT(30) DEF Normalized, Url
<1>5. n.port # DefaultPort(n.scheme) /\ (n.port = NoPort => url.port \in {NoPort, DefaultPort(url.scheme)})
    BY <1>1, <1>2 DEF DefaultPort, NoPort
<1>6. Normalized(n) = n
    BY <1>2, <1>3, <1>5, Zenon DEF Normalized
<1>7. ASSUME Acceptable(url, policy) PROVE Acceptable(n, policy)
    <2>1. Len(url.path) \in Nat /\ Len(url.query) \in Nat /\ Len(n.query) \in Nat /\ Len(n.query) <= Len(url.query)
        BY <1>1, <1>3 DEF Queries
    <2> HIDE DEF n
    <2>2. Length(n) <= Length(url) /\ Length(n) \in Nat /\ Length(url) \in Nat
        <3> DEFINE path == Len(url.path)  before == Len(url.query)  after == Len(n.query)
                   fragment == IF url.fragment THEN 1 ELSE 0
                   port(u) == IF u.port = NoPort THEN 0 ELSE 1
        <3>1. Length(n) = path + after + 0 + port(n) /\ Length(url) = path + before + fragment + port(url)
            BY <1>2, Zenon DEF Length
        <3>2. fragment \in {0, 1}
            BY Zenon
        <3>3. port(n) \in {0, 1} /\ port(url) \in {0, 1} /\ port(n) <= port(url)
            BY <1>1, <1>2 DEF NoPort, DefaultPort
        <3>4. path \in Nat /\ before \in Nat /\ after \in Nat /\ after <= before
            BY <2>1
        <3> HIDE DEF path, before, after, fragment, port
        <3> QED  BY <3>1, <3>2, <3>3, <3>4
    <2>3. EffectivePort(n) = EffectivePort(url) /\ (url.port # 0 => n.port # 0)
        BY <1>1, <1>2 DEF EffectivePort, NoPort, DefaultPort
    <2>4. Length(n) <= policy.maxLength
        BY <1>7, <2>2 DEF Acceptable
    <2> QED  BY <1>7, <1>2, <2>3, <2>4, Zenon DEF Acceptable
<1>8. Classify(n, PdfNames) = Classify(url, PdfNames)
    <2>1. \A u : Classify(u, PdfNames) = RouteOf(u.host, u.path)
        BY Zenon DEF Classify, RouteOf
    <2> QED  BY <2>1, <1>2, Zenon
<1> QED  BY <1>4, <1>6, <1>7, <1>8, Zenon

(* Two URLs have one normal form exactly when they name one target.        *)
LEMMA OneFormPerTarget ==
    ASSUME LibraryFacts, NEW s \in Url, NEW t \in Url
    PROVE  Normalized(s) = Normalized(t) <=> SameTarget(s, t)
<1>1. s.port \in Int /\ t.port \in Int /\ s.query \in Queries /\ t.query \in Queries
    BY DEF Url, Queries
<1>2. RemoveTrackingQuery(s.query) = RemoveTrackingQuery(t.query) <=> KeptPairs(s.query) = KeptPairs(t.query)
    <2> DEFINE p == RemoveTrackingQuery(s.query)  q == RemoveTrackingQuery(t.query)
    <2>1. KeptPairs(s.query) = Places(p) /\ KeptPairs(t.query) = Places(q)
        BY <1>1, KeptIsRemaining, Zenon
    <2>2. p \in Seq(STRING \X STRING) /\ q \in Seq(STRING \X STRING)
        BY <1>1, RemovalFacts, Zenon DEF Queries
    <2> HIDE DEF p, q
    <2>3. Places(p) = Places(q) => p = q
        BY <2>2, PlacesDetermine, Zenon
    <2> QED  BY <2>1, <2>3, Zenon DEF p, q
<1> DEFINE p(u) == IF u.port = DefaultPort(u.scheme) THEN NoPort ELSE u.port
<1>3. s.scheme = t.scheme => (p(s) = p(t) <=> EffectivePort(s) = EffectivePort(t))
    BY <1>1 DEF EffectivePort, NoPort, DefaultPort
<1>4. \A u : Normalized(u) = [absolute |-> TRUE, scheme |-> u.scheme, host |-> u.host, plain |-> TRUE,
                              userinfo |-> FALSE, port |-> p(u), path |-> u.path,
                              query |-> RemoveTrackingQuery(u.query), fragment |-> FALSE]
    BY Zenon DEF Normalized
<1> HIDE DEF p
<1>5. Normalized(s) = Normalized(t) <=>
        /\ s.scheme = t.scheme /\ s.host = t.host /\ s.path = t.path /\ p(s) = p(t)
        /\ RemoveTrackingQuery(s.query) = RemoveTrackingQuery(t.query)
    BY <1>4, Zenon
<1> QED  BY <1>2, <1>3, <1>5, Zenon DEF SameTarget

(* Every URL a call can request is a normal form, and the only one of its  *)
(* target.                                                                 *)
LEMMA UrlsAreNormal == LibraryFacts => Urls \subseteq NormalForms /\ Urls \subseteq Url
<1> HAVE LibraryFacts
<1>1. FetchPolicy.maxLength \in Int /\ IntakePolicy.maxLength \in Int
    BY FetchAssumption DEF FetchPolicy, IntakePolicy
<1>2. \A t \in StoredUrls \cup Locations : t \in Url
    BY FetchAssumption, <1>1, NormalFormFacts, Zenon DEF StoredUrls
<1>3. ASSUME NEW u \in Urls PROVE u \in Url /\ Acceptable(u, FetchPolicy) /\ Normalized(u) = u
    <2>1. PICK t \in StoredUrls \cup Locations : Acceptable(t, FetchPolicy) /\ u = Normalized(t)
        BY Zenon DEF Urls
    <2> QED  BY <2>1, <1>1, <1>2, NormalFormFacts, Zenon
<1>4. ASSUME NEW u \in Urls, NEW v \in Urls, SameTarget(u, v) PROVE u = v
    BY <1>3, <1>4, OneFormPerTarget, Zenon
<1> QED  BY <1>3, <1>4, Zenon DEF NormalForms

(* The keys of the intake are stable.                                      *)
LEMMA KeysAreStable == LibraryFacts => StableKeys
<1> HAVE LibraryFacts
<1>1. IntakePolicy.maxLength \in Int
    BY FetchAssumption DEF IntakePolicy
<1>2. \A s \in Sources : s \in Url
    BY FetchAssumption, Zenon
<1> QED  BY <1>1, <1>2, NormalFormFacts, OneFormPerTarget, Zenon DEF StableKeys

---------------------------------------------------------------------------
(* The library, and the results that rest on it.                           *)

INSTANCE FiniteSetTheorems
INSTANCE NaturalsInduction
INSTANCE WellFoundedInduction

(* A nonempty set of naturals has a least element.                         *)
LEMMA LeastNatural ==
    ASSUME NEW S \in SUBSET Nat, S # {}
    PROVE  \E m \in S : \A n \in S : m <= n
<1>1. \E x \in S : \A y \in S : ~(<<y, x>> \in OpToRel(<, Nat))
    BY NatLessThanWellFounded, WFMin, ZenonT(30)
<1>2. PICK x \in S : \A y \in S : ~(<<y, x>> \in OpToRel(<, Nat))
    BY <1>1, Zenon
<1>3. \A y \in S : ~(y < x)
    BY <1>2, ZenonT(30) DEF OpToRel
<1> QED  BY <1>3

(* The facts the lemmas above assume.                                      *)
LEMMA Library == LibraryFacts
<1>1. \A n \in Nat : IsFiniteSet(1 .. n) /\ Cardinality(1 .. n) = n
  BY FS_Interval
<1> QED BY <1>1, FS_EmptySet, FS_CardinalityType, FS_Subset, FS_AddElement, FS_RemoveElement, LeastNatural, ZenonT(30)
           DEF LibraryFacts

(* The permits of SafeFetcher are exact for any number of calls and limits *)
(* (PermitsAreExact).                                                      *)
THEOREM PermitsAlwaysExact == Spec => []PermitsAreExact
<1>1. Init => Exact /\ admission \in Limits
  <2> SUFFICES ASSUME Init PROVE Exact /\ admission \in Limits
    BY SMTT(30)
  <2>1. Holders = {} /\ \A h \in Hosts : On(h) = {}
    BY DEF Init, Holders, On, Guarded, Live, Idle, NewCall
  <2>2. Exact
    BY <2>1, Library, ZenonT(30) DEF Exact, Init, LibraryFacts
  <2> QED BY <2>2, ConstantTypes DEF Init, Limits
<1>2. Types /\ Exact /\ admission \in Limits /\ [Next]_vars => (Exact /\ admission \in Limits)'
  BY PermitStep, Library, SMTT(30)
<1>3. Types /\ Exact /\ admission \in Limits => PermitsAreExact
  BY DEF Types, TypeOK, Limits, Exact, PermitsAreExact, Holders, On
<1> QED BY <1>1, <1>2, <1>3, TypesAlways, PTL DEF Spec

(* RoutingIsStable for every set of sources and redirect targets: the key  *)
(* the intake stores is a fixed point of normalize that every policy which *)
(* accepted the URL accepts, is shared by exactly the spellings of one     *)
(* target, and at every hop a call is at such a normal form.               *)
THEOREM RoutingAlwaysStable == Spec => []RoutingIsStable
<1>1. Types /\ Chains => RoutingIsStable
    <2> SUFFICES ASSUME Types, Chains, NEW f \in Fetches, Live(f)
                 PROVE  /\ {fetch[f].url} \cup fetch[f].visited \subseteq NormalForms
                        /\ Guarded(f) => fetch[f].url \in fetch[f].visited
        BY KeysAreStable, Library, ZenonT(30) DEF RoutingIsStable
    <2>1. Chained(fetch[f]) /\ fetch[f].visited \subseteq Urls /\ fetch[f].url \in Urls
        BY DEF Types, Chains, Call
    <2>2. Guarded(f) => fetch[f].url \in fetch[f].visited
        BY <2>1, Zenon DEF Chained, Guarded, Live
    <2>3. Urls \subseteq NormalForms
        BY UrlsAreNormal, Library, Zenon
    <2> QED  BY <2>1, <2>2, <2>3, Zenon
<1> QED  BY <1>1, TypesAlways, ChainsAlways, PTL
=============================================================================
