--------------------------- MODULE ServiceProofs ---------------------------
(***************************************************************************)
(* Proofs about what the executions of runs share: the outbox relay        *)
(* (OutboxRelay), the content-addressed store (ArtifactStore) and the      *)
(* admission gate that shutdown closes (ProcessShutdown).                  *)
(***************************************************************************)
EXTENDS OutboxRelay, ArtifactStore, ProcessShutdown, TLAPS

-----------------------------------------------------------------------------
(* ProcessShutdown: the worker loops behind the admission gate.            *)

(* The facts about finite sets that counting takes; Counting proves them.  *)
CountingFacts ==
    /\ \A S : IsFiniteSet(S) => Cardinality(S) \in Nat
    /\ \A S, T : IsFiniteSet(T) /\ S \subseteq T => IsFiniteSet(S)
    /\ \A S, x : IsFiniteSet(S) /\ x \notin S => Cardinality(S \cup {x}) = Cardinality(S) + 1
    /\ \A S, x : IsFiniteSet(S) /\ x \in S => Cardinality(S \ {x}) = Cardinality(S) - 1
    /\ \A S : IsFiniteSet(S) => (Cardinality(S) = 0 <=> S = {})
    /\ IsFiniteSet({})

Permits == {w \in Workers : at[w] \in Counted}

(* Once shutdown has closed the gate it stays closed. *)
ClosedForGood ==
    main \in {"closed", "notified", "waiting", "drained", "joining", "done", "failed"} => ~accepting

GateInv == ProcessTypeOK /\ ActiveCountsPermits /\ ClosedForGood /\ DrainedMeansIdle

(* They are finitely many. *)
LEMMA PermitsFinite ==
    ASSUME CountingFacts
    PROVE  IsFiniteSet(Permits)
<1>1. Permits \subseteq Workers /\ IsFiniteSet(Workers)
    BY TasksAssumption, Zenon DEF Permits
<1> QED
    BY <1>1, Zenon DEF CountingFacts

(* One more counted worker is one more permit. *)
LEMMA PermitAdded ==
    ASSUME CountingFacts, ProcessTypeOK, ActiveCountsPermits, NEW w \in Workers, at[w] \notin Counted,
           Permits' = Permits \cup {w}, active' = active + 1
    PROVE  ActiveCountsPermits'
<1>1. IsFiniteSet(Permits)
    BY PermitsFinite, Zenon
<1>2. w \notin Permits
    BY DEF Permits
<1>3. Cardinality(Permits \cup {w}) = Cardinality(Permits) + 1
    BY <1>1, <1>2, Zenon DEF CountingFacts
<1> QED
    BY <1>3 DEF ActiveCountsPermits, Permits

(* One counted worker fewer is one permit fewer, and there was one. *)
LEMMA PermitRemoved ==
    ASSUME CountingFacts, ProcessTypeOK, ActiveCountsPermits, NEW w \in Workers, at[w] \in Counted,
           Permits' = Permits \ {w}, active' = active - 1
    PROVE  ActiveCountsPermits' /\ active >= 1
<1>1. IsFiniteSet(Permits)
    BY PermitsFinite, Zenon
<1>2. w \in Permits
    BY DEF Permits
<1>3. Cardinality(Permits \ {w}) = Cardinality(Permits) - 1
    BY <1>1, <1>2, Zenon DEF CountingFacts
<1>4. Permits # {}
    BY <1>2
<1>5. Cardinality(Permits) \in Nat /\ Cardinality(Permits) # 0
    BY <1>1, <1>4, Zenon DEF CountingFacts
<1>6. active = Cardinality(Permits)
    BY Zenon DEF ActiveCountsPermits, Permits
<1>7. active' = Cardinality(Permits \ {w}) /\ active >= 1
    BY <1>3, <1>5, <1>6
<1>8. active' = Cardinality(Permits')
    BY <1>7, Zenon
<1> QED
    BY <1>7, <1>8, Zenon DEF ActiveCountsPermits, Permits

(* The same counted workers and the same count. *)
LEMMA PermitsKept ==
    ASSUME ActiveCountsPermits, Permits' = Permits, active' = active
    PROVE  ActiveCountsPermits'
    BY Zenon DEF ActiveCountsPermits, Permits

(* No count means no permit. *)
LEMMA NoPermit ==
    ASSUME CountingFacts, ActiveCountsPermits, active = 0
    PROVE  \A w \in Workers : at[w] \notin Counted
<1>1. IsFiniteSet(Permits)
    BY PermitsFinite, Zenon
<1>2. active = Cardinality(Permits)
    BY Zenon DEF ActiveCountsPermits, Permits
<1>3. Permits = {}
    BY <1>1, <1>2, Zenon DEF CountingFacts
<1> QED
    BY <1>3, Zenon DEF Permits

(* Each step of a worker loop. *)
LEMMA WorkerStep ==
    ASSUME CountingFacts, GateInv, Running, NEW w \in Workers, Worker(w) \/ FinishRun(w)
    PROVE  GateInv'
<1> USE DEF GateInv, WorkerRest, gate
<1>1. CASE Poll(w)
    <2>1. Permits' = Permits
        BY <1>1 DEF Poll, Move, Permits, Counted, ProcessTypeOK, WorkerPlaces
    <2> QED
        BY <1>1, <2>1, PermitsKept DEF Poll, Move, ProcessTypeOK, WorkerPlaces, ClosedForGood, DrainedMeansIdle
<1>2. CASE LoadAccepting(w)
    <2>1. Permits' = Permits
        BY <1>2 DEF LoadAccepting, Move, Permits, Counted, ProcessTypeOK, WorkerPlaces
    <2> QED
        BY <1>2, <2>1, PermitsKept DEF LoadAccepting, Move, ProcessTypeOK, WorkerPlaces, ClosedForGood, DrainedMeansIdle
<1>3. CASE Count(w)
    <2>1. Permits' = Permits \cup {w} /\ at[w] \notin Counted
        BY <1>3 DEF Count, Move, Permits, Counted, ProcessTypeOK, WorkerPlaces
    <2>2. ActiveCountsPermits'
        BY <1>3, <2>1, PermitAdded DEF Count
    <2> QED
        BY <1>3, <2>2 DEF Count, Move, ProcessTypeOK, WorkerPlaces, ClosedForGood, DrainedMeansIdle
<1>4. CASE CheckAgain(w)
    <2>1. Permits' = Permits
        BY <1>4 DEF CheckAgain, Move, Permits, Counted, ProcessTypeOK, WorkerPlaces
    <2>2. ActiveCountsPermits'
        BY <1>4, <2>1, PermitsKept DEF CheckAgain
    <2>3. ProcessTypeOK' /\ ClosedForGood'
        BY <1>4 DEF CheckAgain, Move, ProcessTypeOK, WorkerPlaces, ClosedForGood
    <2>4. DrainedMeansIdle'
        BY <1>4 DEF CheckAgain, Move, ProcessTypeOK, ClosedForGood, DrainedMeansIdle
    <2> QED
        BY <2>2, <2>3, <2>4
<1>5. CASE FinishRun(w) \/ AbortRun(w)
    <2>1. Permits' = Permits
        BY <1>5 DEF FinishRun, AbortRun, Move, Permits, Counted, ProcessTypeOK, WorkerPlaces
    <2> QED
        BY <1>5, <2>1, PermitsKept
        DEF FinishRun, AbortRun, Move, ProcessTypeOK, WorkerPlaces, ClosedForGood, DrainedMeansIdle
<1>6. CASE ReleaseOne(w)
    <2>1. Permits' = Permits \ {w} /\ at[w] \in Counted
        BY <1>6 DEF ReleaseOne, Move, Permits, Counted, ProcessTypeOK, WorkerPlaces
    <2>2. ActiveCountsPermits' /\ active >= 1
        BY <1>6, <2>1, PermitRemoved DEF ReleaseOne
    <2> QED
        BY <1>6, <2>2 DEF ReleaseOne, Move, ProcessTypeOK, WorkerPlaces, ClosedForGood, DrainedMeansIdle
<1>7. CASE NotifyWaiters(w)
    <2>1. Permits' = Permits
        BY <1>7 DEF NotifyWaiters, Move, Permits, Counted, ProcessTypeOK, WorkerPlaces
    <2> QED
        BY <1>7, <2>1, PermitsKept DEF NotifyWaiters, Move, ProcessTypeOK, WorkerPlaces, ClosedForGood, DrainedMeansIdle
<1> QED
    BY <1>1, <1>2, <1>3, <1>4, <1>5, <1>6, <1>7 DEF Worker

(* Each step of another task. *)
LEMMA OtherTaskStep ==
    ASSUME GateInv, NEW t \in Others \cup {Server}, TaskStops(t) \/ TaskExits(t)
    PROVE  GateInv'
<1>1. Permits' = Permits /\ active' = active
    BY DEF TaskStops, TaskExits, Permits, gate
<1> QED
    BY <1>1, PermitsKept
    DEF GateInv, TaskStops, TaskExits, gate, ProcessTypeOK, Over, ClosedForGood, DrainedMeansIdle

(* Each step of run_initialized.  Only the reading of the count matters:   *)
(* a count of zero behind a closed gate means that nobody holds a permit   *)
(* and nobody will.                                                        *)
LEMMA MainStep ==
    ASSUME CountingFacts, GateInv, MarkReady \/ StopRequested \/ Shutdown \/ GraceEnds
    PROVE  GateInv'
<1> USE DEF GateInv, Aside, MainGoes, gate
<1>0. ActiveCountsPermits'
    <2>1. Permits' = Permits /\ active' = active
        BY DEF MarkReady, StopRequested, Shutdown, BeginDrain, Close, Drained, GraceEnds, StopServer,
               JoinNext, AllJoined, Permits
    <2> QED
        BY <2>1, PermitsKept
<1>1. CASE MarkReady
    BY <1>0, <1>1 DEF MarkReady, ProcessTypeOK, MainPlaces, ClosedForGood, DrainedMeansIdle
<1>2. CASE StopRequested
    BY <1>0, <1>2 DEF StopRequested, ProcessTypeOK, MainPlaces, ClosedForGood, DrainedMeansIdle
<1>3. CASE BeginDrain
    BY <1>0, <1>3 DEF BeginDrain, ProcessTypeOK, MainPlaces, ClosedForGood, DrainedMeansIdle
<1>4. CASE Close
    BY <1>0, <1>4, Zenon DEF Close, ProcessTypeOK, MainPlaces, ClosedForGood, DrainedMeansIdle
<1>5. CASE Drained
    <2>1. ProcessTypeOK' /\ ClosedForGood'
        BY <1>5, Zenon DEF Drained, ProcessTypeOK, MainPlaces, ClosedForGood
    <2>2. DrainedMeansIdle'
        BY <1>5, NoPermit DEF Drained, Counted, DrainedMeansIdle
    <2> QED
        BY <1>0, <2>1, <2>2
<1>6. CASE GraceEnds
    BY <1>0, <1>6 DEF GraceEnds, ProcessTypeOK, MainPlaces, ClosedForGood, DrainedMeansIdle
<1>7. CASE StopServer
    BY <1>0, <1>7 DEF StopServer, ProcessTypeOK, MainPlaces, ClosedForGood, DrainedMeansIdle
<1>8. CASE JoinNext
    BY <1>0, <1>8 DEF JoinNext, ProcessTypeOK, MainPlaces, ClosedForGood, DrainedMeansIdle
<1>9. CASE AllJoined
    BY <1>0, <1>9 DEF AllJoined, ProcessTypeOK, MainPlaces, ClosedForGood, DrainedMeansIdle
<1> QED
    BY <1>1, <1>2, <1>3, <1>4, <1>5, <1>6, <1>7, <1>8, <1>9 DEF Shutdown

(* The invariant holds at first. *)
LEMMA GateInit == ASSUME CountingFacts PROVE ProcessInit => GateInv
<1> SUFFICES ASSUME ProcessInit PROVE GateInv
    OBVIOUS
<1>1. ProcessTypeOK /\ ClosedForGood /\ DrainedMeansIdle
    BY Zenon DEF ProcessInit, ProcessTypeOK, MainPlaces, WorkerPlaces, ClosedForGood, DrainedMeansIdle, Over
<1>2. {w \in Workers : at[w] \in Counted} = {}
    BY DEF ProcessInit, Counted
<1>3. active = 0 /\ Cardinality({}) = 0
    BY Zenon DEF ProcessInit, CountingFacts
<1>4. ActiveCountsPermits
    BY <1>2, <1>3, Zenon DEF ActiveCountsPermits
<1> QED
    BY <1>1, <1>4 DEF GateInv

(* Every step preserves it. *)
LEMMA GateStep ==
    ASSUME CountingFacts PROVE GateInv /\ [ProcessNext]_processVars => GateInv'
<1> SUFFICES ASSUME GateInv, [ProcessNext]_processVars PROVE GateInv'
    OBVIOUS
<1>1. CASE UNCHANGED processVars
    BY <1>1 DEF processVars, gate, GateInv, ProcessTypeOK, ActiveCountsPermits, ClosedForGood, DrainedMeansIdle
<1>2. CASE ProcessNext
    BY <1>1, <1>2, WorkerStep, OtherTaskStep, MainStep DEF ProcessNext
<1> QED
    BY <1>1, <1>2

(* The invariant is one of every behaviour. *)
LEMMA GateInvariance == ASSUME CountingFacts PROVE ProcessSpec => []GateInv
    BY GateInit, GateStep, PTL DEF ProcessSpec

-----------------------------------------------------------------------------
(* ArtifactStore: any number of concurrent calls, any bodies and limits.   *)

CallStates == [pc : Phases, body : Bodies, wire : 0 .. MaxWire, decoded : 0 .. MaxDecoded,
               outcome : Outcomes]

(* While a call copies, its staging file holds the bytes it has hashed.    *)
(* From the end of the stream on, these are the whole member, which then   *)
(* also fits the wire limit.  A call that is to return a reference removes *)
(* its staging file only after the digest path exists.                     *)
Progress(c) ==
    /\ call[c].pc \in {"copy", "sync", "link"} => c \in DOMAIN staging /\ staging[c] = call[c].decoded
    /\ call[c].pc \in {"sync", "link", "unlink", "compare"} =>
            call[c].decoded = PlainSize[call[c].body] /\ MemberWire[call[c].body] <= MaxWire
    /\ call[c].pc = "unlink" \/ (call[c].pc = "discard" /\ call[c].outcome = "Fresh") => Digest(c) \in DOMAIN blobs
    /\ call[c].pc \notin {"discard", "done"} => call[c].outcome = "none"

StagingInv == DOMAIN staging \subseteq Calls /\ \A c \in DOMAIN staging : staging[c] \in 0 .. MaxDecoded

BlobsInv ==
    /\ DOMAIN blobs \subseteq Prefixes
    /\ \A d \in DOMAIN blobs :
        /\ blobs[d] \in Prefixes
        /\ d = Whole(d.body) /\ MemberWire[d.body] <= MaxWire /\ PlainSize[d.body] <= MaxDecoded

StoreInv ==
    /\ call \in [Calls -> CallStates]
    /\ \A c \in Calls : Progress(c)
    /\ StagingInv
    /\ BlobsInv

(* The local state of one call changes. *)
LEMMA Updated ==
    ASSUME StoreInv, NEW c \in Calls, NEW s \in CallStates, call' = [call EXCEPT ![c] = s]
    PROVE  call' \in [Calls -> CallStates] /\ call'[c] = s /\ \A x \in Calls \ {c} : call'[x] = call[x]
    BY Zenon DEF StoreInv

(* What a step of call c has to show: it leaves the staging files of other *)
(* calls alone, and no digest path goes away.                              *)
LEMMA OneCall ==
    ASSUME StoreInv, NEW c \in Calls, NEW s \in CallStates, call' = [call EXCEPT ![c] = s],
           \A x \in DOMAIN staging : x # c => x \in DOMAIN staging' /\ staging'[x] = staging[x],
           DOMAIN blobs \subseteq DOMAIN blobs',
           StagingInv', BlobsInv', Progress(c)'
    PROVE  StoreInv'
<1>1. ASSUME NEW x \in Calls, x # c PROVE Progress(x)'
    <2>1. call'[x] = call[x] /\ Progress(x)
        BY <1>1, Updated DEF StoreInv
    <2> QED
        BY <1>1, <2>1 DEF Progress, Digest
<1> QED
    BY <1>1, Updated DEF StoreInv

(* Removing a staging file, or leaving it, harms no other call. *)
LEMMA StagingGone ==
    ASSUME StagingInv, NEW c \in Calls, staging' \in {staging, Cut(staging, c)}
    PROVE  /\ StagingInv'
           /\ \A x \in DOMAIN staging : x # c => x \in DOMAIN staging' /\ staging'[x] = staging[x]
    BY DEF StagingInv, Cut

(* Writing the staging file of c to a size within the limit. *)
LEMMA StagingWritten ==
    ASSUME StagingInv, NEW c \in Calls, NEW n \in 0 .. MaxDecoded,
           staging' = Put(staging, c, n) \/ (c \in DOMAIN staging /\ staging' = [staging EXCEPT ![c] = n])
    PROVE  /\ StagingInv' /\ c \in DOMAIN staging' /\ staging'[c] = n
           /\ \A x \in DOMAIN staging : x # c => x \in DOMAIN staging' /\ staging'[x] = staging[x]
    BY DEF StagingInv, Put

(* The blobs stay as they are. *)
LEMMA BlobsKept ==
    ASSUME StoreInv, UNCHANGED blobs
    PROVE  BlobsInv' /\ DOMAIN blobs \subseteq DOMAIN blobs'
    BY Zenon DEF StoreInv, BlobsInv

(* The local state of a call that ends. *)
LEMMA Ended ==
    ASSUME StoreInv, NEW c \in Calls, NEW o \in Outcomes, End(c, o)
    PROVE  \E s \in CallStates :
                call' = [call EXCEPT ![c] = s] /\ s.pc = "done" /\ s.outcome = o /\ Progress(c)'
<1> DEFINE s == [call[c] EXCEPT !.pc = "done", !.outcome = o]
<1>1. s \in CallStates /\ s.pc = "done" /\ s.outcome = o
    BY Zenon DEF StoreInv, CallStates, Phases
<1>2. call' = [call EXCEPT ![c] = s]
    BY Zenon DEF StoreInv, End
<1> HIDE DEF s
<1>3. Progress(c)'
    BY <1>1, <1>2, Updated, Zenon DEF Progress
<1> QED
    BY <1>1, <1>2, <1>3, Zenon

(* A call may end anywhere, with or without its staging file: every error  *)
(* path, every cancellation, and both successful ends.                     *)
LEMMA EndStep ==
    ASSUME StoreInv, NEW c \in Calls, NEW o \in Outcomes, End(c, o),
           UNCHANGED blobs, staging' \in {staging, Cut(staging, c)}
    PROVE  StoreInv'
<1>1. PICK s \in CallStates : call' = [call EXCEPT ![c] = s] /\ Progress(c)'
    BY Ended
<1> QED
    BY <1>1, BlobsKept, StagingGone, OneCall, Zenon DEF StoreInv

(* A call that only moves on, with its counters as they are. *)
LEMMA Moved ==
    ASSUME StoreInv, NEW c \in Calls, NEW p \in Phases, Goto(c, p)
    PROVE  \E s \in CallStates :
                /\ call' = [call EXCEPT ![c] = s] /\ call'[c] = s /\ s.pc = p
                /\ s.body = call[c].body /\ s.decoded = call[c].decoded /\ s.outcome = call[c].outcome
<1> DEFINE s == [call[c] EXCEPT !.pc = p]
<1>1. /\ s \in CallStates /\ s.pc = p
      /\ s.body = call[c].body /\ s.decoded = call[c].decoded /\ s.outcome = call[c].outcome
    BY Zenon DEF StoreInv, CallStates
<1>2. call' = [call EXCEPT ![c] = s]
    BY Zenon DEF StoreInv, Goto
<1> HIDE DEF s
<1> QED
    BY <1>1, <1>2, Updated, Zenon

LEMMA GotoStep ==
    ASSUME StoreInv, NEW c \in Calls, NEW p \in Phases, Goto(c, p), UNCHANGED <<staging, blobs>>,
           Progress(c)'
    PROVE  StoreInv'
<1>1. PICK s \in CallStates : call' = [call EXCEPT ![c] = s]
    BY Moved
<1>2. StagingInv
    BY DEF StoreInv
<1> QED
    BY <1>1, <1>2, BlobsKept, StagingGone, OneCall, Zenon

(* The steps before the staging file exists. *)
LEMMA ReadSteps ==
    ASSUME StoreInv, NEW c \in Calls,
           CheckHead(c) \/ FirstRead(c) \/ \E b \in Bodies : Arrive(c, b)
    PROVE  StoreInv'
<1>0. /\ UNCHANGED staging /\ UNCHANGED blobs
      /\ StagingInv /\ call[c] \in CallStates /\ Progress(c)
    BY Zenon DEF StoreInv, CheckHead, FirstRead, Arrive
<1>1. ASSUME NEW b \in Bodies, Arrive(c, b) PROVE StoreInv'
    <2> DEFINE s == [call[c] EXCEPT !.pc = "head", !.body = b]
    <2>1. s \in CallStates /\ s.pc = "head" /\ s.outcome = call[c].outcome
        BY <1>0, Zenon DEF CallStates, Phases
    <2>2. call' = [call EXCEPT ![c] = s] /\ call[c].pc = "idle"
        BY <1>1, Zenon DEF StoreInv, Arrive
    <2> HIDE DEF s
    <2>3. Progress(c)'
        BY <1>0, <2>1, <2>2, Updated DEF Progress
    <2> QED
        BY <1>0, <2>1, <2>2, <2>3, BlobsKept, StagingGone, OneCall, Zenon
<1>2. CASE CheckHead(c)
    <2>1. CASE Goto(c, "first")
        <3>0. call[c].pc = "head"
            BY <1>2 DEF CheckHead
        <3>1. "first" \in Phases
            BY DEF Phases
        <3>2. call'[c].pc = "first" /\ call'[c].outcome = "none"
            <4>1. call[c].outcome = "none"
                BY ONLY <1>0, <3>0 DEF Progress
            <4>2. PICK s \in CallStates : call'[c] = s /\ s.pc = "first" /\ s.outcome = call[c].outcome
                BY <2>1, <3>1, Moved
            <4> QED
                BY ONLY <4>1, <4>2
        <3>3. Progress(c)'
            BY ONLY <3>2 DEF Progress
        <3> QED
            BY <1>0, <2>1, <3>1, <3>3, GotoStep, Zenon
    <2>2. CASE \E o \in {"DeclaredBodyTooLarge", "UnsupportedEncoding"} : End(c, o)
        BY <1>0, <2>2, EndStep DEF Outcomes
    <2> QED
        BY <1>2, <2>1, <2>2, Zenon DEF CheckHead
<1>3. CASE FirstRead(c)
    <2>1. CASE \E o \in {"MalformedEncoding", "TimeoutReadIdle", "WireBodyTooLarge", "DecodedBodyTooLarge"} : End(c, o)
        BY <1>0, <2>1, EndStep DEF Outcomes
    <2>2. ASSUME NEW r \in Reads(c), ~ OverWire(c, r), ~ (r.plain > MaxDecoded),
                 call' = [call EXCEPT ![c].pc = "create", ![c].wire = @ + r.wire, ![c].decoded = r.plain]
          PROVE  StoreInv'
        <3>1. call[c].wire + r.wire \in 0 .. MaxWire /\ r.plain \in 0 .. MaxDecoded
            BY <1>0, <2>2, StoreAssumption DEF Reads, OverWire, CallStates
        <3> DEFINE s == [call[c] EXCEPT !.pc = "create", !.wire = @ + r.wire, !.decoded = r.plain]
        <3>2. s \in CallStates /\ s.pc = "create" /\ s.outcome = call[c].outcome
            BY <1>0, <3>1, Zenon DEF CallStates, Phases
        <3>3. call' = [call EXCEPT ![c] = s]
            BY <2>2, Zenon DEF StoreInv
        <3>4. call[c].pc = "first"
            BY <1>3, Zenon DEF FirstRead
        <3> HIDE DEF s
        <3>5. Progress(c)'
            BY <1>0, <3>2, <3>3, <3>4, Updated DEF Progress
        <3> QED
            BY <1>0, <3>2, <3>3, <3>5, BlobsKept, StagingGone, OneCall, Zenon
    <2> QED
        BY <1>3, <2>1, <2>2, Zenon DEF FirstRead
<1> QED
    BY <1>1, <1>2, <1>3

(* A finished call links its staging file where nothing was. *)
LEMMA Linked ==
    ASSUME StoreInv, NEW c \in Calls, call[c].pc = "link",
           blobs' = Put(blobs, Digest(c), [body |-> call[c].body, bytes |-> staging[c]])
    PROVE  /\ BlobsInv' /\ DOMAIN blobs \subseteq DOMAIN blobs' /\ Digest(c) \in DOMAIN blobs'
           /\ [body |-> call[c].body, bytes |-> staging[c]] = Digest(c)
<1>1. /\ call[c].body \in Bodies /\ call[c].decoded \in 0 .. MaxDecoded
      /\ staging[c] = call[c].decoded /\ call[c].decoded = PlainSize[call[c].body]
      /\ MemberWire[call[c].body] <= MaxWire
    BY ZenonT(30) DEF StoreInv, CallStates, Progress
<1>2. /\ Digest(c) \in Prefixes /\ Digest(c) = Whole(Digest(c).body)
      /\ MemberWire[Digest(c).body] <= MaxWire /\ PlainSize[Digest(c).body] <= MaxDecoded
      /\ [body |-> call[c].body, bytes |-> staging[c]] = Digest(c)
    <2>1. Digest(c) = [body |-> call[c].body, bytes |-> call[c].decoded]
        BY Zenon DEF Digest
    <2>2. Digest(c).body = call[c].body
        BY ONLY <2>1
    <2>3. Digest(c) \in Prefixes
        BY ONLY <1>1, <2>1 DEF Prefixes
    <2>4. PlainSize[call[c].body] <= MaxDecoded
        BY ONLY <1>1, StoreAssumption DEF StoreAssumption
    <2> QED
        BY <1>1, <2>1, <2>2, <2>3, <2>4, Zenon DEF Whole
<1>3. DOMAIN blobs' = DOMAIN blobs \cup {Digest(c)}
    BY DEF Put
<1>4. \A d \in DOMAIN blobs' : blobs'[d] = IF d = Digest(c) THEN Digest(c) ELSE blobs[d]
    BY <1>2 DEF Put
<1> QED
    BY <1>2, <1>3, <1>4, ZenonT(30) DEF StoreInv, BlobsInv

(* The steps on the staging file. *)
LEMMA WriteSteps ==
    ASSUME StoreInv, NEW c \in Calls, Create(c) \/ Copy(c) \/ Sync(c)
    PROVE  StoreInv'
<1>0. UNCHANGED blobs /\ StagingInv /\ call[c] \in CallStates /\ Progress(c)
    BY Zenon DEF StoreInv, Create, Copy, Sync
<1>1. CASE Create(c)
    <2>1. CASE staging' = Put(staging, c, call[c].decoded) /\ Goto(c, "copy")
        <3>1. call[c].decoded \in 0 .. MaxDecoded /\ call[c].pc = "create"
            BY <1>0, <1>1, Zenon DEF CallStates, Create
        <3>2. PICK s \in CallStates :
                  /\ call' = [call EXCEPT ![c] = s] /\ call'[c] = s /\ s.pc = "copy"
                  /\ s.decoded = call[c].decoded /\ s.outcome = call[c].outcome
            BY <2>1, Moved DEF Phases
        <3>3. Progress(c)'
            BY <1>0, <2>1, <3>1, <3>2, StagingWritten, Zenon DEF Progress
        <3> QED
            BY <1>0, <2>1, <3>1, <3>2, <3>3, BlobsKept, StagingWritten, OneCall, Zenon
    <2>2. CASE End(c, "Artifact") /\ UNCHANGED staging
        BY <1>0, <2>2, EndStep DEF Outcomes
    <2> QED
        BY <1>1, <2>1, <2>2, Zenon DEF Create
<1>2. CASE Copy(c)
    <2>0. call[c].pc = "copy"
        BY <1>2, Zenon DEF Copy
    <2>1. CASE /\ \E o \in {"MalformedEncoding", "TimeoutReadIdle", "WireBodyTooLarge", "DecodedBodyTooLarge"} : End(c, o)
               /\ Discard(c)
        BY <1>0, <2>1, EndStep DEF Outcomes, Discard
    <2>2. CASE End(c, "Artifact") /\ staging' \in {staging, Cut(staging, c)}
        BY <1>0, <2>2, EndStep DEF Outcomes
    <2>3. ASSUME NEW r \in Reads(c), ~ OverWire(c, r), r.plain = 0, Goto(c, "sync"), UNCHANGED staging
          PROVE  StoreInv'
        <3>1. call[c].decoded = PlainSize[call[c].body] /\ MemberWire[call[c].body] <= MaxWire
            BY <1>0, <2>3, StoreAssumption, SMTT(30) DEF Reads, OverWire, CallStates
        <3>2. Progress(c)'
            <4>1. PICK s \in CallStates :
                      /\ call'[c] = s /\ s.pc = "sync" /\ s.body = call[c].body
                      /\ s.decoded = call[c].decoded /\ s.outcome = call[c].outcome
                BY <2>3, Moved DEF Phases
            <4> QED
                BY <1>0, <2>0, <2>3, <3>1, <4>1 DEF Progress
        <3> QED
            BY <1>0, <2>3, <3>2, GotoStep, ZenonT(30) DEF Phases
    <2>4. ASSUME NEW r \in Reads(c), ~ OverWire(c, r), ~ (call[c].decoded + r.plain > MaxDecoded),
                 staging' = [staging EXCEPT ![c] = @ + r.plain],
                 call' = [call EXCEPT ![c].wire = @ + r.wire, ![c].decoded = @ + r.plain]
          PROVE  StoreInv'
        <3>1. call[c].wire + r.wire \in 0 .. MaxWire /\ call[c].decoded + r.plain \in 0 .. MaxDecoded
            BY <1>0, <2>4, StoreAssumption DEF Reads, OverWire, CallStates
        <3> DEFINE s == [call[c] EXCEPT !.wire = @ + r.wire, !.decoded = @ + r.plain]
        <3>2. /\ s \in CallStates /\ s.pc = "copy" /\ s.outcome = call[c].outcome
              /\ s.decoded = call[c].decoded + r.plain
            BY <1>0, <2>0, <3>1, Zenon DEF CallStates
        <3>3. call' = [call EXCEPT ![c] = s]
            BY <2>4, Zenon DEF StoreInv
        <3>4. c \in DOMAIN staging /\ staging' = [staging EXCEPT ![c] = call[c].decoded + r.plain]
            BY <1>0, <2>0, <2>4, Zenon DEF Progress
        <3> HIDE DEF s
        <3>5. Progress(c)'
            BY <1>0, <2>0, <3>1, <3>2, <3>3, <3>4, Updated, StagingWritten, Zenon DEF Progress
        <3> QED
            BY <1>0, <3>1, <3>2, <3>3, <3>4, <3>5, BlobsKept, StagingWritten, OneCall, Zenon
    <2> QED
        BY <1>2, <2>1, <2>2, <2>3, <2>4, Zenon DEF Copy
<1>3. CASE Sync(c)
    <2>0. call[c].pc = "sync" /\ UNCHANGED staging
        BY <1>3, ZenonT(30) DEF Sync
    <2>1. CASE Goto(c, "link")
        <3>1. Progress(c)'
            <4>1. PICK s \in CallStates :
                      /\ call'[c] = s /\ s.pc = "link" /\ s.body = call[c].body
                      /\ s.decoded = call[c].decoded /\ s.outcome = call[c].outcome
                BY <2>1, Moved DEF Phases
            <4> QED
                BY <1>0, <2>0, <4>1 DEF Progress
        <3> QED
            BY <1>0, <2>0, <2>1, <3>1, GotoStep DEF Phases
    <2>2. CASE End(c, "Artifact")
        BY <1>0, <2>0, <2>2, EndStep DEF Outcomes
    <2> QED
        BY <1>3, <2>1, <2>2, Zenon DEF Sync
<1> QED
    BY <1>1, <1>2, <1>3

(* What a comparison says of the file it read. *)
LEMMA ComparedFacts ==
    ASSUME NEW c \in Calls, Compare(c)
    PROVE  \E o \in {"Fresh", "Artifact"} :
                Verified(c, o) /\ (o = "Fresh" => Digest(c) \in DOMAIN blobs /\ blobs[Digest(c)] = Digest(c))
<1>1. CASE Digest(c) \in DOMAIN blobs /\ blobs[Digest(c)] = Digest(c)
    BY <1>1, Zenon DEF Compare
<1>2. CASE ~ (Digest(c) \in DOMAIN blobs /\ blobs[Digest(c)] = Digest(c))
    <2>1. Verified(c, "Artifact")
        BY <1>2, Zenon DEF Compare
    <2> QED
        BY <2>1
<1> QED
    BY <1>1, <1>2

(* The steps that publish. *)
LEMMA PublishSteps ==
    ASSUME StoreInv, NEW c \in Calls, Link(c) \/ Unlink(c) \/ Compare(c) \/ Remove(c)
    PROVE  StoreInv'
<1>1. CASE Link(c)
    <2>0. call[c].pc = "link" /\ Progress(c) /\ call[c] \in CallStates /\ StagingInv
        BY <1>1, Zenon DEF Link, StoreInv
    <2>1. CASE /\ blobs' = Put(blobs, Digest(c), [body |-> call[c].body, bytes |-> staging[c]])
               /\ Goto(c, "unlink") /\ UNCHANGED staging
        <3>1. PICK s \in CallStates :
                  /\ call' = [call EXCEPT ![c] = s] /\ call'[c] = s /\ s.pc = "unlink" /\ s.body = call[c].body
                  /\ s.decoded = call[c].decoded /\ s.outcome = call[c].outcome
            BY <2>1, Moved DEF Phases
        <3>2. Digest(c)' = Digest(c)
            BY <3>1, ZenonT(30) DEF Digest
        <3>3. Progress(c)'
            BY <2>0, <2>1, <3>1, <3>2, Linked DEF Progress
        <3> QED
            BY <2>0, <2>1, <3>1, <3>3, StagingGone, Linked, OneCall, Zenon
    <2>2. CASE Goto(c, "compare") /\ UNCHANGED <<staging, blobs>>
        <3>1. Progress(c)'
            <4>1. PICK s \in CallStates :
                      /\ call'[c] = s /\ s.pc = "compare" /\ s.body = call[c].body
                      /\ s.decoded = call[c].decoded /\ s.outcome = call[c].outcome
                BY <2>2, Moved DEF Phases
            <4> QED
                BY <2>0, <2>2, <4>1, ZenonT(30) DEF Progress
        <3> QED
            BY <2>2, <3>1, GotoStep, ZenonT(30) DEF Phases
    <2>3. CASE End(c, "Artifact") /\ staging' \in {staging, Cut(staging, c)} /\ UNCHANGED blobs
        BY <2>3, EndStep DEF Outcomes
    <2> QED
        BY <1>1, <2>1, <2>2, <2>3, Zenon DEF Link
<1>2. CASE Unlink(c)
    <2>1. \E o \in {"Fresh", "Artifact"} : End(c, o)
        BY <1>2 DEF Unlink
    <2>2. staging' \in {staging, Cut(staging, c)} /\ UNCHANGED blobs
        BY <1>2, Zenon DEF Unlink
    <2> QED
        BY <2>1, <2>2, EndStep DEF Outcomes
<1>3. CASE Compare(c)
    <2>0. StagingInv /\ UNCHANGED <<staging, blobs>> /\ call[c] \in CallStates
        BY <1>3, Zenon DEF Compare, StoreInv
    <2>1. PICK o \in {"Fresh", "Artifact"} : Verified(c, o) /\ (o = "Fresh" => Digest(c) \in DOMAIN blobs)
        BY <1>3, ComparedFacts, Zenon
    <2> DEFINE s == [call[c] EXCEPT !.pc = "discard", !.outcome = o]
    <2>2. /\ s \in CallStates /\ s.pc = "discard" /\ s.outcome = o
          /\ s.body = call[c].body /\ s.decoded = call[c].decoded
        BY <2>0, Zenon DEF CallStates, Phases, Outcomes
    <2>3. call' = [call EXCEPT ![c] = s]
        BY <2>1, Zenon DEF StoreInv, Verified
    <2> HIDE DEF s
    <2>4. call'[c] = s
        BY <2>2, <2>3, Updated
    <2>5. Digest(c)' = Digest(c)
        BY <2>2, <2>4, ZenonT(30) DEF Digest
    <2>6. Progress(c)'
        BY <2>0, <2>1, <2>2, <2>4, <2>5 DEF Progress
    <2> QED
        BY <2>0, <2>2, <2>3, <2>6, BlobsKept, StagingGone, OneCall, Zenon
<1>4. CASE Remove(c)
    <2>0. /\ StagingInv /\ UNCHANGED blobs /\ Goto(c, "done")
          /\ staging' \in {staging, Cut(staging, c)}
        BY <1>4, Zenon DEF Remove, Discard, StoreInv
    <2>1. PICK s \in CallStates : call' = [call EXCEPT ![c] = s] /\ call'[c] = s /\ s.pc = "done"
        BY <2>0, Moved DEF Phases
    <2>2. Progress(c)'
        BY <2>1 DEF Progress
    <2> QED
        BY <2>0, <2>1, <2>2, BlobsKept, StagingGone, OneCall, Zenon
<1> QED
    BY <1>1, <1>2, <1>3, <1>4, Zenon

(* A dropped call, with the file operation that was under way. *)
LEMMA CancelStep ==
    ASSUME StoreInv, NEW c \in Calls, Cancel(c)
    PROVE  StoreInv'
<1>0. End(c, "Cancelled") /\ StagingInv
    BY Zenon DEF Cancel, StoreInv
<1>1. PICK s \in CallStates : call' = [call EXCEPT ![c] = s] /\ Progress(c)'
    BY <1>0, Ended DEF Outcomes
<1>3. CASE staging' \in {staging, Cut(staging, c)} /\ UNCHANGED blobs
    BY <1>0, <1>3, EndStep DEF Outcomes
<1>4. CASE staging' = Put(staging, c, 0) /\ UNCHANGED blobs
    <2>1. 0 \in 0 .. MaxDecoded
        BY StoreAssumption
    <2> QED
        BY <1>0, <1>1, <1>4, <2>1, BlobsKept, StagingWritten, OneCall, Zenon
<1>5. CASE /\ call[c].pc = "link" /\ UNCHANGED staging
           /\ blobs' = Put(blobs, Digest(c), [body |-> call[c].body, bytes |-> staging[c]])
    BY <1>0, <1>1, <1>5, StagingGone, Linked, OneCall, Zenon
<1> QED
    BY <1>3, <1>4, <1>5, Zenon DEF Cancel

(* A crash, and a fault of the medium. *)
LEMMA AccidentSteps ==
    ASSUME StoreInv, Restart \/ \E d \in DOMAIN blobs : Damage(d)
    PROVE  StoreInv'
<1>1. CASE Restart
    <2>1. ASSUME NEW c \in Calls
          PROVE  /\ call'[c] \in CallStates /\ call'[c].pc \in {"idle", "done"}
                 /\ call'[c].pc = "idle" => call'[c].outcome = "none"
        <3>1. call[c] \in CallStates /\ Progress(c)
            BY DEF StoreInv
        <3>2. call'[c] = IF call[c].pc \in {"idle", "done"} THEN call[c]
                         ELSE [call[c] EXCEPT !.pc = "done", !.outcome = "Crashed"]
            BY <1>1, Zenon DEF Restart
        <3>3. [call[c] EXCEPT !.pc = "done", !.outcome = "Crashed"] \in CallStates
            BY <3>1, Zenon DEF CallStates, Phases, Outcomes
        <3>4. [call[c] EXCEPT !.pc = "done", !.outcome = "Crashed"].pc = "done"
            BY <3>1, Zenon DEF CallStates
        <3> QED
            BY <3>1, <3>2, <3>3, <3>4 DEF Progress
    <2>2. \A c \in Calls : Progress(c)'
        BY <2>1 DEF Progress
    <2>5. call' \in [Calls -> CallStates]
        BY <1>1, <2>1, Zenon DEF Restart
    <2>6. staging' = << >>
        BY <1>1, Zenon DEF Restart
    <2>3. StagingInv'
        BY <2>6 DEF StagingInv
    <2>4. BlobsInv'
        BY <1>1, Zenon DEF Restart, StoreInv, BlobsInv
    <2> QED
        BY <2>2, <2>3, <2>4, <2>5 DEF StoreInv
<1>2. ASSUME NEW d \in DOMAIN blobs, Damage(d) PROVE StoreInv'
    <2>1. UNCHANGED <<call, staging>> /\ DOMAIN blobs' = DOMAIN blobs
        BY <1>2 DEF Damage
    <2>2. blobs[d] \in Prefixes
        BY DEF StoreInv, BlobsInv
    <2>3. [blobs[d] EXCEPT !.bytes = @ - 1] \in Prefixes
        BY <1>2, <2>2, StoreAssumption DEF Damage, Prefixes
    <2>4. \A e \in DOMAIN blobs : blobs'[e] \in Prefixes
        BY <1>2, <2>3 DEF Damage, StoreInv, BlobsInv
    <2>5. BlobsInv'
        BY <2>1, <2>4, Zenon DEF StoreInv, BlobsInv
    <2>6. StagingInv' /\ \A c \in Calls : Progress(c)'
        BY <2>1 DEF StoreInv, StagingInv, Progress, Digest
    <2> QED
        BY <2>1, <2>5, <2>6 DEF StoreInv
<1> QED
    BY <1>1, <1>2

(* The invariant is inductive. *)
LEMMA StoreInvInductive ==
    (StoreInit => StoreInv) /\ (StoreInv /\ [StoreNext]_storeVars => StoreInv')
<1>1. ASSUME StoreInit PROVE StoreInv
    <2>1. call \in [Calls -> CallStates] /\ \A c \in Calls : call[c].pc = "idle" /\ call[c].outcome = "none"
        BY <1>1, StoreAssumption DEF StoreInit, CallStates, Phases, Outcomes
    <2>2. StagingInv /\ BlobsInv
        BY <1>1 DEF StoreInit, StagingInv, BlobsInv
    <2> QED
        BY <2>1, <2>2 DEF StoreInv, Progress
<1>2. ASSUME StoreInv, [StoreNext]_storeVars PROVE StoreInv'
    <2>1. CASE UNCHANGED storeVars
        BY <1>2, <2>1 DEF storeVars, StoreInv, StagingInv, BlobsInv, Progress, Digest
    <2>2. CASE StoreNext
        BY <1>2, <2>2, ReadSteps, WriteSteps, PublishSteps, CancelStep, AccidentSteps DEF StoreNext
    <2> QED
        BY <1>2, <2>1, <2>2, ZenonT(30)
<1> QED
    BY <1>1, <1>2

(* Whatever is published is the whole first member of a body, which fits   *)
(* both byte limits, by whatever reads it arrived, however its stream      *)
(* failed and wherever its call was dropped (store_response over           *)
(* BlobStore::store).                                                      *)
THEOREM OnlyFirstMembersArePublished == StoreSpec => []PublishedIsFirstMember
<1>1. StoreInv => PublishedIsFirstMember
    BY DEF StoreInv, StagingInv, BlobsInv, CallStates, PublishedIsFirstMember, StoreTypeOK
<1> QED
    BY <1>1, StoreInvInductive, PTL DEF StoreSpec

(* A file appears at a digest path with the bytes of that digest, and no   *)
(* call changes it after (BlobStore::store: link, never overwrite).        *)
THEOREM BlobsNeverChange == StoreSpec => BlobsAreImmutable
<1>1. ASSUME StoreInv, [StoreNext]_storeVars
      PROVE  [\A d \in DOMAIN blobs' :
                \/ d \notin DOMAIN blobs /\ blobs'[d] = d
                \/ d \in DOMAIN blobs /\ blobs'[d] = blobs[d]
                \/ Damage(d)]_storeVars
    <2>1. CASE UNCHANGED blobs
        BY <2>1
    <2>2. ASSUME NEW e \in DOMAIN blobs, Damage(e) PROVE
                \A d \in DOMAIN blobs' : d \in DOMAIN blobs /\ (blobs'[d] = blobs[d] \/ Damage(d))
        BY <2>2, Zenon DEF Damage
    <2>3. ASSUME NEW c \in Calls, call[c].pc = "link", Digest(c) \notin DOMAIN blobs,
                 blobs' = Put(blobs, Digest(c), [body |-> call[c].body, bytes |-> staging[c]])
          PROVE  \A d \in DOMAIN blobs' : (d \notin DOMAIN blobs /\ blobs'[d] = d) \/ (d \in DOMAIN blobs /\ blobs'[d] = blobs[d])
        <3>1. [body |-> call[c].body, bytes |-> staging[c]] = Digest(c)
            BY <1>1, <2>3 DEF StoreInv, Progress, Digest
        <3> QED
            BY <2>3, <3>1, ZenonT(30) DEF Put
    <2>4. ASSUME NEW c \in Calls, UNCHANGED blobs \/ Link(c) \/ Cancel(c)
          PROVE  UNCHANGED blobs \/ (/\ call[c].pc = "link" /\ Digest(c) \notin DOMAIN blobs
                                     /\ blobs' = Put(blobs, Digest(c), [body |-> call[c].body, bytes |-> staging[c]]))
        BY <2>4, Zenon DEF Link, Cancel
    <2>5. ASSUME NEW c \in Calls,
                 \/ \E b \in Bodies : Arrive(c, b)
                 \/ CheckHead(c) \/ FirstRead(c) \/ Create(c) \/ Copy(c) \/ Sync(c) \/ Link(c)
                 \/ Unlink(c) \/ Compare(c) \/ Remove(c) \/ Cancel(c)
          PROVE  UNCHANGED blobs \/ Link(c) \/ Cancel(c)
        BY <2>5, Zenon DEF Arrive, CheckHead, FirstRead, Create, Copy, Sync, Unlink, Compare, Remove
    <2>6. CASE Restart
        BY <2>1, <2>6, Zenon DEF Restart
    <2>7. CASE \E e \in DOMAIN blobs : Damage(e)
        BY <2>2, <2>7, Zenon
    <2>8. CASE \E c \in Calls : UNCHANGED blobs \/ Link(c) \/ Cancel(c)
        BY <2>1, <2>3, <2>4, <2>8, Zenon
    <2> QED
        BY <1>1, <2>1, <2>5, <2>6, <2>7, <2>8, Zenon DEF storeVars, StoreNext
<1> QED
    BY <1>1, StoreInvInductive, PTL DEF StoreSpec, BlobsAreImmutable

(* A step of one call leaves the local state of the others alone. *)
LEMMA OthersKept ==
    ASSUME StoreInv, NEW x \in Calls, NEW y \in Calls, x # y,
           \/ \E b \in Bodies : Arrive(x, b)
           \/ CheckHead(x) \/ FirstRead(x) \/ Create(x) \/ Copy(x) \/ Sync(x) \/ Link(x)
           \/ Unlink(x) \/ Compare(x) \/ Remove(x) \/ Cancel(x)
    PROVE  call'[y] = call[y]
<1>0. call \in [Calls -> CallStates]
    BY DEF StoreInv
<1>2. ASSUME NEW o, End(x, o) \/ Verified(x, o) \/ Goto(x, o) PROVE call'[y] = call[y]
    BY <1>0, <1>2, Zenon DEF End, Verified, Goto
<1>3. ASSUME NEW b \in Bodies, Arrive(x, b) PROVE call'[y] = call[y]
    BY <1>0, <1>3, Zenon DEF Arrive
<1>4. CASE FirstRead(x)
    BY <1>0, <1>2, <1>4, Zenon DEF FirstRead
<1>5. CASE Copy(x)
    BY <1>0, <1>2, <1>5, Zenon DEF Copy
<1>6. CASE CheckHead(x) \/ Create(x) \/ Sync(x) \/ Link(x)
    BY <1>2, <1>6, Zenon DEF CheckHead, Create, Sync, Link
<1>7. CASE Unlink(x) \/ Compare(x) \/ Remove(x) \/ Cancel(x)
    BY <1>2, <1>7, Zenon DEF Unlink, Compare, Remove, Cancel
<1> QED
    BY <1>3, <1>4, <1>5, <1>6, <1>7, Zenon

(* Before it links or compares, a call can only fail or move on. *)
LEMMA EarlySteps ==
    ASSUME StoreInv, NEW c \in Calls,
           \/ \E b \in Bodies : Arrive(c, b)
           \/ CheckHead(c) \/ FirstRead(c) \/ Create(c) \/ Copy(c) \/ Sync(c) \/ Cancel(c)
    PROVE  \/ call'[c].pc = "done" /\ call'[c].outcome # "Fresh"
           \/ call'[c].pc \notin {"unlink", "done"} /\ call'[c].outcome = call[c].outcome
<1>0. call \in [Calls -> CallStates] /\ call[c] \in CallStates
    BY DEF StoreInv
<1>1. ASSUME NEW o \in Outcomes \ {"Fresh"}, End(c, o) PROVE call'[c].pc = "done" /\ call'[c].outcome # "Fresh"
    BY <1>1, Ended, Updated
<1>2. ASSUME NEW p \in Phases \ {"unlink", "done"}, Goto(c, p)
      PROVE  call'[c].pc \notin {"unlink", "done"} /\ call'[c].outcome = call[c].outcome
    BY <1>2, Moved
<1>3. ASSUME NEW b \in Bodies, Arrive(c, b)
      PROVE  call'[c].pc \notin {"unlink", "done"} /\ call'[c].outcome = call[c].outcome
    BY <1>0, <1>3 DEF Arrive, CallStates
<1>4. CASE CheckHead(c) \/ Create(c) \/ Sync(c) \/ Cancel(c)
    <2>1. \/ \E o \in Outcomes \ {"Fresh"} : End(c, o)
          \/ \E p \in Phases \ {"unlink", "done"} : Goto(c, p)
        BY <1>4, Zenon DEF CheckHead, Create, Sync, Cancel, Outcomes, Phases
    <2> QED
        BY <1>1, <1>2, <2>1, Zenon
<1>5. CASE FirstRead(c)
    <2>1. ASSUME NEW n \in 0 .. MaxChunk, NEW m \in 0 .. MaxChunk,
                 call' = [call EXCEPT ![c].pc = "create", ![c].wire = @ + n, ![c].decoded = m]
          PROVE  call'[c].pc \notin {"unlink", "done"} /\ call'[c].outcome = call[c].outcome
        BY <1>0, <2>1 DEF CallStates
    <2> QED
        BY <1>1, <1>5, <2>1, Zenon DEF FirstRead, Reads, Outcomes
<1>6. CASE Copy(c)
    <2>0. call[c].pc = "copy"
        BY <1>6, Zenon DEF Copy
    <2>1. ASSUME NEW n \in 0 .. MaxChunk, NEW m \in 0 .. MaxChunk,
                 call' = [call EXCEPT ![c].wire = @ + n, ![c].decoded = @ + m]
          PROVE  call'[c].pc \notin {"unlink", "done"} /\ call'[c].outcome = call[c].outcome
        BY <1>0, <2>0, <2>1 DEF CallStates
    <2> QED
        BY <1>1, <1>2, <1>6, <2>1, Zenon DEF Copy, Reads, Outcomes, Phases
<1> QED
    BY <1>3, <1>4, <1>5, <1>6, Zenon

(* A call returns a reference only after its digest path held its bytes,   *)
(* which it linked itself or read again (verify_file), and the path exists *)
(* when it returns.                                                        *)
THEOREM ReferencesAlwaysResolve == StoreSpec => ReferencesResolve
<1> DEFINE Resolves(c) ==
        /\ call[c].pc = "link" /\ call'[c].pc = "unlink" => blobs'[Digest(c)] = Digest(c)
        /\ call[c].pc = "compare" /\ call'[c].outcome = "Fresh" =>
            Digest(c) \in DOMAIN blobs /\ blobs[Digest(c)] = Digest(c)
        /\ call[c].pc # "done" /\ call'[c].pc = "done" /\ call'[c].outcome = "Fresh" =>
            /\ call[c].pc = "unlink" \/ (call[c].pc = "discard" /\ call[c].outcome = "Fresh")
            /\ Digest(c) \in DOMAIN blobs
<1>1. ASSUME StoreInv, StoreNext, NEW c \in Calls PROVE Resolves(c)
    <2>0. call \in [Calls -> CallStates] /\ call[c] \in CallStates /\ Progress(c)
        BY <1>1, Zenon DEF StoreInv
    <2>1. CASE call'[c] = call[c]
        BY <2>0, <2>1 DEF Progress
    <2>2. CASE call'[c].pc = "done" /\ call'[c].outcome # "Fresh"
        BY <2>2
    <2>3. CASE call'[c].pc \notin {"unlink", "done"} /\ call'[c].outcome = call[c].outcome
        BY <2>0, <2>3 DEF Progress
    <2>4. CASE Restart
        <3>1. call'[c] = IF call[c].pc \in {"idle", "done"} THEN call[c]
                         ELSE [call[c] EXCEPT !.pc = "done", !.outcome = "Crashed"]
            BY <2>4, Zenon DEF Restart
        <3>2. /\ [call[c] EXCEPT !.pc = "done", !.outcome = "Crashed"].pc = "done"
              /\ [call[c] EXCEPT !.pc = "done", !.outcome = "Crashed"].outcome = "Crashed"
            BY <2>0, Zenon DEF CallStates
        <3>3. call'[c] = call[c] \/ (call'[c].pc = "done" /\ call'[c].outcome # "Fresh")
            BY <3>1, <3>2
        <3> QED
            BY <2>1, <2>2, <3>3, Zenon
    <2>5. ASSUME NEW d, Damage(d) PROVE Resolves(c)
        BY <2>1, <2>5, Zenon DEF Damage
    <2>6. CASE Link(c)
        <3>1. call[c].pc = "link"
            BY <2>6, Zenon DEF Link
        <3>2. CASE /\ blobs' = Put(blobs, Digest(c), [body |-> call[c].body, bytes |-> staging[c]])
                   /\ Goto(c, "unlink")
            <4>1. call'[c].pc = "unlink"
                BY <1>1, <3>2, Moved DEF Phases
            <4>2. blobs'[Digest(c)] = Digest(c)
                BY <1>1, <3>1, <3>2, Linked, Zenon DEF Put
            <4> QED
                BY <3>1, <4>1, <4>2
        <3>3. CASE Goto(c, "compare")
            <4>1. call'[c].pc = "compare" /\ call'[c].outcome = call[c].outcome
                BY <1>1, <3>3, Moved DEF Phases
            <4> QED
                BY <2>3, <4>1
        <3>4. CASE End(c, "Artifact")
            <4>1. call'[c].pc = "done" /\ call'[c].outcome = "Artifact"
                BY <1>1, <3>4, Ended, Updated DEF Outcomes
            <4> QED
                BY <2>2, <4>1
        <3> QED
            BY <2>6, <3>2, <3>3, <3>4, Zenon DEF Link
    <2>7. CASE Unlink(c)
        <3>1. call[c].pc = "unlink" /\ Digest(c) \in DOMAIN blobs
            BY <2>0, <2>7, Zenon DEF Unlink, Progress
        <3> QED
            BY <3>1
    <2>8. CASE Compare(c)
        <3>1. call[c].pc = "compare"
            BY <2>8, Zenon DEF Compare
        <3>2. PICK o \in {"Fresh", "Artifact"} :
                  Verified(c, o) /\ (o = "Fresh" => Digest(c) \in DOMAIN blobs /\ blobs[Digest(c)] = Digest(c))
            BY <2>8, ComparedFacts
        <3>3. call'[c].pc = "discard" /\ call'[c].outcome = o
            BY <2>0, <3>2, Zenon DEF Verified, CallStates
        <3> QED
            BY <3>1, <3>2, <3>3
    <2>9. CASE Remove(c)
        <3>1. call[c].pc = "discard" /\ Goto(c, "done")
            BY <2>9, Zenon DEF Remove
        <3>2. call'[c].outcome = call[c].outcome
            BY <1>1, <3>1, Moved DEF Phases
        <3> QED
            BY <2>0, <3>1, <3>2 DEF Progress
    <2>10. CASE \/ \E b \in Bodies : Arrive(c, b)
                \/ CheckHead(c) \/ FirstRead(c) \/ Create(c) \/ Copy(c) \/ Sync(c) \/ Cancel(c)
        <3>1. \/ call'[c].pc = "done" /\ call'[c].outcome # "Fresh"
              \/ call'[c].pc \notin {"unlink", "done"} /\ call'[c].outcome = call[c].outcome
            BY <1>1, <2>10, EarlySteps, Zenon
        <3> QED
            BY <2>2, <2>3, <3>1, Zenon
    <2> HIDE DEF Resolves
    <2>11. ASSUME NEW x \in Calls,
                  \/ \E b \in Bodies : Arrive(x, b)
                  \/ CheckHead(x) \/ FirstRead(x) \/ Create(x) \/ Copy(x) \/ Sync(x) \/ Link(x)
                  \/ Unlink(x) \/ Compare(x) \/ Remove(x) \/ Cancel(x)
           PROVE  Resolves(c)
        <3>1. CASE x # c
            BY <1>1, <2>1, <2>11, <3>1, OthersKept, Zenon
        <3>2. CASE x = c
            BY <2>6, <2>7, <2>8, <2>9, <2>10, <2>11, <3>2, Zenon
        <3> QED
            BY <3>1, <3>2
    <2> QED
        BY <1>1, <2>4, <2>5, <2>11, Zenon DEF StoreNext
<1>2. ASSUME StoreInv, [StoreNext]_storeVars PROVE [\A c \in Calls : Resolves(c)]_storeVars
    <2> HIDE DEF Resolves
    <2> QED
        BY <1>1, <1>2
<1> QED
    BY <1>2, StoreInvInductive, PTL DEF StoreSpec, ReferencesResolve

-----------------------------------------------------------------------------
(* OutboxRelay: the marks of the outbox are true, and the relays implement *)
(* Delivery, for any number of rows, relays and faults, and any batch      *)
(* size.                                                                   *)

(* What an outcome in a relay's hands says of its row, whoever else has    *)
(* claimed, attempted or marked the row since (Attempt writes it before    *)
(* the statement that records it).                                         *)
OutcomeIsTrue(p) ==
    /\ pc[p] = "mark" => row[p] \in DOMAIN rows
    /\ pc[p] = "mark" /\ result[p] = "ok" => row[p] \in stored
    /\ pc[p] = "mark" /\ result[p] = "permanent" => row[p] \in Of("oversize")
    /\ batch[p] \subseteq DOMAIN rows

(* The inductive invariant: MarksAreTrue, with what the stream may hold,   *)
(* and with the outcomes that are not yet recorded.                        *)
OutboxInv ==
    /\ TypeOK
    /\ stored \subseteq Of("plain")
    /\ published \subseteq stored
    /\ dead \subseteq Of("oversize")
    /\ \A p \in Relays : OutcomeIsTrue(p)

USE RowsAssumption, LimitAssumption, FaultsAssumption

(* The queue without a row is a sequence of rows still (mark_transient). *)
LEMMA WithoutType ==
    ASSUME queue \in Seq(Rows), NEW r
    PROVE  Without(r) \in Seq(Rows)
<1>1. CASE ~InQueue(r)
  BY <1>1 DEF Without
<1>2. CASE InQueue(r)
  <2> DEFINE i == Position(r)
  <2>1. i \in 1 .. Len(queue)
    BY <1>2 DEF InQueue, Position
  <2>2. SubSeq(queue, 1, i - 1) \in Seq(Rows)
    BY <2>1
  <2>3. SubSeq(queue, i + 1, Len(queue)) \in Seq(Rows)
    BY <2>1
  <2>4. Without(r) = SubSeq(queue, 1, i - 1) \o SubSeq(queue, i + 1, Len(queue))
    BY <1>2, Zenon DEF Without
  <2> HIDE DEF i
  <2> QED BY <2>2, <2>3, <2>4
<1> QED BY <1>1, <1>2

(* Enqueueing changes no row that is there (enqueue_json only inserts).    *)
LEMMA RowsKeepTheirKind ==
    ASSUME TypeOK, Enqueue
    PROVE  /\ rows' \in Seq(Kinds) /\ Len(rows') <= N /\ Len(rows) + 1 \in Rows
           /\ DOMAIN rows \subseteq DOMAIN rows'
           /\ \A r \in DOMAIN rows : rows'[r] = rows[r]
<1> PICK k \in Kinds : rows' = Append(rows, k)
  BY DEF Enqueue
<1>1. Len(rows) < N /\ rows \in Seq(Kinds)
  BY DEF Enqueue, TypeOK
<1> QED BY <1>1 DEF Rows

(* Initially nothing is enqueued, and no relay holds a row (OutboxHealth). *)
LEMMA InitIInv == Init => OutboxInv
<1> SUFFICES ASSUME Init PROVE OutboxInv
  OBVIOUS
<1>1. TypeOK
  BY DEF Init, TypeOK, NoReport, Rows
<1>2. \A p \in Relays : OutcomeIsTrue(p)
  BY DEF Init, OutcomeIsTrue
<1> QED BY <1>1, <1>2 DEF Init, OutboxInv

(* A step that leaves the rows alone keeps an outcome true, if it changes  *)
(* neither the outcome nor takes a row from the stream.                    *)
LEMMA OutcomeStaysTrue ==
    ASSUME NEW p \in Relays, OutcomeIsTrue(p), stored \subseteq stored', rows' = rows,
           pc'[p] = pc[p], row'[p] = row[p], result'[p] = result[p], batch'[p] = batch[p]
    PROVE  OutcomeIsTrue(p)'
BY DEF OutcomeIsTrue, Of

(* Enqueueing, and the passing of time over a row.                         *)
LEMMA RowStep ==
    ASSUME OutboxInv, NEW r \in Rows,
           Enqueue \/ ClaimExpires(r) \/ BackoffEnds(r) \/ RowAges(r)
    PROVE  OutboxInv' /\ [Promise!Next]_(Promise!vars)
<1>1. CASE Enqueue
  <2>1. TypeOK'
    <3>1. TypeOK
      BY DEF OutboxInv
    <3>2. rows' \in Seq(Kinds) /\ Len(rows') <= N
      BY <1>1, <3>1, RowsKeepTheirKind
    <3>3. queue' \in Seq(Rows)
      <4>1. queue \in Seq(Rows)
        BY <3>1 DEF TypeOK
      <4>2. queue' = Append(queue, Len(rows) + 1)
        BY <1>1 DEF Enqueue
      <4>3. Len(rows) + 1 \in Rows
        BY <1>1, <3>1, RowsKeepTheirKind
      <4>4. \A q \in Seq(Rows), e \in Rows : Append(q, e) \in Seq(Rows)
        OBVIOUS
      <4> QED BY <4>1, <4>2, <4>3, <4>4
    <3>4. UNCHANGED <<published, dead, claim, attempts, aged, stored, pc, batch, row, result,
                      report, healthy, dependencies, faults>>
      BY <1>1 DEF Enqueue, relay
    <3> QED BY <3>1, <3>2, <3>3, <3>4 DEF TypeOK
  <2>2. \A k \in Kinds : Of(k) \subseteq Of(k)'
    BY <1>1, RowsKeepTheirKind DEF OutboxInv, Of
  <2>3. UNCHANGED <<stored, published, dead, relay>>
    BY <1>1 DEF Enqueue
  <2>4. \A p \in Relays : OutcomeIsTrue(p)'
    BY <1>1, <2>2, <2>3, RowsKeepTheirKind, Zenon DEF OutboxInv, OutcomeIsTrue, relay, Kinds
  <2>5. Promise!Accept
    BY <1>1 DEF Enqueue, Promise!Accept
  <2> QED BY <2>1, <2>2, <2>3, <2>4, <2>5 DEF OutboxInv, Kinds, Promise!Next
<1>2. CASE ClaimExpires(r) \/ BackoffEnds(r) \/ RowAges(r)
  <2>1. UNCHANGED <<rows, stored, published, dead, relay>>
    BY <1>2 DEF ClaimExpires, BackoffEnds, RowAges
  <2>2. TypeOK'
    <3>1. TypeOK
      BY DEF OutboxInv
    <3>2. claim' \in [Rows -> {"none", "live"}]
      <4>1. claim' = claim \/ claim' = [claim EXCEPT ![r] = "none"]
        BY <1>2, Zenon DEF ClaimExpires, BackoffEnds, RowAges
      <4>2. claim \in [Rows -> {"none", "live"}]
        BY <3>1, Zenon DEF TypeOK
      <4> QED BY <4>1, <4>2
    <3>3. queue' \in Seq(Rows)
      <4>1. queue' = queue \/ queue' = Append(queue, r)
        BY <1>2 DEF ClaimExpires, BackoffEnds, RowAges
      <4>2. queue \in Seq(Rows) /\ Append(queue, r) \in Seq(Rows)
        <5>1. queue \in Seq(Rows)
          BY <3>1, Zenon DEF TypeOK
        <5> QED BY <5>1
      <4> QED BY <4>1, <4>2, Zenon
    <3>4. aged' \subseteq Rows
      <4>1. aged' = aged \/ aged' = aged \cup {r}
        BY <1>2, Zenon DEF ClaimExpires, BackoffEnds, RowAges
      <4>2. aged \subseteq Rows
        BY <3>1, Zenon DEF TypeOK
      <4> QED BY <4>1, <4>2
    <3>5. UNCHANGED <<attempts, dependencies, faults>>
      BY <1>2 DEF ClaimExpires, BackoffEnds, RowAges
    <3> QED BY <2>1, <3>1, <3>2, <3>3, <3>4, <3>5, ZenonT(30) DEF TypeOK, relay
  <2>3. \A p \in Relays : OutcomeIsTrue(p)'
    BY <2>1, Zenon DEF OutboxInv, OutcomeIsTrue, relay, Of
  <2> QED BY <2>1, <2>2, <2>3, ZenonT(30) DEF OutboxInv, Of, Promise!vars
<1> QED BY <1>1, <1>2

(* A relay leases a batch, folds a pass into its verdict or is stopped,    *)
(* or the probe of its process reports: no row is touched.                 *)
LEMMA LoopStep ==
    ASSUME OutboxInv, NEW p \in Relays,
           ClaimBatch(p) \/ Observe(p) \/ Stop(p) \/ ProbeSucceeds(p) \/ ProbeFails(p)
    PROVE  OutboxInv' /\ [Promise!Next]_(Promise!vars)
<1>1. UNCHANGED <<rows, stored, published, dead>>
  BY ZenonT(30) DEF ClaimBatch, Observe, Stop, ProbeSucceeds, ProbeFails, database
<1>2. Batch \subseteq DOMAIN rows /\ Batch \subseteq Rows
  BY DEF Batch, Due, Unpublished, OutboxInv, TypeOK, Rows
<1>3. TypeOK'
  <2>1. CASE ClaimBatch(p)
    BY <2>1, <1>2, ZenonT(30) DEF OutboxInv, TypeOK, ClaimBatch, NoReport
  <2>2. CASE Observe(p)
    <3>1. Verdict(p) \in BOOLEAN
      BY ZenonT(30) DEF Verdict, HeadStuck, OutboxInv, TypeOK
    <3> QED BY <2>2, <3>1 DEF OutboxInv, TypeOK, Observe, database, NoReport
  <2>3. CASE Stop(p)
    <3>1. faults' \in 0 .. MaxFaults
      BY <2>3, SMTT(30) DEF OutboxInv, TypeOK, Stop, Fault
    <3> QED BY <2>3, <3>1, ZenonT(30) DEF OutboxInv, TypeOK, Stop, database, NoReport
  <2>4. CASE ProbeSucceeds(p)
    BY <2>4 DEF OutboxInv, TypeOK, ProbeSucceeds, database, relay
  <2>5. CASE ProbeFails(p)
    <3>1. faults' \in 0 .. MaxFaults
      BY <2>5 DEF OutboxInv, TypeOK, ProbeFails, Fault
    <3> QED BY <2>5, <3>1, ZenonT(30) DEF OutboxInv, TypeOK, ProbeFails, database, relay
  <2> QED BY <2>1, <2>2, <2>3, <2>4, <2>5
<1>4. ASSUME NEW q \in Relays PROVE OutcomeIsTrue(q)'
  <2>1. CASE ClaimBatch(p)
    BY <2>1, <1>1, <1>2, ZenonT(30) DEF OutboxInv, TypeOK, OutcomeIsTrue, ClaimBatch, Of
  <2>2. CASE Observe(p)
    BY <2>2, <1>1, ZenonT(30) DEF OutboxInv, TypeOK, OutcomeIsTrue, Observe, Of
  <2>3. CASE Stop(p)
    BY <2>3, <1>1, ZenonT(30) DEF OutboxInv, TypeOK, OutcomeIsTrue, Stop, Of
  <2>4. CASE ProbeSucceeds(p) \/ ProbeFails(p)
    BY <2>4, <1>1 DEF OutboxInv, OutcomeIsTrue, ProbeSucceeds, ProbeFails, relay, Of
  <2> QED BY <2>1, <2>2, <2>3, <2>4
<1> QED BY <1>1, <1>3, <1>4, ZenonT(30) DEF OutboxInv, Of, Promise!vars

(* An attempt: its outcome, when it is not a transient one, is true.       *)
LEMMA PublishStep ==
    ASSUME OutboxInv, NEW p \in Relays, NEW r \in Rows, Publish(p, r)
    PROVE  OutboxInv' /\ [Promise!Next]_(Promise!vars)
<1> PICK outcome \in {"ok", "transient", "permanent"} : Attempt(p, r, outcome)
  BY DEF Publish, PublishTooLarge, PublishAcknowledged, PublishUnacknowledged
<1>1. UNCHANGED <<rows, published, dead>> /\ r \in batch[p] /\ r \in DOMAIN rows
  BY DEF Attempt, database, OutboxInv, OutcomeIsTrue
<1>2. \/ stored' = stored
      \/ r \in Of("plain") /\ stored' = stored \cup {r}
  BY ZenonT(30) DEF Publish, PublishTooLarge, PublishAcknowledged, PublishUnacknowledged
<1>3. TypeOK'
  <2>1. faults' \in 0 .. MaxFaults
    BY DEF OutboxInv, TypeOK, Publish, PublishTooLarge, PublishAcknowledged, PublishUnacknowledged, Fault
  <2>2. stored' \subseteq Rows
    BY <1>2 DEF OutboxInv, TypeOK
  <2>3. UNCHANGED <<database, report, healthy, dependencies>>
    BY ZenonT(30) DEF Attempt
  <2>4. /\ pc' \in [Relays -> {"idle", "publish", "mark"}]
        /\ batch' \in [Relays -> SUBSET Rows]
        /\ row' \in [Relays -> Rows \cup {0}]
        /\ result' \in [Relays -> {"none", "ok", "transient", "permanent"}]
    BY DEF OutboxInv, TypeOK, Attempt
  <2> QED BY <2>1, <2>2, <2>3, <2>4, ZenonT(30) DEF OutboxInv, TypeOK, database
<1>4. ASSUME NEW q \in Relays PROVE OutcomeIsTrue(q)'
  <2>1. CASE q # p
    BY <2>1, <1>1, <1>2, OutcomeStaysTrue DEF OutboxInv, TypeOK, Attempt
  <2>2. CASE q = p
    <3>1. row'[p] = r /\ result'[p] = outcome /\ batch'[p] \subseteq DOMAIN rows
      BY <1>1, ZenonT(30) DEF OutboxInv, TypeOK, OutcomeIsTrue, Attempt
    <3>2. outcome = "ok" => r \in stored'
      <4> SUFFICES ASSUME outcome = "ok" PROVE r \in stored'
        OBVIOUS
      <4>1. result'[p] = "ok"
        BY <3>1, ZenonT(30)
      <4> QED BY <4>1 DEF OutboxInv, TypeOK, Publish, PublishTooLarge, PublishAcknowledged,
                          PublishUnacknowledged, Attempt
    <3>3. outcome = "permanent" => r \in Of("oversize")
      <4> SUFFICES ASSUME outcome = "permanent" PROVE r \in Of("oversize")
        BY ZenonT(30)
      <4>1. result'[p] = "permanent"
        BY <3>1, Zenon
      <4> QED BY <4>1, ZenonT(30) DEF OutboxInv, TypeOK, Publish, PublishTooLarge, PublishAcknowledged,
                          PublishUnacknowledged, Attempt
    <3> QED BY <2>2, <3>1, <3>2, <3>3, <1>1, ZenonT(30) DEF OutcomeIsTrue, Of
  <2> QED BY <2>1, <2>2, ZenonT(30)
<1>5. [Promise!Next]_(Promise!vars)
  <2>1. CASE stored' = stored
    BY <2>1, <1>1, ZenonT(30) DEF Promise!vars
  <2>2. CASE r \in Of("plain") /\ stored' = stored \cup {r}
    BY <2>2, <1>1, ZenonT(30) DEF Promise!Next, Promise!Deliver, Of
  <2> QED BY <1>2, <2>1, <2>2
<1> QED BY <1>1, <1>2, <1>3, <1>4, <1>5, Zenon DEF OutboxInv, Of

(* The outcome is recorded by outbox_id alone; it is true all the same.    *)
LEMMA MarkStep ==
    ASSUME OutboxInv, NEW p \in Relays, Mark(p)
    PROVE  OutboxInv' /\ [Promise!Next]_(Promise!vars)
<1>1. /\ Marked(p) /\ Release(p) /\ pc[p] = "mark"
      /\ row[p] \in DOMAIN rows /\ row[p] \in Rows
  BY DEF Mark, MarkPublished, MarkTransient, MarkUndeliverable, OutboxInv, OutcomeIsTrue, TypeOK, Rows
<1>2. UNCHANGED <<rows, stored, batch, healthy, dependencies, faults>>
  BY <1>1 DEF Marked
<1>3. \/ UNCHANGED <<published, dead>>
      \/ row[p] \in stored /\ published' = published \cup {row[p]} /\ dead' = dead
      \/ row[p] \in Of("oversize") /\ dead' = dead \cup {row[p]} /\ published' = published
  BY ZenonT(30) DEF Mark, MarkPublished, MarkTransient, MarkUndeliverable, OutboxInv, OutcomeIsTrue
<1>4. TypeOK'
  <2>1. /\ pc' \in [Relays -> {"idle", "publish", "mark"}]
        /\ row' \in [Relays -> Rows \cup {0}]
        /\ result' \in [Relays -> {"none", "ok", "transient", "permanent"}]
        /\ claim' \in [Rows -> {"none", "live"}]
    BY <1>1 DEF Marked, Release, OutboxInv, TypeOK
  <2>2. attempts' \in [Rows -> 0 .. UnhealthyAttempts]
    <3>1. attempts \in [Rows -> 0 .. UnhealthyAttempts]
      BY DEF OutboxInv, TypeOK
    <3>2. FailedAttempt(p) \/ attempts' = attempts
      BY DEF Mark, MarkPublished, MarkTransient, MarkUndeliverable
    <3>3. CASE FailedAttempt(p)
      <4>1. UnhealthyAttempts \in Nat
        BY LimitAssumption
      <4>2. row[p] \in Rows
        BY <1>1
      <4> DEFINE one == IF attempts[row[p]] < UnhealthyAttempts
                        THEN attempts[row[p]] + 1 ELSE attempts[row[p]]
      <4>3. attempts' = [attempts EXCEPT ![row[p]] = one]
        BY <3>1, <3>3, <4>2 DEF FailedAttempt
      <4>4. attempts[row[p]] \in 0 .. UnhealthyAttempts
        BY <3>1, <4>2
      <4>5. one \in 0 .. UnhealthyAttempts
        BY <4>1, <4>4
      <4> HIDE DEF one
      <4> QED BY <3>1, <4>3, <4>5, Zenon
    <3> QED BY <3>1, <3>2, <3>3
  <2>3. queue' \in Seq(Rows)
    BY WithoutType DEF Mark, MarkPublished, MarkTransient, MarkUndeliverable, OutboxInv, TypeOK
  <2>4. report' \in [Relays -> [claimed : BOOLEAN, failed : BOOLEAN]]
    <3>1. report \in [Relays -> [claimed : BOOLEAN, failed : BOOLEAN]]
      BY ZenonT(30) DEF OutboxInv, TypeOK
    <3>2. CASE MarkPublished(p)
      BY <3>1, <3>2, Zenon DEF MarkPublished
    <3>3. CASE MarkTransient(p)
      BY <3>1, <3>3, ZenonT(30) DEF MarkTransient
    <3>4. CASE MarkUndeliverable(p)
      BY <3>1, <3>4, ZenonT(30) DEF MarkUndeliverable
    <3> QED BY <3>2, <3>3, <3>4, ZenonT(30) DEF Mark
  <2>5. published' \subseteq Rows /\ dead' \subseteq Rows
    BY <1>1, <1>3 DEF OutboxInv, TypeOK
  <2>6. aged' \subseteq Rows
    BY ZenonT(30) DEF Mark, MarkPublished, MarkTransient, MarkUndeliverable, OutboxInv, TypeOK
  <2> QED BY <1>2, <2>1, <2>2, <2>3, <2>4, <2>5, <2>6, ZenonT(30) DEF OutboxInv, TypeOK
<1>5. ASSUME NEW q \in Relays PROVE OutcomeIsTrue(q)'
  BY <1>1, <1>2, ZenonT(30) DEF OutboxInv, TypeOK, OutcomeIsTrue, Marked, Of
<1>6. [Promise!Next]_(Promise!vars)
  BY <1>1, <1>2, <1>3, Zenon DEF Promise!Next, Promise!Confirm, Promise!GiveUp, Promise!vars, Of
<1> QED BY <1>2, <1>3, <1>4, <1>5, <1>6, Zenon DEF OutboxInv, Of

(* Every step keeps the invariant and is a step of Delivery or none.       *)
LEMMA NextStep ==
    ASSUME OutboxInv, [Next]_vars
    PROVE  OutboxInv' /\ [Promise!Next]_(Promise!vars)
<1>1. CASE Enqueue
  <2>1. 1 \in Rows
    BY <1>1 DEF Enqueue, OutboxInv, TypeOK, Rows
  <2> QED BY <1>1, <2>1, RowStep
<1>2. ASSUME NEW r \in Rows, ClaimExpires(r) \/ BackoffEnds(r) \/ RowAges(r)
      PROVE  OutboxInv' /\ [Promise!Next]_(Promise!vars)
  BY <1>2, RowStep
<1>3. ASSUME NEW p \in Relays, RelayStep(p) \/ Stop(p) \/ ProbeSucceeds(p) \/ ProbeFails(p)
      PROVE  OutboxInv' /\ [Promise!Next]_(Promise!vars)
  BY <1>3, LoopStep, PublishStep, MarkStep DEF RelayStep
<1>4. CASE UNCHANGED vars
  BY <1>4, Zenon DEF vars, database, relay, OutboxInv, TypeOK, OutcomeIsTrue, Of, Promise!vars
<1> QED BY <1>1, <1>2, <1>3, <1>4 DEF Next

(* published_at stands only on rows that JetStream holds, dead_lettered_at *)
(* only on rows no retry could deliver, and never both on one row.         *)
THEOREM MarksAlwaysTrue == Spec => []MarksAreTrue
<1>1. OutboxInv => MarksAreTrue
  BY DEF OutboxInv, MarksAreTrue, Of
<1> QED BY <1>1, InitIInv, NextStep, PTL DEF Spec

(* The relays implement the promise of the outbox.                         *)
THEOREM RelaysImplementDelivery == Spec => ImplementsDelivery
<1>1. Init => Promise!Init
  BY DEF Init, Promise!Init
<1> QED BY <1>1, InitIInv, NextStep, PTL DEF Spec, ImplementsDelivery, Promise!Spec

HIDE FaultsAssumption
HIDE LimitAssumption
HIDE RowsAssumption

-----------------------------------------------------------------------------
(* The results that rest on counting.                                      *)

INSTANCE FiniteSetTheorems

LEMMA Counting == CountingFacts
    BY FS_CardinalityType, FS_Subset, FS_AddElement, FS_RemoveElement, FS_EmptySet, ZenonT(30) DEF CountingFacts

(* The gate's count is exact in every reachable state. *)
THEOREM CountIsExact ==
    ProcessSpec => []ActiveCountsPermits
<1>1. GateInv => ActiveCountsPermits
    BY ZenonT(30) DEF GateInv
<1> QED
    BY <1>1, Counting, GateInvariance, PTL

(* When shutdown's wait ends before the deadline, nothing is admitted. *)
THEOREM DrainIsComplete ==
    ProcessSpec => []DrainedMeansIdle
<1>1. GateInv => DrainedMeansIdle
    BY DEF GateInv
<1> QED
    BY <1>1, Counting, GateInvariance, PTL
=============================================================================
