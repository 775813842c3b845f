------------------------ MODULE RenderPipelineProofs ------------------------
(***************************************************************************)
(* Proofs about RenderPipeline: the budget, the shared durable, markers    *)
(* and acknowledgements, and how often a command is answered.  What needs  *)
(* no cardinalities comes first.                                           *)
(***************************************************************************)
EXTENDS RenderPipeline, TLAPS

-----------------------------------------------------------------------------
(* Sequences.                                                              *)

(* What appending an element leaves alone and adds. *)
LEMMA Appended ==
    ASSUME NEW S, NEW s \in Seq(S), NEW e \in S
    PROVE  /\ Append(s, e) \in Seq(S)
           /\ Len(Append(s, e)) = Len(s) + 1
           /\ \A i \in 1 .. Len(s) : Append(s, e)[i] = s[i]
           /\ Append(s, e)[Len(s) + 1] = e
           /\ Len(s) > 0 => Head(Append(s, e)) = Head(s)
    OBVIOUS

(* What dropping the first element leaves. *)
LEMMA Dropped ==
    ASSUME NEW S, NEW s \in Seq(S), Len(s) > 0
    PROVE  /\ Tail(s) \in Seq(S)
           /\ Len(Tail(s)) = Len(s) - 1
           /\ \A i \in 1 .. Len(s) - 1 : Tail(s)[i] = s[i + 1]
           /\ Head(s) = s[1] /\ s[1] \in S
    OBVIOUS

-----------------------------------------------------------------------------
(* The shape of the state.                                                 *)

Working == {"render", "publish", "mark", "ack", "skip"}

(* A buffer holds published commands only, and a worker that is past the   *)
(* lookup has the message in hand.                                         *)
BufferInv ==
    /\ buffer \in [Browsers -> Seq(Jobs)]
    /\ events \in Seq(Jobs)
    /\ \A b \in Browsers : \A i \in 1 .. Len(buffer[b]) : buffer[b][i] \in commands
    /\ \A b \in Browsers : stage[b] \in Working => Len(buffer[b]) > 0
    /\ \A b \in Browsers : stage[b] = "down" => buffer[b] = << >>

Shape == TypeOK /\ BufferInv

ExtractorStep ==
    \/ NewDay
    \/ \E j \in Jobs : ConsumeRenderBudget(j) \/ PublishCommand(j) \/ Pull(j) \/ AwaitEnds(j)

BusStep ==
    \/ \E j \in Jobs : AckWaitExpires(j)
    \/ \E b \in Browsers :
          \/ \E j \in Jobs : Deliver(b, j)
          \/ Handle(b) \/ BrowserCrash(b) \/ BrowserRestart(b)

(* The initial state has the shape. *)
LEMMA ShapeInit == Init => Shape
  <1> SUFFICES ASSUME Init PROVE Shape
    OBVIOUS
  <1>1. TypeOK
    BY BudgetAssumption, BusAssumption DEF Init, TypeOK, Open, Closed, Stages
  <1>2. BufferInv
    BY DEF Init, BufferInv, Working
  <1> QED
    BY <1>1, <1>2 DEF Shape

(* The extractor's steps keep the shape: the slot counter never passes the *)
(* cap of its day.                                                         *)
LEMMA ShapeExtractor ==
    ASSUME Shape, ExtractorStep
    PROVE  Shape'
  <1> USE BudgetAssumption, BusAssumption DEF Shape
  <1>1. CASE NewDay
    BY <1>1 DEF TypeOK, BufferInv, NewDay, BusRest, NoFault, browser
  <1>2. ASSUME NEW j \in Jobs, ConsumeRenderBudget(j) PROVE Shape'
    <2>1. escalated' \in 0 .. MaxPerDay /\ spent' \in Nat
      BY <1>2 DEF TypeOK, ConsumeRenderBudget, Cap
    <2>2. request' \in [Jobs -> {"new"} \cup Open \cup Closed]
      BY <1>2, Zenon DEF TypeOK, ConsumeRenderBudget, Open, Closed
    <2> QED
      BY <1>2, <2>1, <2>2 DEF TypeOK, BufferInv, ConsumeRenderBudget, BusRest, NoFault, browser
  <1>3. ASSUME NEW j \in Jobs, PublishCommand(j) PROVE Shape'
    <2>1. request' \in [Jobs -> {"new"} \cup Open \cup Closed]
      BY <1>3, Zenon DEF TypeOK, PublishCommand, Open, Closed
    <2>2. commands \subseteq commands' /\ commands' \subseteq Jobs
      BY <1>3, Zenon DEF TypeOK, PublishCommand
    <2>5. exposed' \subseteq Jobs
      BY <1>3, Zenon DEF TypeOK, PublishCommand, Awaiting
    <2>3. faults' \in 0 .. MaxFaults
      BY <1>3 DEF TypeOK, PublishCommand, Fault
    <2>4. UNCHANGED <<day, escalated, spent, cursor, excuse, message, deliveries, markers, events,
                      buffer, stage, handled>>
      BY <1>3, Zenon DEF PublishCommand, BusRest, browser
    <2> QED
      BY <2>1, <2>2, <2>3, <2>4, <2>5, Zenon DEF TypeOK, BufferInv
  <1>4. ASSUME NEW j \in Jobs, Pull(j) PROVE Shape'
    <2>1. request' \in [Jobs -> {"new"} \cup Open \cup Closed]
      BY <1>4, Zenon DEF TypeOK, Pull, Open, Closed
    <2>2. cursor' \in 0 .. Len(events)
      <3>1. cursor' = IF cursor + Batch < Len(events) THEN cursor + Batch ELSE Len(events)
        BY <1>4, Zenon DEF Pull
      <3> QED
        BY <3>1 DEF TypeOK, BufferInv
    <2>3. UNCHANGED <<day, escalated, spent, commands, excuse, message, deliveries, markers,
                      events, buffer, stage, handled>>
      BY <1>4, Zenon DEF Pull, BusRest, browser
    <2>4. exposed' \subseteq Jobs
      BY <1>4, Zenon DEF TypeOK, Pull
    <2>5. UNCHANGED faults \/ Fault
      BY <1>4, Zenon DEF Pull
    <2>6. faults' \in 0 .. MaxFaults
      BY <2>5 DEF TypeOK, Fault
    <2> QED
      BY <2>1, <2>2, <2>3, <2>4, <2>6, Zenon DEF TypeOK, BufferInv
  <1>5. ASSUME NEW j \in Jobs, AwaitEnds(j) PROVE Shape'
    BY <1>5 DEF TypeOK, BufferInv, AwaitEnds, BusRest, NoFault, browser, Open, Closed
  <1> QED
    BY <1>1, <1>2, <1>3, <1>4, <1>5 DEF ExtractorStep

(* The message in hand is a published command. *)
LEMMA HandIsCommand ==
    ASSUME Shape, NEW b \in Browsers, Len(buffer[b]) > 0
    PROVE  /\ Head(buffer[b]) \in commands /\ Head(buffer[b]) \in Jobs
           /\ buffer[b] \in Seq(Jobs) /\ Tail(buffer[b]) \in Seq(Jobs)
           /\ Len(Tail(buffer[b])) = Len(buffer[b]) - 1
           /\ \A i \in 1 .. Len(Tail(buffer[b])) : Tail(buffer[b])[i] \in commands
    BY Dropped DEF Shape, TypeOK, BufferInv

(* A step that ends the work on the message in hand: the worker drops it,  *)
(* or all it holds, and is idle or down.                                   *)
LetsGo(b, to) ==
    /\ stage' = [stage EXCEPT ![b] = to]
    /\ \/ to = "idle" /\ Len(buffer[b]) > 0 /\ buffer' = [buffer EXCEPT ![b] = Tail(@)]
       \/ to = "down" /\ buffer' = [buffer EXCEPT ![b] = << >>]

(* Ending the work on a message keeps the shape of the buffers. *)
LEMMA ShapeLetsGo ==
    ASSUME Shape, NEW b \in Browsers, NEW to, LetsGo(b, to), UNCHANGED commands,
           events' \in Seq(Jobs)
    PROVE  /\ BufferInv'
           /\ stage' \in [Browsers -> Stages]
           /\ \A c \in Browsers : Len(buffer'[c]) <= Prefetch
  <1> USE DEF Shape
  <1> DEFINE rest == IF to = "idle" THEN Tail(buffer[b]) ELSE << >>
  <1>1. /\ to \in {"idle", "down"} /\ (to = "idle" => Len(buffer[b]) > 0)
        /\ buffer' = [buffer EXCEPT ![b] = rest]
    BY DEF LetsGo
  <1>2. /\ rest \in Seq(Jobs) /\ Len(rest) <= Prefetch
        /\ \A i \in 1 .. Len(rest) : rest[i] \in commands
        /\ to = "down" => rest = << >>
    <2>1. CASE to = "idle"
      <3>1. rest = Tail(buffer[b]) /\ Len(buffer[b]) > 0
        BY <1>1, <2>1
      <3>2. /\ buffer[b] \in Seq(Jobs) /\ Len(buffer[b]) <= Prefetch
        BY DEF TypeOK, BufferInv
      <3>3. /\ Tail(buffer[b]) \in Seq(Jobs)
            /\ Len(Tail(buffer[b])) = Len(buffer[b]) - 1
            /\ \A i \in 1 .. Len(Tail(buffer[b])) : Tail(buffer[b])[i] \in commands
        BY <3>1, HandIsCommand
      <3> HIDE DEF rest
      <3>4. Len(rest) <= Prefetch
        BY <3>1, <3>2, <3>3, BusAssumption
      <3> QED
        BY <2>1, <3>1, <3>3, <3>4
    <2>2. CASE to = "down"
      BY <2>2, BusAssumption
    <2> QED
      BY <1>1, <2>1, <2>2, Zenon
  <1> HIDE DEF rest
  <1>3. /\ buffer' \in [Browsers -> Seq(Jobs)] /\ buffer'[b] = rest /\ stage'[b] = to
        /\ \A c \in Browsers : c # b => buffer'[c] = buffer[c] /\ stage'[c] = stage[c]
    BY <1>1, <1>2 DEF LetsGo, BufferInv, TypeOK
  <1>4. stage' \in [Browsers -> Stages]
    BY <1>1 DEF LetsGo, TypeOK, Stages
  <1>5. \A c \in Browsers : Len(buffer'[c]) <= Prefetch
    BY <1>2, <1>3, Zenon DEF TypeOK
  <1> QED
    BY <1>1, <1>2, <1>3, <1>4, <1>5, Zenon DEF BufferInv, Working

(* A step within the work on a message keeps it. *)
LEMMA ShapeStays ==
    ASSUME Shape, NEW b \in Browsers, NEW to \in Working, Len(buffer[b]) > 0,
           stage' = [stage EXCEPT ![b] = to], UNCHANGED <<buffer, commands>>,
           events' \in Seq(Jobs)
    PROVE  /\ BufferInv'
           /\ stage' \in [Browsers -> Stages]
           /\ \A c \in Browsers : Len(buffer'[c]) <= Prefetch
    BY DEF Shape, BufferInv, TypeOK, Working, Stages

(* What a worker may do to the rest of the state while it has k in hand. *)
WorkerEffect(k) ==
    /\ UNCHANGED <<extractor, commands, deliveries>>
    /\ faults' = faults \/ Fault
    /\ excuse' = excuse \/ Excuse(k)
    /\ markers' = markers \/ markers' = markers \cup {k}
    /\ message' = message \/ message' = [message EXCEPT ![k] = "acked"]
    /\ events' = events \/ events' = Append(events, k)
    /\ handled' \in [Browsers -> 0 .. MaxJobs - 1]

(* Such an effect keeps the types, and the events stay a sequence. *)
LEMMA EffectTypes ==
    ASSUME Shape, NEW k \in commands, WorkerEffect(k)
    PROVE  /\ events' \in Seq(Jobs) /\ UNCHANGED commands
           /\ (BufferInv /\ stage \in [Browsers -> Stages]
                 /\ \A c \in Browsers : Len(buffer[c]) <= Prefetch)' => Shape'
  <1> USE BudgetAssumption, BusAssumption DEF Shape
  <1>1. k \in Jobs
    BY DEF TypeOK
  <1>2. faults' \in 0 .. MaxFaults
    BY DEF WorkerEffect, TypeOK, Fault
  <1>3. excuse' \in [Jobs -> Nat]
    BY <1>1 DEF WorkerEffect, TypeOK, Excuse
  <1>4. message' \in [Jobs -> {"ready", "out", "acked"}] /\ markers' \subseteq Jobs
    BY <1>1, Zenon DEF WorkerEffect, TypeOK
  <1>5. /\ events' \in Seq(Jobs) /\ Len(events) <= Len(events')
        /\ \A i \in 1 .. Len(events') : events'[i] \in commands
    <2>1. CASE events' = events
      BY <2>1 DEF TypeOK, BufferInv
    <2>2. CASE events' = Append(events, k)
      BY <2>2, <1>1, Appended DEF TypeOK, BufferInv
    <2> QED
      BY <2>1, <2>2 DEF WorkerEffect
  <1>6. cursor' \in 0 .. Len(events')
    BY <1>5 DEF WorkerEffect, TypeOK, BufferInv, extractor
  <1> QED
    BY <1>2, <1>3, <1>4, <1>5, <1>6 DEF WorkerEffect, TypeOK, extractor

(* The bus and the browser workers keep the shape. *)
LEMMA ShapeBus ==
    ASSUME Shape, BusStep
    PROVE  Shape'
  <1> USE BudgetAssumption, BusAssumption DEF Shape
  <1>1. ASSUME NEW j \in Jobs, AckWaitExpires(j) PROVE Shape'
    <2>1. faults' \in 0 .. MaxFaults
      BY <1>1 DEF TypeOK, AckWaitExpires, Fault
    <2>2. message' \in [Jobs -> {"ready", "out", "acked"}]
      BY <1>1, Zenon DEF TypeOK, AckWaitExpires
    <2> QED
      BY <1>1, <2>1, <2>2 DEF TypeOK, BufferInv, AckWaitExpires, extractor, browser
  <1>2. ASSUME NEW b \in Browsers, NEW j \in Jobs, Deliver(b, j) PROVE Shape'
    <2> DEFINE more == Append(buffer[b], j)
    <2>1. /\ more \in Seq(Jobs) /\ Len(more) <= Prefetch /\ Len(more) > 0
          /\ \A i \in 1 .. Len(more) : more[i] \in commands
      <3>1. /\ buffer[b] \in Seq(Jobs) /\ Len(buffer[b]) < Prefetch /\ j \in commands
            /\ \A i \in 1 .. Len(buffer[b]) : buffer[b][i] \in commands
        BY <1>2 DEF Deliver, BufferInv
      <3> QED
        BY <3>1, Appended
    <2>2. /\ buffer' = [buffer EXCEPT ![b] = more]
          /\ UNCHANGED <<extractor, commands, markers, events, stage, handled, faults, excuse>>
          /\ stage[b] # "down"
      BY <1>2, Zenon DEF Deliver, NoFault
    <2> HIDE DEF more
    <2>3. /\ buffer' \in [Browsers -> Seq(Jobs)] /\ buffer'[b] = more
          /\ \A c \in Browsers : c # b => buffer'[c] = buffer[c]
      BY <2>1, <2>2 DEF BufferInv
    <2>4. BufferInv'
      BY <2>1, <2>2, <2>3 DEF BufferInv, Working
    <2>5. \A c \in Browsers : Len(buffer'[c]) <= Prefetch
      BY <2>1, <2>3, Zenon DEF TypeOK
    <2>6. message' \in [Jobs -> {"ready", "out", "acked"}]
      BY <1>2 DEF Deliver, TypeOK
    <2>7. deliveries' \in [Jobs -> 0 .. MaxDeliver]
      BY <1>2 DEF Deliver, TypeOK
    <2> QED
      BY <2>2, <2>4, <2>5, <2>6, <2>7 DEF TypeOK, extractor
  <1>3. ASSUME NEW b \in Browsers, Handle(b) PROVE Shape'
    <2> DEFINE k == Head(buffer[b])
    <2>1. Len(buffer[b]) > 0
      BY <1>3, Zenon DEF Handle, LookUpMarker, Render, PublishEvent, PutMarker, Acknowledge, BufferInv, Working
    <2>2. k \in commands
      BY <2>1, HandIsCommand
    <2> HIDE DEF k
    <2>3. handled \in [Browsers -> 0 .. MaxJobs - 1]
      BY DEF TypeOK
    <2>4. CASE LookUpMarker(b)
      <3>1. WorkerEffect(k)
        BY <2>3, <2>4, Zenon DEF LookUpMarker, WorkerEffect, NoFault, k
      <3>2. PICK to \in Working : stage' = [stage EXCEPT ![b] = to] /\ UNCHANGED buffer
        BY <2>4, Zenon DEF LookUpMarker, Goto, Working
      <3> QED
        BY <2>1, <2>2, <3>1, <3>2, EffectTypes, ShapeStays, Zenon
    <2>5. CASE Render(b)
      <3>1. WorkerEffect(k)
        BY <2>3, <2>5, Zenon DEF Render, WorkerEffect
      <3>2. \/ stage' = [stage EXCEPT ![b] = "publish"] /\ UNCHANGED buffer
            \/ LetsGo(b, "idle")
        BY <2>1, <2>5, Zenon DEF Render, Goto, Drop, LetsGo
      <3> QED
        BY <2>1, <2>2, <3>1, <3>2, EffectTypes, ShapeStays, ShapeLetsGo DEF Working
    <2>6. CASE PublishEvent(b)
      <3>1. WorkerEffect(k)
        BY <2>3, <2>6, Zenon DEF PublishEvent, WorkerEffect, k
      <3>2. \/ stage' = [stage EXCEPT ![b] = "mark"] /\ UNCHANGED buffer
            \/ LetsGo(b, "idle")
        BY <2>1, <2>6, Zenon DEF PublishEvent, Goto, Drop, LetsGo
      <3> QED
        BY <2>1, <2>2, <3>1, <3>2, EffectTypes, ShapeStays, ShapeLetsGo DEF Working
    <2>7. CASE PutMarker(b)
      <3>1. WorkerEffect(k)
        BY <2>3, <2>7, Zenon DEF PutMarker, WorkerEffect, NoFault, k
      <3>2. stage' = [stage EXCEPT ![b] = "ack"] /\ UNCHANGED buffer
        BY <2>7, Zenon DEF PutMarker, Goto
      <3> QED
        BY <2>1, <2>2, <3>1, <3>2, EffectTypes, ShapeStays, Zenon DEF Working
    <2>8. CASE Acknowledge(b)
      <3>1. handled' \in [Browsers -> 0 .. MaxJobs - 1]
        <4>1. \/ handled' = [handled EXCEPT ![b] = 0]
              \/ handled[b] + 1 # MaxJobs /\ handled' = [handled EXCEPT ![b] = @ + 1]
              \/ handled' = [handled EXCEPT ![b] = @]
          BY <2>8, Zenon DEF Acknowledge
        <4> QED
          BY <2>3, <4>1
      <3>2. WorkerEffect(k)
        BY <2>8, <3>1, Zenon DEF Acknowledge, WorkerEffect, k
      <3>3. LetsGo(b, "idle") \/ LetsGo(b, "down")
        BY <2>1, <2>8, Zenon DEF Acknowledge, Goto, Drop, LetsGo
      <3> QED
        BY <2>1, <2>2, <3>2, <3>3, EffectTypes, ShapeLetsGo
    <2> QED
      BY <1>3, <2>4, <2>5, <2>6, <2>7, <2>8 DEF Handle
  <1>4. ASSUME NEW b \in Browsers, BrowserCrash(b) PROVE Shape'
    <2>1. faults' \in 0 .. MaxFaults /\ handled' \in [Browsers -> 0 .. MaxJobs - 1]
      BY <1>4 DEF BrowserCrash, Fault, TypeOK
    <2>2. excuse' \in [Jobs -> Nat]
      <3>1. CASE stage[b] = "mark"
        <4>1. Head(buffer[b]) \in Jobs
          BY <3>1, HandIsCommand DEF BufferInv, Working
        <4> QED
          <5>1. excuse' = [excuse EXCEPT ![Head(buffer[b])] = @ + 1]
            BY <1>4, <3>1, Zenon DEF BrowserCrash, Excuse
          <5>2. excuse \in [Jobs -> Nat]
            BY DEF TypeOK
          <5> QED
            BY <4>1, <5>1, <5>2
      <3>2. CASE stage[b] # "mark"
        BY <1>4, <3>2 DEF BrowserCrash, TypeOK
      <3> QED
        BY <3>1, <3>2
    <2>3. LetsGo(b, "down") /\ UNCHANGED <<extractor, commands, message, deliveries, markers, events>>
      BY <1>4, Zenon DEF BrowserCrash, LetsGo, Goto
    <2>4. /\ BufferInv' /\ stage' \in [Browsers -> Stages]
          /\ \A c \in Browsers : Len(buffer'[c]) <= Prefetch
      BY <2>3, ShapeLetsGo DEF BufferInv
    <2> QED
      BY <2>1, <2>2, <2>3, <2>4 DEF TypeOK, extractor
  <1>5. ASSUME NEW b \in Browsers, BrowserRestart(b) PROVE Shape'
    BY <1>5 DEF BrowserRestart, Goto, NoFault, TypeOK, BufferInv, Working, Stages, extractor
  <1> QED
    BY <1>1, <1>2, <1>3, <1>4, <1>5 DEF BusStep

(* The shape is kept by every step. *)
LEMMA ShapeNext == Shape /\ [Next]_vars => Shape'
  <1>1. ASSUME Shape, UNCHANGED vars PROVE Shape'
    BY <1>1 DEF Shape, TypeOK, BufferInv, vars, extractor, browser
  <1>2. Next => ExtractorStep \/ BusStep
    BY Zenon DEF Next, ExtractorStep, BusStep
  <1> QED
    BY <1>1, <1>2, ShapeExtractor, ShapeBus

(* The bus and the browser workers touch nothing of the extractor. *)
LEMMA BusKeepsExtractor == BusStep => UNCHANGED <<extractor, commands>>
    BY Zenon DEF BusStep, AckWaitExpires, Deliver, Handle, LookUpMarker, Render, PublishEvent,
                 PutMarker, Acknowledge, BrowserCrash, BrowserRestart

(* The extractor touches nothing of the browser workers, and publishes no  *)
(* event.                                                                  *)
LEMMA ExtractorKeepsBus ==
    ExtractorStep => UNCHANGED <<message, deliveries, markers, events, buffer, stage, handled, excuse>>
    BY Zenon DEF ExtractorStep, NewDay, ConsumeRenderBudget, PublishCommand, Pull, AwaitEnds,
                 BusRest, NoFault, browser

-----------------------------------------------------------------------------
(* Events, markers and acknowledgements.                                   *)

(* Events are only ever appended, by a worker and of its job in hand. *)
LEMMA EventsGrow ==
    ASSUME Shape, [Next]_vars
    PROVE  /\ events' \in Seq(Jobs) /\ Len(events) <= Len(events')
           /\ \A i \in 1 .. Len(events) : events'[i] = events[i]
  <1>1. events' \in Seq(Jobs)
    BY ShapeNext DEF Shape, BufferInv
  <1>2. UNCHANGED events \/ \E b \in Browsers : PublishEvent(b)
    BY ExtractorKeepsBus, Zenon
       DEF Next, vars, ExtractorStep, AckWaitExpires, Deliver, Handle, LookUpMarker, Render,
           PutMarker, Acknowledge, BrowserCrash, BrowserRestart
  <1>3. ASSUME NEW b \in Browsers, PublishEvent(b), ~ UNCHANGED events
        PROVE  events' = Append(events, Head(buffer[b])) /\ Head(buffer[b]) \in Jobs
    <2>1. Len(buffer[b]) > 0
      BY <1>3, Zenon DEF PublishEvent, Shape, BufferInv, Working
    <2> QED
      BY <1>3, <2>1, HandIsCommand, Zenon DEF PublishEvent
  <1>4. CASE UNCHANGED events
    BY <1>4 DEF Shape, BufferInv
  <1>5. CASE ~ UNCHANGED events
    <2>1. PICK k \in Jobs : events' = Append(events, k)
      BY <1>2, <1>3, <1>5, Zenon
    <2>2. events \in Seq(Jobs)
      BY DEF Shape, BufferInv
    <2> QED
      BY <2>1, <2>2, Appended
  <1> QED
    BY <1>1, <1>4, <1>5

(* An event in the stream stays there. *)
LEMMA PresentStays ==
    ASSUME Shape, [Next]_vars, NEW j, Present(j)
    PROVE  Present(j)'
    BY EventsGrow DEF Present, Shape, BufferInv

(* What a step does to the message in hand of a worker that is past the    *)
(* lookup after it: the worker was there before with the same message, or  *)
(* its own step took it there.                                             *)
LEMMA HandStays ==
    ASSUME Shape, [Next]_vars, NEW b \in Browsers, ~ Handle(b), stage'[b] \in Working
    PROVE  stage'[b] = stage[b] /\ Len(buffer[b]) > 0 /\ Head(buffer'[b]) = Head(buffer[b])
  <1>1. CASE UNCHANGED <<stage, buffer>>
    BY <1>1 DEF Shape, BufferInv
  <1>2. ASSUME NEW c \in Browsers, NEW j \in Jobs, Deliver(c, j)
        PROVE  stage'[b] = stage[b] /\ Len(buffer[b]) > 0 /\ Head(buffer'[b]) = Head(buffer[b])
    <2>1. UNCHANGED stage /\ buffer' = [buffer EXCEPT ![c] = Append(@, j)]
      BY <1>2, Zenon DEF Deliver
    <2>2. Len(buffer[b]) > 0 /\ buffer[b] \in Seq(Jobs)
      BY <2>1 DEF Shape, BufferInv
    <2>3. buffer'[b] = buffer[b] \/ buffer'[b] = Append(buffer[b], j)
      BY <2>1, Zenon DEF Shape, BufferInv
    <2> QED
      BY <2>1, <2>2, <2>3, Appended
  <1>3. ASSUME NEW c \in Browsers, Handle(c) \/ BrowserCrash(c) \/ BrowserRestart(c)
        PROVE  stage'[b] = stage[b] /\ Len(buffer[b]) > 0 /\ Head(buffer'[b]) = Head(buffer[b])
    <2>1. PICK to : stage' = [stage EXCEPT ![c] = to]
      BY <1>3, Zenon DEF Handle, LookUpMarker, Render, PublishEvent, PutMarker, Acknowledge,
                         BrowserCrash, BrowserRestart, Goto
    <2>2. c # b
      BY <1>3, <2>1, Zenon DEF BrowserCrash, BrowserRestart, Goto, Shape, TypeOK, Working
    <2>3. \A d \in Browsers : d # c => buffer'[d] = buffer[d]
      BY <1>3, Zenon DEF Handle, LookUpMarker, Render, PublishEvent, PutMarker, Acknowledge,
                  BrowserCrash, BrowserRestart, Drop, Shape, BufferInv
    <2> QED
      BY <2>1, <2>2, <2>3 DEF Shape, TypeOK, BufferInv
  <1>4. \/ UNCHANGED <<stage, buffer>>
        \/ \E c \in Browsers : \/ \E j \in Jobs : Deliver(c, j)
                               \/ Handle(c) \/ BrowserCrash(c) \/ BrowserRestart(c)
    BY ExtractorKeepsBus, Zenon DEF Next, vars, browser, ExtractorStep, AckWaitExpires
  <1> QED
    BY <1>1, <1>2, <1>3, <1>4

(* Whatever is about to be marked or acknowledged has its event. *)
SettledInv ==
    /\ SettledCommandsHaveEvents
    /\ \A b \in Browsers : stage[b] \in {"mark", "ack", "skip"} => Present(Head(buffer[b]))

(* Nothing is marked or acknowledged before its event is in the stream. *)
LEMMA SettledNext ==
    ASSUME Shape, SettledInv, [Next]_vars
    PROVE  SettledInv'
  <1>1. ASSUME NEW j \in Jobs, j \in markers' \/ message'[j] = "acked" PROVE Present(j)'
    <2>1. CASE j \in markers \/ message[j] = "acked"
      BY <2>1, PresentStays DEF SettledInv, SettledCommandsHaveEvents
    <2>2. CASE j \notin markers /\ message[j] # "acked"
      <3>1. PICK b \in Browsers : PutMarker(b) \/ Acknowledge(b)
        <4>1. CASE UNCHANGED <<markers, message>>
          BY <1>1, <2>2, <4>1
        <4>2. CASE \E i \in Jobs : AckWaitExpires(i) \/ \E b \in Browsers : Deliver(b, i)
          <5>1. UNCHANGED markers /\ \E i \in Jobs, to \in {"ready", "out"} : message' = [message EXCEPT ![i] = to]
            BY <4>2, Zenon DEF AckWaitExpires, Deliver
          <5> QED
            BY <1>1, <2>2, <5>1 DEF Shape, TypeOK
        <4>3. \/ UNCHANGED <<markers, message>>
              \/ \E i \in Jobs : AckWaitExpires(i) \/ \E b \in Browsers : Deliver(b, i)
              \/ \E b \in Browsers : PutMarker(b) \/ Acknowledge(b)
          BY ExtractorKeepsBus, Zenon
             DEF Next, vars, ExtractorStep, Handle, LookUpMarker, Render, PublishEvent,
                 BrowserCrash, BrowserRestart
        <4> QED
          BY <4>1, <4>2, <4>3
      <3>2. stage[b] \in {"mark", "ack", "skip"} /\ Len(buffer[b]) > 0
        BY <3>1, Zenon DEF PutMarker, Acknowledge, Shape, BufferInv, Working
      <3>3. \/ markers' \subseteq markers \cup {Head(buffer[b])} /\ UNCHANGED message
            \/ UNCHANGED markers /\ message' = [message EXCEPT ![Head(buffer[b])] = "acked"]
            \/ UNCHANGED <<markers, message>>
        BY <3>1, Zenon DEF PutMarker, Acknowledge
      <3>4. j = Head(buffer[b])
        BY <1>1, <2>2, <3>3 DEF Shape, TypeOK
      <3> QED
        BY <3>2, <3>4, PresentStays DEF SettledInv
    <2> QED
      BY <2>1, <2>2
  <1>2. ASSUME NEW b \in Browsers, stage'[b] \in {"mark", "ack", "skip"}
        PROVE  Present(Head(buffer[b]))'
    <2>0. PICK k : k = Head(buffer[b])
      OBVIOUS
    <2>1. CASE ~ Handle(b)
      <3>1. stage'[b] = stage[b] /\ Head(buffer'[b]) = k
        BY <1>2, <2>0, <2>1, HandStays DEF Working
      <3>2. Present(k)
        BY <1>2, <2>0, <3>1 DEF SettledInv
      <3>3. Present(k)'
        BY <3>2, PresentStays
      <3> QED
        BY <3>1, <3>3 DEF Present
    <2>2. CASE Handle(b)
      <3> USE DEF Goto
      <3>1. stage \in [Browsers -> Stages] /\ buffer \in [Browsers -> Seq(Jobs)] /\ markers \subseteq Jobs
        BY DEF Shape, TypeOK, BufferInv
      <3>2. CASE LookUpMarker(b)
        <4>1. k \in markers /\ UNCHANGED <<buffer, events>>
          BY <1>2, <2>0, <3>1, <3>2, Zenon DEF LookUpMarker
        <4> QED
          BY <2>0, <3>1, <4>1, Zenon DEF SettledInv, SettledCommandsHaveEvents, Present
      <3>3. CASE Render(b)
        BY <1>2, <3>1, <3>3 DEF Render
      <3>4. CASE PublishEvent(b)
        <4>1. UNCHANGED buffer /\ events' = Append(events, k)
          BY <1>2, <2>0, <3>1, <3>4 DEF PublishEvent
        <4>2. Len(buffer[b]) > 0
          BY <3>4, Zenon DEF PublishEvent, Shape, BufferInv, Working
        <4>3. k \in Jobs /\ events \in Seq(Jobs)
          BY <2>0, <4>2, HandIsCommand DEF Shape, BufferInv
        <4>4. Len(events') = Len(events) + 1 /\ events'[Len(events) + 1] = k /\ Len(events) \in Nat
          BY <4>1, <4>3, Appended
        <4> QED
          BY <2>0, <4>1, <4>4 DEF Present
      <3>5. CASE PutMarker(b)
        <4>1. stage[b] = "mark" /\ UNCHANGED <<buffer, events>>
          BY <3>5, Zenon DEF PutMarker
        <4>2. Present(k)
          BY <2>0, <4>1 DEF SettledInv
        <4> QED
          BY <2>0, <4>1, <4>2 DEF Present
      <3>6. CASE Acknowledge(b)
        BY <1>2, <3>1, <3>6 DEF Acknowledge
      <3> QED
        BY <2>2, <3>2, <3>3, <3>4, <3>5, <3>6 DEF Handle
    <2> QED
      BY <2>1, <2>2
  <1> QED
    BY <1>1, <1>2 DEF SettledInv, SettledCommandsHaveEvents

(* A marker or an acknowledgement never comes before the event, through    *)
(* crashes, lost acknowledgements and redeliveries (run_job): neither of   *)
(* them can suppress the only result of a command.                         *)
THEOREM SettledOnlyAfterEvent == Spec => []SettledCommandsHaveEvents
  <1>1. Init => Shape /\ SettledInv
    BY ShapeInit DEF Init, SettledInv, SettledCommandsHaveEvents
  <1>2. Shape /\ SettledInv /\ [Next]_vars => (Shape /\ SettledInv)'
    BY ShapeNext, SettledNext
  <1>3. SettledInv => SettledCommandsHaveEvents
    BY DEF SettledInv
  <1> QED
    BY <1>1, <1>2, <1>3, PTL DEF Spec

-----------------------------------------------------------------------------
(* The steps of the budget.                                                *)

(* Jobs that took a slot. *)
Charged == {j \in Jobs : request[j] \notin {"new", "denied"}}

(* Only jobs with a slot have a command in the stream, and the slots of    *)
(* the days before today are within their budgets.                         *)
BudgetBooks ==
    /\ commands \subseteq Charged
    /\ \A j \in Jobs : request[j] = "budgeted" => j \notin commands
    /\ spent <= (day - 1) * MaxPerDay + escalated

(* A step charges no job, or one that was not charged before. *)
ChargeStep ==
    \/ Charged' = Charged /\ UNCHANGED spent
    \/ \E j \in Jobs : j \notin Charged /\ Charged' = Charged \cup {j} /\ spent' = spent + 1

(* A day's budget carried over to the next day. *)
LEMMA DayArithmetic ==
    ASSUME NEW d \in Nat, NEW m \in Nat, NEW e \in 0 .. m
    PROVE  (d - 1) * m + e <= ((d + 1) - 1) * m + 0
  <1>1. (d - 1) * m = d * m - m /\ d * m \in Int
    OBVIOUS
  <1> QED
    BY <1>1

(* What a request may become once it has taken its slot. *)
LEMMA ChargedStays ==
    ASSUME Shape, NEW j \in Jobs, NEW to \in {"awaiting", "answered", "timeout", "transport", "gone"},
           request[j] \in Open, request' = [request EXCEPT ![j] = to]
    PROVE  /\ Charged' = Charged /\ j \in Charged
           /\ \A i \in Jobs : request'[i] = "budgeted" => request[i] = "budgeted" /\ i # j
    BY DEF Shape, TypeOK, Charged, Open

(* The extractor's steps keep the books. *)
LEMMA BudgetExtractor ==
    ASSUME Shape, BudgetBooks, ExtractorStep
    PROVE  BudgetBooks' /\ ChargeStep
  <1> USE BudgetAssumption DEF BudgetBooks, ChargeStep
  <1>1. CASE NewDay
    <2>1. UNCHANGED <<request, spent, commands>> /\ day' = day + 1 /\ escalated' = 0
      BY <1>1, Zenon DEF NewDay
    <2>2. spent <= (day - 1) * MaxPerDay + escalated
      OBVIOUS
    <2>3. day \in Nat /\ escalated \in 0 .. MaxPerDay /\ spent \in Nat
      BY DEF Shape, TypeOK
    <2>4. spent' <= (day' - 1) * MaxPerDay + escalated'
      <3>1. (day - 1) * MaxPerDay + escalated <= ((day + 1) - 1) * MaxPerDay + 0
        BY <2>3, DayArithmetic
      <3>2. (day - 1) * MaxPerDay \in Int /\ ((day + 1) - 1) * MaxPerDay \in Int
        BY <2>3
      <3> QED
        BY <2>1, <2>2, <2>3, <3>1, <3>2
    <2> QED
      BY <2>1, <2>4 DEF Charged
  <1>2. ASSUME NEW j \in Jobs, ConsumeRenderBudget(j) PROVE BudgetBooks' /\ ChargeStep
    <2>1. CASE escalated <= Cap
      <3>1. /\ request[j] = "new" /\ request' = [request EXCEPT ![j] = "budgeted"]
            /\ escalated' = escalated + 1 /\ spent' = spent + 1 /\ UNCHANGED <<day, commands>>
        BY <1>2, <2>1, Zenon DEF ConsumeRenderBudget
      <3>2. Charged' = Charged \cup {j} /\ j \notin Charged
        BY <3>1 DEF Shape, TypeOK, Charged
      <3>3. \A i \in Jobs : request'[i] = "budgeted" => i \notin commands
        BY <3>1, <3>2 DEF Shape, TypeOK
      <3>4. spent' <= (day' - 1) * MaxPerDay + escalated'
        BY <3>1 DEF Shape, TypeOK
      <3> QED
        BY <3>1, <3>2, <3>3, <3>4
    <2>2. CASE ~(escalated <= Cap)
      <3>1. /\ request[j] = "new" /\ request' = [request EXCEPT ![j] = "denied"]
            /\ UNCHANGED <<escalated, spent, day, commands>>
        BY <1>2, <2>2, Zenon DEF ConsumeRenderBudget
      <3>2. /\ Charged' = Charged
            /\ \A i \in Jobs : request'[i] = "budgeted" => request[i] = "budgeted"
        BY <3>1 DEF Shape, TypeOK, Charged
      <3> QED
        BY <3>1, <3>2
    <2> QED
      BY <2>1, <2>2
  <1>3. ASSUME NEW j \in Jobs, PublishCommand(j) PROVE BudgetBooks' /\ ChargeStep
    <2>1. PICK to \in {"awaiting", "transport"} : request' = [request EXCEPT ![j] = to]
      BY <1>3, Zenon DEF PublishCommand
    <2>2. /\ commands' \subseteq commands \cup {j} /\ request[j] \in Open
          /\ UNCHANGED <<day, escalated, spent>>
      BY <1>3, Zenon DEF PublishCommand, Open
    <2>3. /\ Charged' = Charged /\ j \in Charged
          /\ \A i \in Jobs : request'[i] = "budgeted" => request[i] = "budgeted" /\ i # j
      BY <2>1, <2>2, ChargedStays, Zenon
    <2> QED
      BY <2>2, <2>3
  <1>4. ASSUME NEW j \in Jobs, Pull(j) PROVE BudgetBooks' /\ ChargeStep
    <2>1. UNCHANGED <<day, escalated, spent, commands>> /\ request[j] \in Open
      BY <1>4, Zenon DEF Pull, Open
    <2>2. UNCHANGED request \/ request' = [request EXCEPT ![j] = "answered"]
      BY <1>4, Zenon DEF Pull
    <2>3. /\ Charged' = Charged
          /\ \A i \in Jobs : request'[i] = "budgeted" => request[i] = "budgeted"
      <3>1. CASE UNCHANGED request
        BY <3>1 DEF Charged
      <3>2. CASE request' = [request EXCEPT ![j] = "answered"]
        BY <2>1, <3>2, ChargedStays, Zenon
      <3> QED
        BY <2>2, <3>1, <3>2
    <2> QED
      BY <2>1, <2>3
  <1>5. ASSUME NEW j \in Jobs, AwaitEnds(j) PROVE BudgetBooks' /\ ChargeStep
    <2>1. PICK to \in {"timeout", "transport", "gone"} : request' = [request EXCEPT ![j] = to]
      BY <1>5, Zenon DEF AwaitEnds
    <2>2. UNCHANGED <<day, escalated, spent, commands>> /\ request[j] \in Open
      BY <1>5, Zenon DEF AwaitEnds
    <2>3. /\ Charged' = Charged
          /\ \A i \in Jobs : request'[i] = "budgeted" => request[i] = "budgeted"
      BY <2>1, <2>2, ChargedStays, Zenon
    <2> QED
      BY <2>2, <2>3
  <1> QED
    BY <1>1, <1>2, <1>3, <1>4, <1>5 DEF ExtractorStep

(* So do all steps. *)
LEMMA BudgetNext ==
    ASSUME Shape, BudgetBooks, [Next]_vars
    PROVE  BudgetBooks' /\ ChargeStep
  <1>1. CASE BusStep \/ UNCHANGED vars
    <2>1. UNCHANGED <<request, day, escalated, spent, commands>>
      BY <1>1, BusKeepsExtractor, Zenon DEF vars, extractor
    <2> QED
      BY <2>1 DEF BudgetBooks, ChargeStep, Charged
  <1> QED
    BY <1>1, BudgetExtractor DEF Next, ExtractorStep, BusStep

-----------------------------------------------------------------------------
(* The steps of a request that waits.                                      *)

(* Requests that wait at the same time are exposed, and one that is not    *)
(* has not been handed its event.                                          *)
AwaitInv ==
    /\ \A i, j \in Awaiting : i # j => i \in exposed
    /\ AwaitedNotDropped

(* A step that starts no wait, reads nothing and exposes no less keeps it. *)
LEMMA AwaitQuiet ==
    ASSUME Shape, AwaitInv, [Next]_vars, UNCHANGED <<cursor, exposed>>, Awaiting' \subseteq Awaiting
    PROVE  AwaitInv'
  <1>1. cursor \in 0 .. Len(events) /\ Len(events) \in Nat
    BY DEF Shape, TypeOK, BufferInv
  <1>2. \A i \in 1 .. cursor : events'[i] = events[i]
    BY <1>1, EventsGrow
  <1> QED
    BY <1>2, Zenon DEF AwaitInv, AwaitedNotDropped

(* The wait of a request that is alone with whole batches is never in      *)
(* vain: its own pulls are the only ones, and they stop at its event.      *)
LEMMA AwaitNext ==
    ASSUME Shape, BudgetBooks, AwaitInv, [Next]_vars
    PROVE  AwaitInv'
  <1>0. request \in [Jobs -> {"new"} \cup Open \cup Closed]
    BY DEF Shape, TypeOK
  <1>1. CASE UNCHANGED <<request, cursor, exposed>>
    BY <1>1, AwaitQuiet, Zenon DEF Awaiting
  <1>2. ASSUME NEW j \in Jobs, ConsumeRenderBudget(j) \/ AwaitEnds(j) PROVE AwaitInv'
    <2>1. PICK to \in {"budgeted", "denied", "timeout", "transport", "gone"} :
             request' = [request EXCEPT ![j] = to]
      BY <1>2, Zenon DEF ConsumeRenderBudget, AwaitEnds
    <2>2. UNCHANGED <<cursor, exposed>>
      BY <1>2, Zenon DEF ConsumeRenderBudget, AwaitEnds
    <2>3. Awaiting' \subseteq Awaiting
      BY <1>0, <2>1 DEF Awaiting
    <2> QED
      BY <2>2, <2>3, AwaitQuiet, Zenon
  <1>3. ASSUME NEW j \in Jobs, PublishCommand(j) PROVE AwaitInv'
    <2>1. CASE request' = [request EXCEPT ![j] = "transport"] /\ UNCHANGED <<cursor, exposed>>
      <3>1. Awaiting' \subseteq Awaiting
        BY <1>0, <2>1 DEF Awaiting
      <3> QED
        BY <2>1, <3>1, AwaitQuiet, Zenon
    <2>2. CASE /\ request' = [request EXCEPT ![j] = "awaiting"] /\ UNCHANGED <<cursor, events>>
               /\ exposed' = IF Awaiting = {} THEN exposed ELSE exposed \cup Awaiting \cup {j}
      <3>1. Awaiting' = Awaiting \cup {j}
        BY <1>0, <2>2 DEF Awaiting
      <3>2. \A i \in 1 .. cursor : events[i] # j
        <4>1. j \notin commands
          BY <1>3, Zenon DEF PublishCommand, BudgetBooks
        <4>2. \A i \in 1 .. cursor : i \in 1 .. Len(events)
          BY DEF Shape, TypeOK, BufferInv
        <4> QED
          BY <4>1, <4>2, Zenon DEF Shape, TypeOK
      <3> QED
        BY <2>2, <3>1, <3>2, Zenon DEF AwaitInv, AwaitedNotDropped
    <2> QED
      BY <1>3, <2>1, <2>2, Zenon DEF PublishCommand, BusRest
  <1>4. ASSUME NEW j \in Jobs, Pull(j) PROVE AwaitInv'
    <2> DEFINE upto == IF cursor + Batch < Len(events) THEN cursor + Batch ELSE Len(events)
    <2>1. PICK read \in cursor .. upto :
             /\ cursor' = upto
             /\ request' = IF \E i \in cursor + 1 .. read : events[i] = j
                           THEN [request EXCEPT ![j] = "answered"] ELSE request
             /\ \/ read = upto /\ UNCHANGED exposed
                \/ exposed' = exposed \cup {j}
      BY <1>4, Zenon DEF Pull
    <2>2. j \in Awaiting /\ UNCHANGED events
      BY <1>4, Zenon DEF Pull, BusRest, Awaiting
    <2>3. upto \in Int /\ cursor \in Int
      BY BusAssumption DEF Shape, TypeOK, BufferInv
    <2> HIDE DEF upto
    <2>4. Awaiting' \subseteq Awaiting /\ exposed \subseteq exposed'
      BY <1>0, <2>1 DEF Awaiting
    <2>5. \A i \in Awaiting' \ exposed' : i = j /\ i \notin exposed
      BY <2>2, <2>4, Zenon DEF AwaitInv
    <2>6. ASSUME j \in Awaiting', j \notin exposed' PROVE \A i \in 1 .. cursor' : events[i] # j
      <3>1. read = upto
        BY <2>1, <2>6, Zenon
      <3>2. \A i \in cursor + 1 .. upto : events[i] # j
        BY <1>0, <2>1, <2>6, <3>1 DEF Awaiting
      <3>3. \A i \in 1 .. cursor : events[i] # j
        BY <2>2, <2>4, <2>6, Zenon DEF AwaitInv, AwaitedNotDropped
      <3> QED
        BY <2>1, <2>3, <3>2, <3>3
    <2>7. AwaitedNotDropped'
      BY <2>2, <2>5, <2>6, Zenon DEF AwaitedNotDropped
    <2> QED
      BY <2>4, <2>7, Zenon DEF AwaitInv
  <1>6. \/ UNCHANGED <<request, cursor, exposed>>
        \/ \E j \in Jobs : ConsumeRenderBudget(j) \/ PublishCommand(j) \/ Pull(j) \/ AwaitEnds(j)
    <2>1. CASE NewDay
      BY <2>1, Zenon DEF NewDay
    <2>2. CASE BusStep
      BY <2>2, BusKeepsExtractor, Zenon DEF extractor
    <2>3. CASE UNCHANGED vars
      BY <2>3, Zenon DEF vars, extractor
    <2> QED
      BY <2>1, <2>2, <2>3, Zenon DEF Next, BusStep
  <1> QED
    BY <1>1, <1>2, <1>3, <1>4, <1>6, Zenon

-----------------------------------------------------------------------------
(* The steps of a worker, and the books they keep.                         *)

One(p) == IF p THEN 1 ELSE 0
InWork(b) == stage[b] \in {"render", "publish"}
InMiddle(b) == stage[b] \in {"render", "publish", "mark"}
Elsewhere(b, j) == \E c \in Browsers \ {b} : InHand(c, j)
Works(b, j) == InHand(b, j) /\ stage[b] # "mark"
Claims(b, j) == j \in markers \/ Elsewhere(b, j) \/ InHand(b, j)

(* Worker b, with k in hand, adds dc events of k and de excuses for it. *)
Moves(b, k, dc, de) ==
    /\ Len(buffer[b]) > 0 /\ k = Head(buffer[b])
    /\ \A c \in Browsers \ {b} : stage'[c] = stage[c] /\ buffer'[c] = buffer[c]
    /\ InMiddle(b)' => buffer'[b] = buffer[b]
    /\ IF dc = 1 THEN events' = Append(events, k) ELSE UNCHANGED events
    /\ IF de = 1 THEN Excuse(k) ELSE UNCHANGED excuse
    /\ markers' = markers \/ markers' = markers \cup {k}

(* What it adds, and the claim of its own work, is covered. *)
Balanced(b, k, dc, de) ==
    dc + One(InWork(b)') + One(k \in markers \/ Elsewhere(b, k) \/ InMiddle(b))
        <= de + One(InWork(b)) + One(k \in markers' \/ Elsewhere(b, k) \/ InMiddle(b)')

(* A step that neither publishes, marks nor excuses, and leaves everyone's *)
(* job in hand.                                                            *)
Silent ==
    /\ UNCHANGED <<events, markers, excuse>>
    /\ \A b \in Browsers, j \in Jobs :
          (InHand(b, j)' <=> InHand(b, j)) /\ (InHand(b, j) => stage'[b] = stage[b])

BalancedMove == \E b \in Browsers, k \in Jobs, dc, de \in {0, 1} :
                    Moves(b, k, dc, de) /\ Balanced(b, k, dc, de)

(* A worker's step leaves the other workers alone. *)
LEMMA OthersStay ==
    ASSUME Shape, NEW b \in Browsers, Handle(b) \/ BrowserCrash(b) \/ BrowserRestart(b)
    PROVE  \A c \in Browsers \ {b} : stage'[c] = stage[c] /\ buffer'[c] = buffer[c]
  <1>1. PICK to : stage' = [stage EXCEPT ![b] = to]
    BY Zenon DEF Handle, LookUpMarker, Render, PublishEvent, PutMarker, Acknowledge,
                 BrowserCrash, BrowserRestart, Goto
  <1>2. PICK some : buffer' = buffer \/ buffer' = [buffer EXCEPT ![b] = some]
    BY Zenon DEF Handle, LookUpMarker, Render, PublishEvent, PutMarker, Acknowledge,
                 BrowserCrash, BrowserRestart, Drop
  <1> QED
    BY <1>1, <1>2 DEF Shape, TypeOK, BufferInv

(* A worker's handling of a message is in balance: each way to end it      *)
(* without a marker after an event was published carries its excuse.       *)
LEMMA HandleBalances ==
    ASSUME Shape, NEW b \in Browsers, Handle(b)
    PROVE  BalancedMove
  <1>0. PICK k : k = Head(buffer[b])
    OBVIOUS
  <1>1. Len(buffer[b]) > 0
    BY Zenon DEF Handle, LookUpMarker, Render, PublishEvent, PutMarker, Acknowledge, Shape,
                 BufferInv, Working
  <1>2. k \in Jobs
    BY <1>0, <1>1, HandIsCommand
  <1>3. \A c \in Browsers \ {b} : stage'[c] = stage[c] /\ buffer'[c] = buffer[c]
    BY OthersStay
  <1>4. stage \in [Browsers -> Stages] /\ buffer \in [Browsers -> Seq(Jobs)]
    BY DEF Shape, TypeOK, BufferInv
  <1> DEFINE m == k \in markers
             mm == k \in markers'
             o == Elsewhere(b, k)
  <1> USE DEF Goto
  <1>5. CASE LookUpMarker(b)
    <2>1. UNCHANGED <<events, markers, buffer>> /\ stage[b] = "idle"
      BY <1>5, Zenon DEF LookUpMarker
    <2>2. \/ m /\ stage'[b] = "skip" /\ UNCHANGED excuse
          \/ m /\ stage'[b] = "render" /\ Excuse(k)
          \/ ~ m /\ stage'[b] = "render" /\ IF o THEN Excuse(k) ELSE UNCHANGED excuse
      BY <1>0, <1>4, <1>5, Zenon DEF LookUpMarker, NoFault, Elsewhere
    <2>3. PICK de \in {0, 1} : /\ IF de = 1 THEN Excuse(k) ELSE UNCHANGED excuse
                               /\ stage'[b] = "skip" \/ (stage'[b] = "render" /\ (m \/ o <=> de = 1))
      <3>1. CASE UNCHANGED excuse /\ (stage'[b] = "skip" \/ (stage'[b] = "render" /\ ~ m /\ ~ o))
        <4> WITNESS 0 \in {0, 1}
        <4> QED
          BY <3>1
      <3>2. CASE Excuse(k) /\ stage'[b] = "render" /\ (m \/ o)
        <4> WITNESS 1 \in {0, 1}
        <4> QED
          BY <3>2
      <3> QED
        BY <2>2, <3>1, <3>2
    <2>4. Moves(b, k, 0, de)
      BY <1>0, <1>1, <1>3, <2>1, <2>3 DEF Moves
    <2>5. Balanced(b, k, 0, de)
      BY <2>1, <2>3 DEF Balanced, One, InWork, InMiddle
    <2> QED
      BY <1>2, <2>4, <2>5 DEF BalancedMove
  <1>6. CASE Render(b)
    <2>1. /\ UNCHANGED <<events, markers, excuse>> /\ stage[b] = "render"
          /\ (stage'[b] = "publish" /\ UNCHANGED buffer) \/ stage'[b] = "idle"
      BY <1>4, <1>6, Zenon DEF Render
    <2>2. Moves(b, k, 0, 0)
      BY <1>0, <1>1, <1>3, <2>1 DEF Moves, InMiddle
    <2>3. Balanced(b, k, 0, 0)
      BY <2>1 DEF Balanced, One, InWork, InMiddle
    <2> QED
      BY <1>2, <2>2, <2>3 DEF BalancedMove
  <1>7. CASE PublishEvent(b)
    <2>1. UNCHANGED markers /\ stage[b] = "publish"
      BY <1>7, Zenon DEF PublishEvent
    <2>2. \/ events' = Append(events, k) /\ stage'[b] = "mark" /\ UNCHANGED <<buffer, excuse>>
          \/ events' = Append(events, k) /\ stage'[b] = "idle" /\ Excuse(k)
          \/ stage'[b] = "idle" /\ UNCHANGED <<events, excuse>>
      BY <1>0, <1>4, <1>7, Zenon DEF PublishEvent
    <2>3. PICK dc \in {0, 1}, de \in {0, 1} :
             /\ IF dc = 1 THEN events' = Append(events, k) ELSE UNCHANGED events
             /\ IF de = 1 THEN Excuse(k) ELSE UNCHANGED excuse
             /\ \/ dc = 1 /\ de = 0 /\ stage'[b] = "mark" /\ UNCHANGED buffer
                \/ dc = de /\ stage'[b] = "idle"
      BY <2>2
    <2>4. Moves(b, k, dc, de)
      BY <1>0, <1>1, <1>3, <2>1, <2>3 DEF Moves, InMiddle
    <2>5. Balanced(b, k, dc, de)
      BY <2>1, <2>3 DEF Balanced, One, InWork, InMiddle
    <2> QED
      BY <1>2, <2>4, <2>5 DEF BalancedMove
  <1>8. CASE PutMarker(b)
    <2>1. UNCHANGED <<events, buffer>> /\ stage[b] = "mark" /\ stage'[b] = "ack"
      BY <1>4, <1>8, Zenon DEF PutMarker
    <2>2. \/ markers' = markers \cup {k} /\ UNCHANGED excuse
          \/ UNCHANGED markers /\ Excuse(k)
      BY <1>0, <1>8, Zenon DEF PutMarker, NoFault
    <2>3. PICK de \in {0, 1} :
             /\ IF de = 1 THEN Excuse(k) ELSE UNCHANGED excuse
             /\ markers' = markers \/ markers' = markers \cup {k}
             /\ de = 0 => mm
      BY <2>2
    <2>4. Moves(b, k, 0, de)
      BY <1>0, <1>1, <1>3, <2>1, <2>3 DEF Moves
    <2>5. Balanced(b, k, 0, de)
      BY <2>1, <2>3 DEF Balanced, One, InWork, InMiddle
    <2> QED
      BY <1>2, <2>4, <2>5 DEF BalancedMove
  <1>9. CASE Acknowledge(b)
    <2>1. /\ UNCHANGED <<events, markers, excuse>>
          /\ stage[b] \in {"ack", "skip"} /\ stage'[b] \in {"idle", "down"}
      BY <1>4, <1>9, Zenon DEF Acknowledge
    <2>2. Moves(b, k, 0, 0)
      BY <1>0, <1>1, <1>3, <2>1 DEF Moves, InMiddle
    <2>3. Balanced(b, k, 0, 0)
      BY <2>1 DEF Balanced, One, InWork, InMiddle
    <2> QED
      BY <1>2, <2>2, <2>3 DEF BalancedMove
  <1> QED
    BY <1>5, <1>6, <1>7, <1>8, <1>9 DEF Handle

(* Every other step is, or is silent. *)
LEMMA StepsBalance ==
    ASSUME Shape, [Next]_vars
    PROVE  Silent \/ BalancedMove
  <1>1. CASE UNCHANGED <<events, markers, excuse, buffer, stage>>
    <2>1. \A b \in Browsers, j \in Jobs : (InHand(b, j)' <=> InHand(b, j)) /\ stage'[b] = stage[b]
      BY <1>1 DEF InHand
    <2> QED
      BY <1>1, <2>1 DEF Silent
  <1>2. ASSUME NEW b \in Browsers, NEW j \in Jobs, Deliver(b, j) PROVE Silent \/ BalancedMove
    <2>1. /\ UNCHANGED <<events, markers, excuse, stage>>
          /\ buffer' = [buffer EXCEPT ![b] = Append(@, j)]
      BY <1>2, Zenon DEF Deliver, NoFault
    <2>2. \A c \in Browsers : stage[c] \in Working =>
             /\ Len(buffer'[c]) > 0 /\ Len(buffer[c]) > 0 /\ Head(buffer'[c]) = Head(buffer[c])
      <3> SUFFICES ASSUME NEW c \in Browsers, stage[c] \in Working
                   PROVE  Len(buffer'[c]) > 0 /\ Len(buffer[c]) > 0 /\ Head(buffer'[c]) = Head(buffer[c])
        OBVIOUS
      <3>1. Len(buffer[c]) > 0 /\ buffer[c] \in Seq(Jobs)
        BY DEF Shape, BufferInv
      <3>2. buffer'[c] = buffer[c] \/ buffer'[c] = Append(buffer[c], j)
        BY <2>1, Zenon DEF Shape, BufferInv
      <3> QED
        BY <3>1, <3>2, Appended
    <2>3. \A c \in Browsers, i \in Jobs : InHand(c, i)' <=> InHand(c, i)
      BY <2>1, <2>2 DEF InHand, Working
    <2> QED
      BY <2>1, <2>3 DEF Silent
  <1>3. ASSUME NEW b \in Browsers, BrowserCrash(b) \/ BrowserRestart(b) PROVE Silent \/ BalancedMove
    <2>1. UNCHANGED <<events, markers>> /\ stage'[b] \in {"idle", "down"}
      BY <1>3, Zenon DEF BrowserCrash, BrowserRestart, Goto, Shape, TypeOK
    <2>2. \A c \in Browsers \ {b} : stage'[c] = stage[c] /\ buffer'[c] = buffer[c]
      BY <1>3, OthersStay
    <2>3. CASE InMiddle(b)
      <3>1. PICK k : k = Head(buffer[b])
        OBVIOUS
      <3>2. Len(buffer[b]) > 0
        BY <2>3 DEF InMiddle, Shape, BufferInv, Working
      <3>3. k \in Jobs
        BY <3>1, <3>2, HandIsCommand
      <3>4. PICK de \in {0, 1} : /\ IF de = 1 THEN Excuse(k) ELSE UNCHANGED excuse
                                 /\ de = 0 => stage[b] # "mark"
        BY <1>3, <2>3, <3>1 DEF BrowserCrash, BrowserRestart, InMiddle
      <3>5. Moves(b, k, 0, de)
        BY <2>1, <2>2, <3>1, <3>2, <3>4 DEF Moves, InMiddle
      <3>6. Balanced(b, k, 0, de)
        BY <2>1, <2>3, <3>4 DEF Balanced, One, InWork, InMiddle
      <3> QED
        BY <3>3, <3>5, <3>6 DEF BalancedMove
    <2>4. CASE ~ InMiddle(b)
      <3>1. UNCHANGED excuse
        BY <1>3, <2>4 DEF BrowserCrash, BrowserRestart, NoFault, InMiddle
      <3>2. \A c \in Browsers, i \in Jobs :
              (InHand(c, i)' <=> InHand(c, i)) /\ (InHand(c, i) => stage'[c] = stage[c])
        BY <2>1, <2>2, <2>4 DEF InHand, InMiddle
      <3> QED
        BY <2>1, <3>1, <3>2 DEF Silent
    <2> QED
      BY <2>3, <2>4
  <1>4. \/ UNCHANGED <<events, markers, excuse, buffer, stage>>
        \/ \E b \in Browsers : \/ \E j \in Jobs : Deliver(b, j)
                               \/ Handle(b) \/ BrowserCrash(b) \/ BrowserRestart(b)
    BY ExtractorKeepsBus, Zenon DEF Next, vars, browser, ExtractorStep, AckWaitExpires
  <1> QED
    BY <1>1, <1>2, <1>3, <1>4, HandleBalances

(* Workers that will publish an event of j, unless something goes wrong. *)
Rendering(j) == {b \in Browsers : InHand(b, j) /\ stage[b] # "mark"}

(* One event needs no excuse, as long as a marker or a worker in the       *)
(* middle of the job accounts for it.                                      *)
Allowed(j) == IF j \in markers \/ \E b \in Browsers : InHand(b, j) THEN 1 ELSE 0

OnceInv == \A j \in Jobs : Count(j) + Cardinality(Rendering(j)) <= excuse[j] + Allowed(j)

(* What counting has to say about the events and about a step of b. *)
CountFacts ==
    \A j \in Jobs : /\ Count(j) \in Nat
                    /\ \A k \in Jobs : events' = Append(events, k)
                          => Count(j)' = Count(j) + (IF j = k THEN 1 ELSE 0)

AccountFacts(b) ==
    \A j \in Jobs : (\A c \in Browsers \ {b} : (InHand(c, j)' <=> InHand(c, j)) /\ stage'[c] = stage[c])
        => \E n \in Nat :
             /\ Cardinality(Rendering(j)) = n + One(Works(b, j))
             /\ Cardinality(Rendering(j)') = n + One(Works(b, j)')
             /\ Allowed(j) = One(Claims(b, j))
             /\ Allowed(j)' = One(Claims(b, j)')
             /\ Elsewhere(b, j)' <=> Elsewhere(b, j)

(* A silent step leaves the accounts alone. *)
LEMMA OnceSilent ==
    ASSUME OnceInv, Silent
    PROVE  OnceInv'
  <1> SUFFICES ASSUME NEW j \in Jobs
               PROVE  (Count(j) + Cardinality(Rendering(j)) <= excuse[j] + Allowed(j))'
    BY DEF OnceInv
  <1>1. Rendering(j)' = Rendering(j)
    BY DEF Rendering, Silent
  <1>2. Allowed(j)' = Allowed(j) /\ Count(j)' = Count(j)
    BY DEF Allowed, Count, Silent
  <1> QED
    BY <1>1, <1>2 DEF OnceInv, Silent

(* What such a step does to the books of a job j. *)
LEMMA MovesBooks ==
    ASSUME Shape, NEW b \in Browsers, NEW k \in Jobs, NEW dc \in {0, 1}, NEW de \in {0, 1},
           Moves(b, k, dc, de), NEW j \in Jobs, CountFacts
    PROVE  /\ excuse'[j] = excuse[j] + (IF j = k THEN de ELSE 0) /\ excuse[j] \in Nat
           /\ Count(j)' = Count(j) + (IF j = k THEN dc ELSE 0) /\ Count(j) \in Nat
  <1>1. excuse \in [Jobs -> Nat]
    BY DEF Shape, TypeOK
  <1>2. excuse'[j] = excuse[j] + (IF j = k THEN de ELSE 0) /\ excuse[j] \in Nat
    <2>1. CASE de = 1
      <3>1. excuse' = [excuse EXCEPT ![k] = @ + 1]
        BY <2>1, Zenon DEF Moves, Excuse
      <3> QED
        BY <1>1, <2>1, <3>1
    <2>2. CASE de = 0
      <3>1. UNCHANGED excuse
        BY <2>2 DEF Moves
      <3> QED
        BY <1>1, <2>2, <3>1
    <2> QED
      BY <2>1, <2>2
  <1>3. Count(j)' = Count(j) + (IF j = k THEN dc ELSE 0) /\ Count(j) \in Nat
    <2>1. CASE dc = 1
      <3>1. events' = Append(events, k)
        BY <2>1, Zenon DEF Moves
      <3> QED
        BY <2>1, <3>1 DEF CountFacts
    <2>2. CASE dc = 0
      <3>1. UNCHANGED events
        BY <2>2 DEF Moves
      <3>2. Count(j)' = Count(j)
        BY <3>1, Zenon DEF Count
      <3> QED
        BY <2>2, <3>2 DEF CountFacts
    <2> QED
      BY <2>1, <2>2
  <1> QED
    BY <1>2, <1>3

(* Such a step keeps the accounts when it keeps k's own in balance. *)
LEMMA OnceMoves ==
    ASSUME Shape, OnceInv, NEW b \in Browsers, NEW k \in Jobs, NEW dc \in {0, 1}, NEW de \in {0, 1},
           Moves(b, k, dc, de), Balanced(b, k, dc, de), CountFacts, AccountFacts(b)
    PROVE  OnceInv'
  <1> SUFFICES ASSUME NEW j \in Jobs
               PROVE  (Count(j) + Cardinality(Rendering(j)) <= excuse[j] + Allowed(j))'
    BY DEF OnceInv
  <1>1. /\ \A c \in Browsers \ {b} : stage'[c] = stage[c] /\ buffer'[c] = buffer[c]
        /\ Len(buffer[b]) > 0 /\ k = Head(buffer[b])
        /\ InMiddle(b)' => buffer'[b] = buffer[b]
        /\ markers' = markers \/ markers' = markers \cup {k}
    BY Zenon DEF Moves
  <1>2. \A c \in Browsers \ {b} : (InHand(c, j)' <=> InHand(c, j)) /\ stage'[c] = stage[c]
    BY <1>1 DEF InHand
  <1>3. PICK n \in Nat :
             /\ Cardinality(Rendering(j)) = n + One(Works(b, j))
             /\ Cardinality(Rendering(j)') = n + One(Works(b, j)')
             /\ Allowed(j) = One(Claims(b, j))
             /\ Allowed(j)' = One(Claims(b, j)')
             /\ Elsewhere(b, j)' <=> Elsewhere(b, j)
    BY <1>2, Zenon DEF AccountFacts
  <1>4. /\ excuse'[j] = excuse[j] + (IF j = k THEN de ELSE 0) /\ excuse[j] \in Nat
        /\ Count(j)' = Count(j) + (IF j = k THEN dc ELSE 0) /\ Count(j) \in Nat
    BY MovesBooks
  <1>5. Count(j) + Cardinality(Rendering(j)) <= excuse[j] + Allowed(j)
    BY DEF OnceInv
  <1>6. /\ InHand(b, j) <=> j = k /\ InMiddle(b)
        /\ InHand(b, j)' <=> j = k /\ InMiddle(b)'
    BY <1>1 DEF InHand, InMiddle
  <1>9. Elsewhere(b, j)' <=> Elsewhere(b, j)
    BY <1>3, Zenon
  <1>7. CASE j # k
    <2>1. j \in markers' <=> j \in markers
      BY <1>1, <1>7
    <2>2. ~ InHand(b, j) /\ ~ InHand(b, j)'
      BY <1>6, <1>7
    <2>3. One(Works(b, j)') = One(Works(b, j)) /\ One(Claims(b, j)') = One(Claims(b, j))
      BY <1>9, <2>1, <2>2, Zenon DEF One, Works, Claims
    <2>4. excuse'[j] = excuse[j] /\ Count(j)' = Count(j)
      BY <1>4, <1>7
    <2>5. /\ Cardinality(Rendering(j))' = Cardinality(Rendering(j)) /\ Allowed(j)' = Allowed(j)
      BY <1>3, <2>3, Zenon
    <2> QED
      BY <1>5, <2>4, <2>5, Zenon
  <1>8. CASE j = k
    <2>0. (InHand(b, j) <=> InMiddle(b)) /\ (InHand(b, j)' <=> InMiddle(b)')
      BY <1>6, <1>8
    <2>7. One(Works(b, j)) = One(InWork(b)) /\ One(Works(b, j)') = One(InWork(b)')
      BY <2>0 DEF One, Works, InMiddle, InWork
    <2>1. /\ One(Claims(b, j)) = One(k \in markers \/ Elsewhere(b, k) \/ InMiddle(b))
          /\ One(Claims(b, j)') = One(k \in markers' \/ Elsewhere(b, k) \/ InMiddle(b)')
      BY <1>9, <1>8, <2>0, Zenon DEF One, Claims
    <2>2. /\ One(Works(b, j)) \in Nat /\ One(Works(b, j)') \in Nat
          /\ One(Claims(b, j)) \in Nat /\ One(Claims(b, j)') \in Nat
      BY DEF One
    <2>3. dc + One(Works(b, j)') + One(Claims(b, j)) <= de + One(Works(b, j)) + One(Claims(b, j)')
      BY <2>7, <2>1 DEF Balanced
    <2>4. excuse'[j] = excuse[j] + de /\ Count(j)' = Count(j) + dc
      BY <1>4, <1>8
    <2>5. Count(j) + (n + One(Works(b, j))) <= excuse[j] + One(Claims(b, j))
      BY <1>3, <1>5
    <2>8. Count(j) \in Nat /\ excuse[j] \in Nat /\ dc \in Nat /\ de \in Nat
      BY <1>4
    <2>6. (Count(j) + dc) + (n + One(Works(b, j)')) <= (excuse[j] + de) + One(Claims(b, j)')
      BY <2>8, <2>2, <2>3, <2>5
    <2> QED
      BY <1>3, <2>4, <2>6
  <1> QED
    BY <1>7, <1>8

-----------------------------------------------------------------------------
(* Counting.                                                               *)

INSTANCE FiniteSetTheorems

(* Every slot is one job's. *)
BudgetInv == Cardinality(Charged) = spent /\ BudgetBooks

(* The budget is inductive, and bounds what is published. *)
LEMMA BudgetIsInvariant == Spec => [](Shape /\ BudgetInv)
  <1>1. Init => Shape /\ BudgetInv
    <2> SUFFICES ASSUME Init PROVE BudgetInv
      BY ShapeInit
    <2>1. Charged = {}
      BY DEF Init, Charged
    <2>2. spent = 0 /\ escalated = 0 /\ day = 1 /\ commands = {} /\ \A j \in Jobs : request[j] = "new"
      BY DEF Init
    <2> QED
      BY <2>1, <2>2, FS_EmptySet, BudgetAssumption DEF BudgetInv, BudgetBooks
  <1>2. Shape /\ BudgetInv /\ [Next]_vars => (Shape /\ BudgetInv)'
    <2> SUFFICES ASSUME Shape, BudgetInv, [Next]_vars PROVE BudgetInv'
      BY ShapeNext
    <2>1. BudgetBooks' /\ ChargeStep
      BY BudgetNext DEF BudgetInv
    <2>2. IsFiniteSet(Charged)
      BY FS_Subset, JobsAssumption DEF Charged
    <2>3. Cardinality(Charged') = spent'
      BY <2>1, <2>2, FS_AddElement DEF ChargeStep, BudgetInv
    <2> QED
      BY <2>1, <2>3 DEF BudgetInv
  <1> QED
    BY <1>1, <1>2, PTL DEF Spec

(* No more commands are in the stream than the budgets of the days so far  *)
(* allow, for any budget, number of jobs, workers and faults: the counter, *)
(* the commands and the requests agree (consume_render_budget).            *)
THEOREM RenderBudgetHolds == Spec => []BudgetRespected
  <1>1. Shape /\ BudgetInv => BudgetRespected
    <2> SUFFICES ASSUME Shape, BudgetInv PROVE BudgetRespected
      OBVIOUS
    <2>1. Cardinality(commands) <= spent
      <3>1. IsFiniteSet(Charged)
        BY FS_Subset, JobsAssumption DEF Charged
      <3> QED
        BY <3>1, FS_Subset DEF BudgetInv, BudgetBooks
    <2>2. spent <= day * MaxPerDay
      <3>1. day \in Nat /\ escalated \in 0 .. MaxPerDay /\ spent \in Nat /\ MaxPerDay \in Nat
        BY BudgetAssumption DEF Shape, TypeOK
      <3>2. (day - 1) * MaxPerDay = day * MaxPerDay - MaxPerDay /\ day * MaxPerDay \in Int
        BY <3>1
      <3> QED
        BY <3>1, <3>2 DEF BudgetInv, BudgetBooks
    <2> QED
      BY <2>1, <2>2 DEF BudgetRespected, Shape
  <1> QED
    BY <1>1, BudgetIsInvariant, PTL

(* A request that waits alone on the shared durable and whose batches come *)
(* whole never misses its result, whatever the batch size, the number of   *)
(* worker loops and however late older results arrive (request_render).    *)
THEOREM LoneWaiterMissesNothing == Spec => []AwaitedNotDropped
  <1>1. Init => AwaitInv
    BY DEF Init, AwaitInv, AwaitedNotDropped, Awaiting
  <1>2. Shape /\ BudgetInv /\ AwaitInv /\ [Next]_vars => AwaitInv'
    BY AwaitNext DEF BudgetInv
  <1>3. AwaitInv => AwaitedNotDropped
    BY DEF AwaitInv
  <1> QED
    BY <1>1, <1>2, <1>3, BudgetIsInvariant, PTL DEF Spec

(* A count is a number. *)
LEMMA CountType ==
    ASSUME Shape, NEW j
    PROVE  Count(j) \in Nat
  <1>1. Len(events) \in Nat
    BY DEF Shape, BufferInv
  <1>2. IsFiniteSet(1 .. Len(events))
    BY <1>1, FS_Interval
  <1> QED
    BY <1>2, FS_Subset, FS_CardinalityType DEF Count

(* Counting one more event. *)
LEMMA CountAppended ==
    ASSUME Shape, NEW k \in Jobs, NEW j \in Jobs, events' = Append(events, k)
    PROVE  Count(j)' = Count(j) + (IF j = k THEN 1 ELSE 0) /\ Count(j) \in Nat
  <1> DEFINE n == Len(events)
             at == {i \in 1 .. n : events[i] = j}
             after == {i \in 1 .. n + 1 : events'[i] = j}
  <1>1. /\ n \in Nat /\ Len(events') = n + 1 /\ events'[n + 1] = k
        /\ \A i \in 1 .. n : events'[i] = events[i]
    BY Appended DEF Shape, BufferInv
  <1>2. IsFiniteSet(at)
    <2>1. IsFiniteSet(1 .. n)
      <3>1. n \in Int
        BY <1>1
      <3> HIDE DEF n
      <3> QED
        BY <3>1, FS_Interval
    <2> QED
      BY <2>1, FS_Subset
  <1>3. n + 1 \notin at
    BY <1>1
  <1>4. after = IF j = k THEN at \cup {n + 1} ELSE at
    BY <1>1
  <1>5. Count(j) = Cardinality(at) /\ Count(j)' = Cardinality(after)
    BY <1>1 DEF Count
  <1> HIDE DEF at, after
  <1> QED
    BY <1>2, <1>3, <1>4, <1>5, FS_AddElement, FS_CardinalityType

(* What the accounts of a job say when only worker b moves: n workers      *)
(* other than b render it.                                                 *)
LEMMA Accounts ==
    ASSUME NEW b \in Browsers, NEW j,
           \A c \in Browsers \ {b} : (InHand(c, j)' <=> InHand(c, j)) /\ stage'[c] = stage[c]
    PROVE  \E n \in Nat :
             /\ Cardinality(Rendering(j)) = n + One(Works(b, j))
             /\ Cardinality(Rendering(j)') = n + One(Works(b, j)')
             /\ Allowed(j) = One(Claims(b, j))
             /\ Allowed(j)' = One(Claims(b, j)')
             /\ Elsewhere(b, j)' <=> Elsewhere(b, j)
  <1> DEFINE others == Rendering(j) \ {b}
  <1>1. IsFiniteSet(others) /\ b \notin others /\ Cardinality(others) \in Nat
    BY JobsAssumption, FS_Subset, FS_CardinalityType DEF Rendering
  <1>2. Rendering(j) = IF Works(b, j) THEN others \cup {b} ELSE others
    BY DEF Rendering, Works
  <1>3. Rendering(j)' = IF Works(b, j)' THEN others \cup {b} ELSE others
    BY DEF Rendering, Works
  <1>4. Allowed(j) = One(Claims(b, j)) /\ Allowed(j)' = One(Claims(b, j)')
    BY Zenon DEF Allowed, One, Claims, Elsewhere
  <1>5. Elsewhere(b, j)' <=> Elsewhere(b, j)
    BY DEF Elsewhere
  <1>6. Cardinality(others \cup {b}) = Cardinality(others) + 1
    BY <1>1, FS_AddElement, Zenon
  <1> HIDE DEF others
  <1>7. /\ Cardinality(Rendering(j)) = Cardinality(others) + One(Works(b, j))
        /\ Cardinality(Rendering(j)') = Cardinality(others) + One(Works(b, j)')
    BY <1>1, <1>2, <1>3, <1>6 DEF One
  <1> QED
    BY <1>1, <1>4, <1>5, <1>7, Zenon

(* A command yields one event, and another only for each fault between     *)
(* publication and marker or delivery to two workers at once, however      *)
(* often it is redelivered and whichever worker handles it (run_job with   *)
(* its completion marker).                                                 *)
THEOREM OneEventUnlessExcused == Spec => []OneEventPerCommand
  <1>1. Init => Shape /\ OnceInv
    <2> SUFFICES ASSUME Init, NEW j \in Jobs
                 PROVE  Count(j) + Cardinality(Rendering(j)) <= excuse[j] + Allowed(j)
      BY ShapeInit DEF OnceInv
    <2>1. Rendering(j) = {} /\ {i \in 1 .. Len(events) : events[i] = j} = {}
      BY DEF Init, Rendering, InHand
    <2>2. excuse[j] = 0 /\ Allowed(j) \in {0, 1}
      BY DEF Init, Allowed
    <2>3. Count(j) = 0 /\ Cardinality(Rendering(j)) = 0
      BY <2>1, FS_EmptySet DEF Count
    <2> QED
      BY <2>2, <2>3
  <1>2. Shape /\ OnceInv /\ [Next]_vars => (Shape /\ OnceInv)'
    <2> SUFFICES ASSUME Shape, OnceInv, [Next]_vars PROVE OnceInv'
      BY ShapeNext
    <2>1. CountFacts
      BY CountType, CountAppended DEF CountFacts
    <2>2. \A b \in Browsers : AccountFacts(b)
      BY Accounts, Zenon DEF AccountFacts
    <2> QED
      BY <2>1, <2>2, StepsBalance, OnceSilent, OnceMoves, Zenon DEF BalancedMove
  <1>3. Shape /\ OnceInv => OneEventPerCommand
    <2> SUFFICES ASSUME Shape, OnceInv, NEW j \in Jobs PROVE Count(j) <= 1 + excuse[j]
      BY DEF OneEventPerCommand
    <2>1. Cardinality(Rendering(j)) \in Nat
      BY JobsAssumption, FS_Subset, FS_CardinalityType DEF Rendering
    <2>2. Count(j) \in Nat
      BY CountType
    <2>3. excuse[j] \in Nat /\ Allowed(j) \in {0, 1}
      BY DEF Shape, TypeOK, Allowed
    <2> QED
      BY <2>1, <2>2, <2>3 DEF OnceInv
  <1> QED
    BY <1>1, <1>2, <1>3, PTL DEF Spec
=============================================================================
