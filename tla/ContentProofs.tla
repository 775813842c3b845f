---------------------------- MODULE ContentProofs ----------------------------
(***************************************************************************)
(* Proofs about what a run keeps.                                          *)
(*                                                                         *)
(* CandidateSelection, for all pages and texts: every score fits the unit  *)
(* interval of the table, the fold returns the first of the best accepted  *)
(* decisions, and no conversion is refused by its terminal transaction.    *)
(*                                                                         *)
(* MediaArchive, for any runs and files: the budget holds.                 *)
(***************************************************************************)
EXTENDS CandidateSelection, MediaArchive, SequenceTheorems, NaturalsInduction, WellFoundedInduction, TLAPS

(* A quotient is bounded when its dividend is a bounded multiple.          *)
LEMMA QuotientBound ==
    ASSUME NEW t \in Nat, t > 0, NEW a \in 0 .. t
    PROVE  (a * 200) \div t \in 0 .. 200
BY SMT

(* share stays within its weight although excluded text may exceed the     *)
(* total.                                                                  *)
LEMMA ShareBound ==
    \A t, x \in Nat : Share(t, x, 200) \in 0 .. 200
<1> SUFFICES ASSUME NEW t \in Nat, NEW x \in Nat
             PROVE  Share(t, x, 200) \in 0 .. 200
    BY Zenon
<1>1. CASE t = 0
    BY <1>1 DEF Share
<1>2. CASE t # 0
    <2> DEFINE a == t - Smaller(x, t)
    <2>1. a \in 0 .. t
        BY DEF Smaller
    <2>2. (a * 200) \div t \in 0 .. 200
        <3> HIDE DEF a
        <3> QED  BY <1>2, <2>1, QuotientBound
    <2>3. Share(t, x, 200) = (a * 200) \div t
        BY <1>2, ZenonT(30) DEF Share
    <2> QED  BY <2>2, <2>3, Zenon
<1> QED  BY <1>1, <1>2

(* The score of every candidate fits candidate_score_is_unit_interval      *)
(* (score / 1000).                                                         *)
LEMMA ScoreBound ==
    \A c \in Measure : Score(c) \in 0 .. 1000
<1> SUFFICES ASSUME NEW c \in Measure
             PROVE  Score(c) \in 0 .. 1000
    OBVIOUS
<1>1. c.text \in Nat /\ c.paragraphs \in Nat /\ c.links \in Nat /\ c.boilerplate \in Nat
    BY BytesAssumption DEF Measure
<1>2. /\ Component(c.text, 300, 300) \in 0 .. 300
      /\ Component(c.paragraphs, 4, 200) \in 0 .. 200
      /\ Share(c.text, c.links, 200) \in 0 .. 200
      /\ Share(c.text, c.boilerplate, 200) \in 0 .. 200
    <2>1. Component(c.text, 300, 300) \in 0 .. 300
        BY <1>1 DEF Component, Smaller
    <2>2. Component(c.paragraphs, 4, 200) \in 0 .. 200
        BY <1>1 DEF Component, Smaller
    <2>3. Share(c.text, c.links, 200) \in 0 .. 200
        BY <1>1, ShareBound, Zenon
    <2>4. Share(c.text, c.boilerplate, 200) \in 0 .. 200
        BY <1>1, ShareBound, Zenon
    <2> QED  BY <2>1, <2>2, <2>3, <2>4, ZenonT(30)
<1> DEFINE v == Component(c.text, 300, 300)
           p == Component(c.paragraphs, 4, 200)
           l == Share(c.text, c.links, 200)
           b == Share(c.text, c.boilerplate, 200)
           h == IF c.titled THEN 100 ELSE 0
<1>3. Score(c) = v + p + l + b + h
    BY Zenon DEF Score
<1>4. h \in 0 .. 100
    OBVIOUS
<1>5. v \in 0 .. 300 /\ p \in 0 .. 200 /\ l \in 0 .. 200 /\ b \in 0 .. 200
    BY <1>2, Zenon
<1> HIDE DEF v, p, l, b, h
<1> QED  BY ONLY <1>3, <1>4, <1>5, SMTT(30)

(* A nonempty set of naturals has a least element.                         *)
LEMMA LeastNatural ==
    ASSUME NEW S \in SUBSET Nat, S # {}
    PROVE  \E m \in S : \A n \in S : m <= n
<1>1. \E x \in S : \A y \in S : ~(<<y, x>> \in OpToRel(<, Nat))
    BY NatLessThanWellFounded, WFMin, Zenon
<1>2. PICK x \in S : \A y \in S : ~(<<y, x>> \in OpToRel(<, Nat))
    BY <1>1, Zenon
<1>3. \A y \in S : ~(y < x)
    BY <1>2, Zenon DEF OpToRel
<1> QED  BY <1>3

(* Among finitely many bounded keys there is a last maximum, the element   *)
(* max_by_key returns.                                                     *)
LEMMA LastMaximum ==
    ASSUME NEW n \in Nat, n > 0, NEW U \in Nat, NEW f \in [1 .. n -> 0 .. U]
    PROVE  \E k \in 1 .. n : \A l \in 1 .. n : f[l] < f[k] \/ (f[l] = f[k] /\ l <= k)
<1> DEFINE V == {U - f[k] : k \in 1 .. n}
<1>1. V \in SUBSET Nat /\ V # {}
    <2>1. 1 \in 1 .. n
        OBVIOUS
    <2>2. \A k \in 1 .. n : f[k] \in 0 .. U
        OBVIOUS
    <2>3. \A k \in 1 .. n : U - f[k] \in Nat
        BY <2>2
    <2> QED  BY <2>1, <2>3
<1>2. PICK m \in V : \A v \in V : m <= v
    <2> HIDE DEF V
    <2> QED  BY <1>1, LeastNatural, Zenon
<1> DEFINE K == {n - k : k \in {j \in 1 .. n : U - f[j] = m}}
<1>3. K \in SUBSET Nat /\ K # {}
    OBVIOUS
<1>4. PICK d \in K : \A e \in K : d <= e
    <2> HIDE DEF K
    <2> QED  BY <1>3, LeastNatural, Zenon
<1>5. PICK k \in 1 .. n : U - f[k] = m /\ d = n - k
    OBVIOUS
<1>6. ASSUME NEW l \in 1 .. n
      PROVE  f[l] < f[k] \/ (f[l] = f[k] /\ l <= k)
    <2>1. m <= U - f[l]
        BY <1>2
    <2>2. f[l] \in 0 .. U /\ f[k] \in 0 .. U
        OBVIOUS
    <2>3. f[l] <= f[k]
        BY <1>5, <2>1, <2>2
    <2>4. ASSUME f[l] = f[k]
          PROVE  l <= k
        <3>1. n - l \in K
            BY <1>5, <2>4
        <3>2. n - k <= n - l
            BY <3>1, <1>4, <1>5, Zenon
        <3> QED  BY <3>2
    <2> QED  BY <2>2, <2>3, <2>4
<1> QED  BY <1>6, Zenon

(* Both keys of best_container are bounded on containers of a source.      *)
LEMMA KeysAreBounded ==
    ASSUME NEW c \in Measure
    PROVE  NetText(c) \in 0 .. MaxBytes /\ Density(c) \in 0 .. MaxBytes * 1000
<1>1. c.text \in 0 .. MaxBytes /\ c.links \in Nat /\ c.boilerplate \in Nat /\ c.elements \in Nat
    BY DEF Measure
<1>2. NetText(c) \in 0 .. MaxBytes
    BY <1>1, BytesAssumption DEF NetText, Positive
<1> DEFINE n == NetText(c)
           e == IF c.elements = 0 THEN 1 ELSE c.elements
<1>3. e \in Nat /\ e > 0
    BY <1>1
<1>4. Density(c) = (n * 1000) \div e
    BY Zenon DEF Density
<1> HIDE DEF n, e
<1>5. n \in 0 .. MaxBytes
    BY <1>2 DEF n
<1>6. (n * 1000) \div e \in 0 .. n * 1000
    BY <1>3, <1>5, BytesAssumption
<1>7. (n * 1000) \div e \in 0 .. MaxBytes * 1000
    BY <1>5, <1>6, BytesAssumption
<1> QED  BY <1>2, <1>4, <1>7

(* semantic, readability and density each return a container of the page   *)
(* or the empty candidate.                                                 *)
LEMMA ExtractType ==
    ASSUME NEW page \in Seq(Measure)
    PROVE  Extract(page) \in Seq(Measure) /\ Len(Extract(page)) = 3
<1>1. Empty \in Measure
    <2>1. 0 \in 0 .. MaxBytes /\ 0 \in Nat
        BY BytesAssumption
    <2> QED  BY <2>1, Zenon DEF Empty, Measure, Names
<1>2. Semantic(page) \in Measure
    <2> DEFINE named(name) == {k \in 1 .. Len(page) : page[k].name = name /\ page[k].text > 0}
    <2>1. ASSUME NEW name, named(name) # {}
          PROVE  page[CHOOSE k \in named(name) : \A l \in named(name) : k <= l] \in Measure
        <3>1. named(name) \in SUBSET Nat
            OBVIOUS
        <3>2. \E k \in named(name) : \A l \in named(name) : k <= l
            <4> HIDE DEF named
            <4> QED  BY <2>1, <3>1, LeastNatural
        <3>3. (CHOOSE k \in named(name) : \A l \in named(name) : k <= l) \in named(name)
            <4> HIDE DEF named
            <4> QED  BY <3>2
        <3>4. (CHOOSE k \in named(name) : \A l \in named(name) : k <= l) \in 1 .. Len(page)
            BY <3>3
        <3> QED  BY <3>4
    <2>2. CASE named("article") # {}
        BY <2>1, <2>2, Zenon DEF Semantic
    <2>3. CASE named("article") = {} /\ named("main") # {}
        BY <2>1, <2>3, Zenon DEF Semantic
    <2>4. CASE named("article") = {} /\ named("main") = {}
        BY <1>1, <2>4 DEF Semantic
    <2> QED  BY <2>2, <2>3, <2>4
<1>3. BestContainer(page, NetText) \in Measure
    <2>1. CASE page = <<>>
        BY <1>1, <2>1 DEF BestContainer
    <2>2. CASE page # <<>>
        <3> DEFINE f == [k \in 1 .. Len(page) |-> NetText(page[k])]
        <3>1. Len(page) \in Nat /\ Len(page) > 0
            BY <2>2
        <3>2. f \in [1 .. Len(page) -> 0 .. MaxBytes]
            BY KeysAreBounded
        <3>3. \E k \in 1 .. Len(page) : \A l \in 1 .. Len(page) :
                  f[l] < f[k] \/ (f[l] = f[k] /\ l <= k)
            <4> HIDE DEF f
            <4> QED  BY <3>1, <3>2, LastMaximum, BytesAssumption, Zenon
        <3>4. \E k \in 1 .. Len(page) : \A l \in 1 .. Len(page) :
                  NetText(page[l]) < NetText(page[k]) \/ (NetText(page[l]) = NetText(page[k]) /\ l <= k)
            BY <3>3
        <3> DEFINE K == CHOOSE k \in 1 .. Len(page) : \A l \in 1 .. Len(page) :
                  NetText(page[l]) < NetText(page[k]) \/ (NetText(page[l]) = NetText(page[k]) /\ l <= k)
        <3>5. K \in 1 .. Len(page)
            BY <3>4, Zenon
        <3>6. BestContainer(page, NetText) = page[K]
            BY <2>2 DEF BestContainer
        <3> HIDE DEF K
        <3> QED  BY <3>5, <3>6
    <2> QED  BY <2>1, <2>2
<1>4. BestContainer(page, Density) \in Measure
    <2>1. CASE page = <<>>
        BY <1>1, <2>1 DEF BestContainer
    <2>2. CASE page # <<>>
        <3> DEFINE f == [k \in 1 .. Len(page) |-> Density(page[k])]
        <3>1. Len(page) \in Nat /\ Len(page) > 0
            BY <2>2
        <3>2. f \in [1 .. Len(page) -> 0 .. MaxBytes * 1000]
            BY KeysAreBounded
        <3>3. \E k \in 1 .. Len(page) : \A l \in 1 .. Len(page) :
                  f[l] < f[k] \/ (f[l] = f[k] /\ l <= k)
            <4> DEFINE U == MaxBytes * 1000
            <4>1. U \in Nat
                BY BytesAssumption
            <4>2. f \in [1 .. Len(page) -> 0 .. U]
                BY <3>2
            <4> HIDE DEF f, U
            <4> QED  BY <3>1, <4>1, <4>2, LastMaximum, Zenon
        <3>4. \E k \in 1 .. Len(page) : \A l \in 1 .. Len(page) :
                  Density(page[l]) < Density(page[k]) \/ (Density(page[l]) = Density(page[k]) /\ l <= k)
            BY <3>3
        <3> DEFINE K == CHOOSE k \in 1 .. Len(page) : \A l \in 1 .. Len(page) :
                  Density(page[l]) < Density(page[k]) \/ (Density(page[l]) = Density(page[k]) /\ l <= k)
        <3>5. K \in 1 .. Len(page)
            BY <3>4, Zenon
        <3>6. BestContainer(page, Density) = page[K]
            BY <2>2 DEF BestContainer
        <3> HIDE DEF K
        <3> QED  BY <3>5, <3>6
    <2> QED  BY <2>1, <2>2
<1> QED  BY <1>2, <1>3, <1>4 DEF Extract

-----------------------------------------------------------------------------

SourceOK ==
    /\ source.route \in Routes
    /\ source.page \in Seq(Measure)
    /\ source.route # "html" => Len(source.page) = 1

(* What each phase knows of the decisions so far. *)
PhaseOK ==
    /\ phase = "convert" => candidates = <<>> /\ decisions = <<>> /\ next = 1 /\ best = 0
    /\ phase = "evaluate" =>
          source.route = "html" /\ Len(candidates) = 3 /\ Len(decisions) < 3 /\ next = 1 /\ best = 0
    /\ phase = "winner" => source.route = "html" /\ Len(decisions) = 3
    /\ phase \in {"evaluate", "winner", "reject"} =>
          \A k \in 1 .. Len(decisions) : ~decisions[k].selected
    /\ phase = "reject" => decisions # <<>>
    /\ phase = "complete" =>
          IF source.route = "html"
          THEN best # 0 /\ \A k \in 1 .. Len(decisions) : decisions[k].selected <=> k = best
          ELSE Len(decisions) = 1 /\ decisions[1].selected

(* The labels are those of Strategies, so no two are alike. *)
LabelsOK ==
    IF source.route = "html"
    THEN Len(decisions) <= 3 /\ \A k \in 1 .. Len(decisions) : decisions[k].strategy = Strategies[k]
    ELSE Len(decisions) <= 1

FoldOK == source.route = "html" => FirstBest(best, next)

IInv == TypeOK /\ SourceOK /\ PhaseOK /\ LabelsOK /\ FoldOK /\ CommitIsNeverRefused

(* A decision over a scored candidate is one, whatever label and flag it   *)
(* is given.                                                               *)
LEMMA DecisionTyped ==
    ASSUME NEW s \in Labels, NEW c, Score(c) \in 0 .. 1000, NEW b \in BOOLEAN
    PROVE  /\ Decision(s, c, b) \in DecisionType
           /\ Decision(s, c, b).strategy = s /\ Decision(s, c, b).selected = b
<1>1. Accepted(c) \in BOOLEAN
    BY DEF Accepted
<1> QED  BY <1>1, ZenonT(30) DEF Decision, DecisionType

(* The sources of Init satisfy the invariant.                              *)
LEMMA InitIInv ==
    Init => IInv
<1> SUFFICES ASSUME Init PROVE IInv
    OBVIOUS
<1>1. SourceOK
    <2>1. CASE source \in [route : {"html"}, page : Pages, fits : BOOLEAN]
        BY <2>1, SourcesAssumption DEF SourceOK, Routes
    <2>2. CASE source \in [route : Routes \ {"html"}, page : {<<t>> : t \in Texts}, fits : {TRUE}]
        <3>1. source.route \in Routes /\ source.page \in {<<t>> : t \in Texts}
            BY <2>2
        <3>2. PICK t \in Texts : source.page = <<t>>
            BY <3>1
        <3>3. t \in Measure
            BY SourcesAssumption
        <3>4. source.page \in Seq(Measure) /\ Len(source.page) = 1
            BY <3>2, <3>3
        <3> QED  BY <3>1, <3>4 DEF SourceOK
    <2> QED  BY <2>1, <2>2, Zenon DEF Init
<1>2. TypeOK
    BY DEF Init, TypeOK, Outcomes
<1>3. PhaseOK /\ LabelsOK /\ FoldOK /\ CommitIsNeverRefused
    BY DEF Init, PhaseOK, LabelsOK, FoldOK, FirstBest, CommitIsNeverRefused
<1> QED  BY <1>1, <1>2, <1>3 DEF IInv

(* Every step of a conversion keeps the invariant: one step per action.    *)
LEMMA NextIInv ==
    IInv /\ [Next]_vars => IInv'
<1> SUFFICES ASSUME IInv, [Next]_vars PROVE IInv'
    OBVIOUS
<1> USE DEF IInv
<1>1. CASE ParseHtml
    <2>1. Extract(source.page) \in Seq(Measure) /\ Len(Extract(source.page)) = 3
        BY ExtractType DEF SourceOK
    <2>2. TypeOK'
        BY <1>1, <2>1 DEF ParseHtml, TypeOK, Outcomes
    <2>3. SourceOK' /\ LabelsOK' /\ FoldOK'
        BY <1>1 DEF ParseHtml, SourceOK, LabelsOK, FoldOK, FirstBest
    <2>4. PhaseOK' /\ CommitIsNeverRefused'
        BY <1>1, <2>1 DEF ParseHtml, PhaseOK, CommitIsNeverRefused
    <2> QED  BY <2>2, <2>3, <2>4
<1>2. CASE Evaluate
    <2> DEFINE k == Len(decisions) + 1
               d == Decision(Strategies[k], candidates[k], FALSE)
    <2>1. /\ decisions \in Seq(DecisionType) /\ candidates \in Seq(Measure)
          /\ k \in 1 .. 3 /\ candidates[k] \in Measure /\ Len(candidates) = 3
          /\ next = 1 /\ best = 0 /\ source.route = "html"
        BY <1>2 DEF Evaluate, PhaseOK, TypeOK
    <2>2. Strategies[k] \in Labels
        BY <2>1 DEF Strategies, Labels
    <2>3. d \in DecisionType /\ d.strategy = Strategies[k] /\ ~d.selected
        <3>1. Score(candidates[k]) \in 0 .. 1000
            <4> DEFINE c == candidates[k]
            <4>1. c \in Measure
                BY <2>1
            <4> HIDE DEF c
            <4>2. Score(c) \in 0 .. 1000
                BY <4>1, ScoreBound
            <4> QED  BY <4>2, ZenonT(30) DEF c
        <3>2. Accepted(candidates[k]) \in BOOLEAN
            BY DEF Accepted
        <3> HIDE DEF k
        <3> QED  BY <2>2, <3>1, DecisionTyped, ZenonT(30)
    <2>4. /\ decisions' = Append(decisions, d)
          /\ phase' = IF k = 3 THEN "winner" ELSE "evaluate"
          /\ UNCHANGED <<source, candidates, next, best, outcome>>
        BY <1>2, <2>1 DEF Evaluate
    <2> HIDE DEF d
    <2>5. /\ decisions' \in Seq(DecisionType) /\ Len(decisions') = k /\ decisions'[k] = d
          /\ \A l \in 1 .. k - 1 : decisions'[l] = decisions[l]
        BY <2>1, <2>3, <2>4
    <2>6. TypeOK'
        BY <2>1, <2>4, <2>5 DEF TypeOK
    <2>7. SourceOK' /\ CommitIsNeverRefused'
        BY <2>4 DEF SourceOK, CommitIsNeverRefused
    <2>8. \A l \in 1 .. Len(decisions') : ~decisions'[l].selected
        <3>1. \A l \in 1 .. Len(decisions) : ~decisions[l].selected
            BY <1>2 DEF Evaluate, PhaseOK
        <3>2. TAKE l \in 1 .. Len(decisions')
        <3>3. CASE l = k
            BY <3>3, <2>3, <2>5
        <3>4. CASE l # k
            BY <3>1, <3>4, <2>1, <2>5
        <3> QED  BY <3>3, <3>4
    <2>9. PhaseOK'
        BY <2>1, <2>4, <2>5, <2>8 DEF PhaseOK
    <2>10. LabelsOK'
        <3>1. \A l \in 1 .. Len(decisions) : decisions[l].strategy = Strategies[l]
            BY <2>1 DEF LabelsOK
        <3>2. ASSUME NEW l \in 1 .. Len(decisions')
              PROVE  decisions'[l].strategy = Strategies[l]
            <4>1. CASE l = k
                BY <4>1, <2>3, <2>5
            <4>2. CASE l # k
                BY <3>1, <4>2, <2>1, <2>5
            <4> QED  BY <4>1, <4>2
        <3> QED  BY <3>2, <2>1, <2>4, <2>5 DEF LabelsOK, Strategies
    <2>11. FoldOK'
        BY <2>1, <2>4 DEF FoldOK, FirstBest
    <2> QED  BY <2>6, <2>7, <2>9, <2>10, <2>11
<1>3. CASE Consider
    <2>1. /\ next \in 1 .. Len(decisions) /\ next' = next + 1 /\ phase = "winner"
          /\ UNCHANGED <<source, phase, candidates, decisions, outcome>>
        BY <1>3 DEF Consider, TypeOK
    <2>2. best' \in {best, next}
        BY <1>3 DEF Consider
    <2>3. TypeOK'
        BY <2>1, <2>2 DEF TypeOK
    <2>4. SourceOK' /\ LabelsOK' /\ CommitIsNeverRefused'
        BY <2>1 DEF SourceOK, LabelsOK, CommitIsNeverRefused
    <2>5. PhaseOK'
        BY <2>1 DEF PhaseOK
    <2>6. FirstBest(best, next)
        BY <2>1 DEF PhaseOK, FoldOK
    <2>7. /\ \A k \in 1 .. Len(decisions) : decisions[k].score \in Int
          /\ best \in Nat /\ next \in Nat
        <3>1. decisions \in Seq(DecisionType)
            BY DEF TypeOK
        <3>2. \A k \in 1 .. Len(decisions) : decisions[k] \in DecisionType
            BY <3>1
        <3>3. \A d \in DecisionType : d.score \in Int
            BY DEF DecisionType
        <3> QED  BY <2>1, <3>2, <3>3 DEF TypeOK
    <2>8. FirstBest(best, next)'
        <3>1. CASE ~decisions[next].accepted
            <4>1. best' = best
                BY <1>3, <3>1 DEF Consider
            <4> QED  BY <2>1, <2>6, <2>7, <3>1, <4>1 DEF FirstBest
        <3>2. CASE decisions[next].accepted /\ best = 0
            <4>1. best' = next
                BY <1>3, <3>2 DEF Consider
            <4> QED  BY <2>1, <2>6, <2>7, <3>2, <4>1 DEF FirstBest
        <3>3. CASE decisions[next].accepted /\ best # 0 /\ decisions[next].score > decisions[best].score
            <4>1. best' = next
                BY <1>3, <3>3 DEF Consider
            <4> QED  BY <2>1, <2>6, <2>7, <3>3, <4>1 DEF FirstBest
        <3>4. CASE decisions[next].accepted /\ best # 0 /\ ~(decisions[next].score > decisions[best].score)
            <4>1. best' = best
                BY <1>3, <3>4 DEF Consider
            <4> QED  BY <2>1, <2>6, <2>7, <3>4, <4>1 DEF FirstBest
        <3> QED  BY <3>1, <3>2, <3>3, <3>4
    <2> QED  BY <2>3, <2>4, <2>5, <2>8 DEF FoldOK
<1>4. CASE Select
    <2>1. /\ Len(decisions) = 3 /\ source.route = "html" /\ best \in 1 .. 3 /\ next \in 1 .. 4
          /\ decisions \in Seq(DecisionType)
        <3>1. phase = "winner" /\ best # 0
            BY <1>4 DEF Select
        <3>2. Len(decisions) = 3 /\ source.route = "html"
            BY <3>1 DEF PhaseOK
        <3> QED  BY <3>1, <3>2 DEF TypeOK
    <2>2. /\ phase' = "complete" /\ UNCHANGED <<source, candidates, next, best, outcome>>
          /\ decisions' = [k \in 1 .. 3 |-> [decisions[k] EXCEPT !.selected =
                                decisions[k].strategy = decisions[best].strategy]]
        BY <1>4, <2>1 DEF Select
    <2>3. ASSUME NEW k \in 1 .. 3
          PROVE  /\ decisions'[k] \in DecisionType
                 /\ decisions'[k].strategy = decisions[k].strategy
                 /\ decisions'[k].score = decisions[k].score
                 /\ decisions'[k].accepted = decisions[k].accepted
                 /\ decisions'[k].selected = (decisions[k].strategy = decisions[best].strategy)
        <3>1. decisions[k] \in DecisionType
            <4>1. decisions \in Seq(DecisionType) /\ Len(decisions) = 3
                BY <2>1
            <4>2. \A l \in 1 .. Len(decisions) : decisions[l] \in DecisionType
                BY <4>1, SMTT(30)
            <4> QED  BY <4>1, <4>2
        <3>2. decisions'[k] = [decisions[k] EXCEPT !.selected =
                                  (decisions[k].strategy = decisions[best].strategy)]
            BY <2>2, Zenon
        <3> DEFINE d == decisions[k]
                   b == decisions[k].strategy = decisions[best].strategy
        <3>3. d \in DecisionType /\ b \in BOOLEAN /\ decisions'[k] = [d EXCEPT !.selected = b]
            BY <3>1, <3>2
        <3> HIDE DEF d, b
        <3>4. /\ decisions'[k] \in DecisionType
              /\ decisions'[k].strategy = d.strategy /\ decisions'[k].score = d.score
              /\ decisions'[k].accepted = d.accepted /\ decisions'[k].selected = b
            BY <3>3 DEF DecisionType
        <3> QED  BY <3>4 DEF d, b
    <2>4. decisions' \in Seq(DecisionType) /\ Len(decisions') = 3
        <3>1. decisions' = [k \in 1 .. 3 |-> decisions'[k]]
            BY <2>2
        <3>2. decisions' \in [1 .. 3 -> DecisionType]
            BY <2>3, <3>1
        <3> DEFINE q == decisions'
        <3>3. q \in [1 .. 3 -> DecisionType]
            BY <3>2
        <3> HIDE DEF q
        <3>4. q \in Seq(DecisionType)
            BY <3>3, SeqDef, Zenon
        <3>5. Len(q) \in Nat /\ DOMAIN q = 1 .. Len(q) /\ DOMAIN q = 1 .. 3
            BY <3>3, <3>4, LenProperties, Zenon
        <3>6. Len(q) = 3
            <4>1. 3 \in 1 .. Len(q)
                BY <3>5
            <4>2. Len(q) \in 1 .. Len(q)
                BY <3>5, <4>1
            <4>3. Len(q) \in 1 .. 3
                BY <3>5, <4>2, Zenon
            <4> QED  BY <4>1, <4>3
        <3> QED  BY <3>4, <3>6 DEF q
    <2>5. \A k \in 1 .. 3 : (decisions[k].strategy = decisions[best].strategy) <=> k = best
        BY <2>1 DEF LabelsOK, Strategies
    <2>6. TypeOK'
        BY <2>1, <2>2, <2>4 DEF TypeOK
    <2>7. SourceOK' /\ CommitIsNeverRefused'
        BY <2>2 DEF SourceOK, CommitIsNeverRefused
    <2>8. PhaseOK'
        <3>1. ASSUME NEW k \in 1 .. 3
              PROVE  decisions'[k].selected <=> k = best'
            <4>1. decisions'[k].selected = (decisions[k].strategy = decisions[best].strategy)
                BY <2>3, Zenon
            <4>2. (decisions[k].strategy = decisions[best].strategy) <=> k = best
                BY <2>5, Zenon
            <4>3. best' = best
                BY <2>2
            <4> QED  BY <4>1, <4>2, <4>3, Zenon
        <3>2. best' # 0 /\ source'.route = "html" /\ phase' = "complete"
            BY <2>1, <2>2
        <3> QED  BY <2>4, <3>1, <3>2 DEF PhaseOK
    <2>9. LabelsOK'
        <3>1. \A k \in 1 .. 3 : decisions[k].strategy = Strategies[k]
            BY <2>1 DEF LabelsOK
        <3>2. \A k \in 1 .. 3 : decisions'[k].strategy = Strategies[k]
            BY <2>3, <3>1
        <3> QED  BY <2>1, <2>2, <2>4, <3>2 DEF LabelsOK, Strategies
    <2>10. FirstBest(best, next)'
        <3>1. FirstBest(best, next)
            BY <2>1 DEF FoldOK
        <3>2. \A k \in 1 .. 3 : /\ decisions'[k].score = decisions[k].score
                                /\ decisions'[k].accepted = decisions[k].accepted
            BY <2>3
        <3>3. best' = best /\ next' = next
            BY <2>2
        <3>4. \A k \in 1 .. next - 1 : k \in 1 .. 3
            BY <2>1
        <3> QED  BY <3>1, <3>2, <3>3, <3>4, SMTT(30) DEF FirstBest
    <2> QED  BY <2>6, <2>7, <2>8, <2>9, <2>10 DEF FoldOK
<1>5. CASE LowQuality
    <2>1. /\ phase = "winner" /\ phase' = "reject"
          /\ UNCHANGED <<source, candidates, decisions, next, best, outcome>>
        BY <1>5 DEF LowQuality
    <2>2. TypeOK' /\ SourceOK' /\ LabelsOK' /\ CommitIsNeverRefused'
        BY <2>1 DEF TypeOK, SourceOK, LabelsOK, CommitIsNeverRefused
    <2>3. FoldOK'
        BY <2>1 DEF FoldOK, FirstBest
    <2>4. PhaseOK'
        BY <2>1 DEF PhaseOK
    <2> QED  BY <2>2, <2>3, <2>4
<1>6. CASE ConvertText
    <2> DEFINE c == source.page[1]
               b == Accepted(c) \/ source.route \in {"link_post", "transcript"}
               d == Decision(source.route, c, b)
    <2>1. c \in Measure /\ source.route \in Labels /\ source.route # "html"
        BY <1>6 DEF ConvertText, SourceOK, Labels
    <2>2. /\ decisions' = <<d>> /\ phase' = IF b THEN "complete" ELSE "reject"
          /\ UNCHANGED <<source, candidates, next, best, outcome>>
        BY <1>6, Zenon DEF ConvertText
    <2>3. phase = "convert" /\ decisions = <<>> /\ next = 1 /\ best = 0
        BY <1>6 DEF ConvertText, PhaseOK
    <2>4. b \in BOOLEAN /\ Accepted(c) \in BOOLEAN
        BY DEF Accepted
    <2> HIDE DEF c, b
    <2>5. Score(c) \in 0 .. 1000
        BY <2>1, ScoreBound
    <2>6. d \in DecisionType /\ d.selected = b
        BY <2>1, <2>4, <2>5, DecisionTyped, ZenonT(30)
    <2> HIDE DEF d
    <2>7. decisions' \in Seq(DecisionType) /\ Len(decisions') = 1 /\ decisions'[1] = d
        BY <2>2, <2>6
    <2>8. TypeOK'
        BY <2>2, <2>3, <2>7 DEF TypeOK
    <2>9. SourceOK' /\ CommitIsNeverRefused'
        BY <2>2 DEF SourceOK, CommitIsNeverRefused
    <2>10. LabelsOK' /\ FoldOK'
        BY <2>1, <2>2, <2>7 DEF LabelsOK, FoldOK
    <2>11. PhaseOK'
        <3>1. CASE b
            BY <3>1, <2>1, <2>2, <2>6, <2>7, Zenon DEF PhaseOK
        <3>2. CASE ~b
            BY <3>2, <2>1, <2>2, <2>6, <2>7 DEF PhaseOK
        <3> QED  BY <3>1, <3>2
    <2> QED  BY <2>8, <2>9, <2>10, <2>11
<1>7. ASSUME phase \in {"complete", "reject"}, source.route \in Routes
      PROVE  SchemaHolds /\ (phase = "complete" => ValidSelection(1))
                         /\ (phase = "reject" => ValidSelection(0))
    <2>1. /\ decisions \in Seq(DecisionType) /\ Len(decisions) \in Nat
          /\ \A k \in 1 .. Len(decisions) : decisions[k] \in DecisionType
        BY DEF TypeOK
    <2>2. \A k \in 1 .. Len(decisions) : decisions[k].score \in 0 .. 1000
        <3>1. \A d \in DecisionType : d.score \in 0 .. 1000
            BY DEF DecisionType
        <3> SUFFICES ASSUME NEW k \in 1 .. Len(decisions) PROVE decisions[k].score \in 0 .. 1000
            BY Zenon
        <3> DEFINE d == decisions[k]
        <3>2. d \in DecisionType
            BY <2>1, Zenon
        <3> HIDE DEF d
        <3>3. d.score \in 0 .. 1000
            BY <3>1, <3>2, ZenonT(30)
        <3> QED  BY <3>3, ZenonT(30) DEF d
    <2>3. \A k, l \in 1 .. Len(decisions) : decisions[k].strategy = decisions[l].strategy => k = l
        <3>1. CASE source.route = "html"
            BY <3>1, <2>1 DEF LabelsOK, Strategies
        <3>2. CASE source.route # "html"
            BY <3>2, <2>1 DEF LabelsOK
        <3> QED  BY <3>1, <3>2
    <2>4. CASE phase = "reject"
        <3>1. decisions # <<>> /\ \A k \in 1 .. Len(decisions) : ~decisions[k].selected
            BY <2>4 DEF PhaseOK
        <3>2. Selected = {}
            BY <3>1 DEF Selected
        <3>3. ValidSelection(0)
            BY <3>1, <3>2 DEF ValidSelection
        <3>4. SchemaHolds
            BY <2>2, <2>3, <3>2, Zenon DEF SchemaHolds
        <3> QED  BY <2>4, <3>3, <3>4
    <2>5. CASE phase = "complete" /\ source.route = "html"
        <3>1. best # 0 /\ \A k \in 1 .. Len(decisions) : decisions[k].selected <=> k = best
            BY <2>5 DEF PhaseOK
        <3>2. best \in 1 .. Len(decisions)
            BY <3>1, <2>1 DEF TypeOK
        <3>3. Selected = {best}
            BY <3>1, <3>2 DEF Selected
        <3>4. decisions # <<>>
            BY <3>2, <2>1
        <3>5. (\E k \in Selected : Selected = {k}) /\ (\A k, l \in Selected : k = l)
            BY <3>3, Zenon
        <3>6. ValidSelection(1)
            BY <3>4, <3>5 DEF ValidSelection
        <3>7. SchemaHolds
            BY <2>2, <2>3, <3>5, Zenon DEF SchemaHolds
        <3> QED  BY <2>5, <3>6, <3>7
    <2>6. CASE phase = "complete" /\ source.route # "html"
        <3>1. Len(decisions) = 1 /\ decisions[1].selected
            BY <2>6 DEF PhaseOK
        <3>2. Selected = {1}
            BY <3>1 DEF Selected
        <3>3. decisions # <<>>
            <4>1. Len(<< >>) = 0
                OBVIOUS
            <4>2. Len(decisions) # 0
                BY <3>1
            <4> QED  BY <4>1, <4>2, Zenon
        <3>4. (\E k \in Selected : Selected = {k}) /\ (\A k, l \in Selected : k = l)
            BY <3>2, Zenon
        <3>5. ValidSelection(1)
            BY <3>3, <3>4 DEF ValidSelection
        <3>6. SchemaHolds
            BY <2>2, <2>3, <3>4, Zenon DEF SchemaHolds
        <3> QED  BY <2>6, <3>5, <3>6
    <2> QED  BY <1>7, <2>4, <2>5, <2>6
<1>8. CASE Complete \/ RejectQuality
    <2>1. /\ phase' = "done" /\ outcome' \in Outcomes
          /\ UNCHANGED <<source, candidates, decisions, next, best>>
        BY <1>8 DEF Complete, RejectQuality, Outcomes
    <2>2. source.route \in Routes
        BY DEF SourceOK
    <2>3. outcome' # "refused"
        BY <1>7, <1>8, <2>2 DEF Complete, RejectQuality
    <2>4. TypeOK' /\ SourceOK' /\ LabelsOK' /\ CommitIsNeverRefused'
        BY <2>1, <2>3 DEF TypeOK, SourceOK, LabelsOK, CommitIsNeverRefused
    <2>5. FoldOK' /\ PhaseOK'
        BY <2>1 DEF FoldOK, FirstBest, PhaseOK
    <2> QED  BY <2>4, <2>5
<1>9. CASE UNCHANGED vars
    <2>1. TypeOK' /\ SourceOK' /\ LabelsOK' /\ CommitIsNeverRefused'
        BY <1>9 DEF vars, TypeOK, SourceOK, LabelsOK, CommitIsNeverRefused
    <2>2. FoldOK'
        BY <1>9 DEF vars, FoldOK, FirstBest
    <2>3. PhaseOK'
        BY <1>9 DEF vars, PhaseOK
    <2> QED  BY <2>1, <2>2, <2>3
<1> QED
    <2> HIDE DEF IInv
    <2> QED  BY <1>1, <1>2, <1>3, <1>4, <1>5, <1>6, <1>8, <1>9, Zenon DEF Next

(* The invariant holds in every state of every conversion.                 *)
LEMMA Invariance ==
    Spec => []IInv
BY InitIInv, NextIInv, PTL DEF Spec

(* Type correctness: every score fits the unit interval that the           *)
(* candidates table demands, for sources of any size.                      *)
THEOREM ScoresAreBounded ==
    Spec => []TypeOK
<1>1. IInv => TypeOK
    BY DEF IInv
<1> QED  BY Invariance, <1>1, PTL

(* winner's fold, for any page: the highest accepted score wins, and of    *)
(* equal scores the earliest strategy.                                     *)
THEOREM WinnerCorrect ==
    Spec => []WinnerIsFirstBest
<1>1. IInv => WinnerIsFirstBest
    BY DEF IInv, FoldOK, WinnerIsFirstBest
<1> QED  BY Invariance, <1>1, PTL

(* No conversion marks its decisions in a way that validate_candidates or  *)
(* a constraint of the table refuses.                                      *)
THEOREM CommitsAreAccepted ==
    Spec => []CommitIsNeverRefused
<1>1. IInv => CommitIsNeverRefused
    BY DEF IInv
<1> QED  BY Invariance, <1>1, PTL

-----------------------------------------------------------------------------
(* MediaArchive: any number of runs that archive at once, with the purge.  *)

Attempts == [pc : Phases, used : 0 .. Budget, digest : Digests \cup {"none"}, outcome : Archivals]

MediaTyped ==
    /\ rows \subseteq MediaRows
    /\ artifacts \subseteq [run : Runs, digest : Digests]
    /\ files \subseteq Digests /\ workdirs \subseteq Runs
    /\ job \in [Runs -> Attempts]
    /\ purge \in [step : {"idle", "artifacts", "rows"}, selected : SUBSET MediaRows]

(* What an attempt copies or reserves is a file within the item cap. *)
Capped(r) ==
    job[r].pc \in {"copy", "reserve"} => job[r].digest \in Digests /\ Length[job[r].digest] <= MaxItem

(* The accounting: finitely many bytes, within the budget. *)
LedgerInv ==
    /\ IsFiniteSet(Accounted) /\ UsedBytes <= Budget
    /\ \A m \in Unexpired : Length[m.digest] <= MaxItem

MediaInv == MediaTyped /\ (\A r \in Runs : Capped(r)) /\ LedgerInv

(* The facts about finite sets that the accounting takes. *)
SumFacts ==
    /\ \A S : IsFiniteSet(S) => Cardinality(S) \in Nat
    /\ \A S, T : IsFiniteSet(T) /\ S \subseteq T => IsFiniteSet(S) /\ Cardinality(S) <= Cardinality(T)
    /\ \A S, x : \A n \in Nat : IsFiniteSet(S) =>
          /\ IsFiniteSet(S \cup ({x} \X (1 .. n)))
          /\ Cardinality(S \cup ({x} \X (1 .. n))) <= Cardinality(S) + n
    /\ IsFiniteSet({}) /\ Cardinality({}) = 0

(* Rows that stop counting only lower the sum. *)
LEMMA LedgerShrinks ==
    ASSUME SumFacts, LedgerInv, Unexpired' \subseteq Unexpired
    PROVE  LedgerInv'
<1>1. Accounted' \subseteq Accounted
    BY DEF Accounted
<1>2. IsFiniteSet(Accounted') /\ Cardinality(Accounted') <= Cardinality(Accounted)
    BY <1>1, Zenon DEF SumFacts, LedgerInv
<1>3. Cardinality(Accounted) \in Nat /\ Cardinality(Accounted') \in Nat
    BY <1>2, Zenon DEF SumFacts, LedgerInv
<1>4. UsedBytes' <= Budget
    BY <1>2, <1>3, MediaAssumption DEF UsedBytes, LedgerInv
<1> QED
    BY <1>2, <1>4 DEF LedgerInv

(* A new row adds at most its length. *)
LEMMA LedgerGrows ==
    ASSUME SumFacts, LedgerInv, NEW m, m.digest \in Digests,
           Unexpired' = Unexpired \cup {m}, Length[m.digest] <= MaxItem,
           UsedBytes + Length[m.digest] <= Budget
    PROVE  LedgerInv'
<1> DEFINE n == Length[m.digest]
<1>1. n \in Nat
    BY MediaAssumption
<1>2. Accounted' = Accounted \cup ({m} \X (1 .. n))
    BY Zenon DEF Accounted
<1> HIDE DEF n
<1>3. IsFiniteSet(Accounted') /\ Cardinality(Accounted') <= Cardinality(Accounted) + n
    BY <1>1, <1>2, Zenon DEF SumFacts, LedgerInv
<1>4. Cardinality(Accounted) \in Nat /\ Cardinality(Accounted') \in Nat
    BY <1>3, Zenon DEF SumFacts, LedgerInv
<1>5. UsedBytes' <= Budget
    BY <1>1, <1>3, <1>4, MediaAssumption DEF UsedBytes, n
<1> QED
    BY <1>3, <1>5 DEF LedgerInv

(* The rows are left alone. *)
LEMMA LedgerKept ==
    ASSUME LedgerInv, UNCHANGED rows
    PROVE  LedgerInv'
    BY DEF LedgerInv, Unexpired, Accounted, UsedBytes

(* The attempt of r becomes x; the others stay as they are. *)
Becomes(r, x) == job' = [job EXCEPT ![r] = x]

(* An attempt changes, and copies or reserves only what fits the cap. *)
LEMMA AttemptChanges ==
    ASSUME MediaInv, NEW r \in Runs, NEW x \in Attempts, Becomes(r, x),
           x.pc \in {"copy", "reserve"} => x.digest \in Digests /\ Length[x.digest] <= MaxItem
    PROVE  job' \in [Runs -> Attempts] /\ \A s \in Runs : Capped(s)'
<1>1. job \in [Runs -> Attempts] /\ \A s \in Runs : Capped(s)
    BY DEF MediaInv, MediaTyped
<1>2. job' \in [Runs -> Attempts]
    BY <1>1, Zenon DEF Becomes
<1>3. ASSUME NEW s \in Runs PROVE Capped(s)'
    <2>1. CASE s = r
        <3>1. job'[s] = x
            BY <1>1, <2>1, Zenon DEF Becomes
        <3> QED
            BY <3>1, Zenon DEF Capped
    <2>2. CASE s # r
        <3>1. job'[s] = job[s]
            BY <1>1, <2>2, Zenon DEF Becomes
        <3> QED
            BY <1>1, <3>1, Zenon DEF Capped
    <2> QED
        BY <2>1, <2>2
<1> QED
    BY <1>2, <1>3

(* It is ended. *)
LEMMA AttemptEnds ==
    ASSUME MediaInv, NEW r \in Runs, NEW o \in Archivals,
           job' = [job EXCEPT ![r].pc = "done", ![r].outcome = o]
    PROVE  job' \in [Runs -> Attempts] /\ \A s \in Runs : Capped(s)'
<1> DEFINE x == [job[r] EXCEPT !.pc = "done", !.outcome = o]
<1>1. job[r] \in Attempts
    BY DEF MediaInv, MediaTyped
<1>2. x \in Attempts /\ x.pc = "done"
    BY <1>1, Zenon DEF Attempts, Phases
<1>3. Becomes(r, x)
    BY Zenon DEF Becomes
<1> HIDE DEF x
<1> QED
    BY <1>2, <1>3, AttemptChanges

(* It goes on to place p. *)
LEMMA AttemptGoes ==
    ASSUME MediaInv, NEW r \in Runs, NEW p \in Phases, job' = [job EXCEPT ![r].pc = p],
           p \in {"copy", "reserve"} => job[r].pc \in {"copy", "reserve"}
    PROVE  job' \in [Runs -> Attempts] /\ \A s \in Runs : Capped(s)'
<1> DEFINE x == [job[r] EXCEPT !.pc = p]
<1>1. job[r] \in Attempts /\ Capped(r)
    BY DEF MediaInv, MediaTyped
<1>2. x \in Attempts /\ x.pc = p /\ x.digest = job[r].digest
    BY <1>1, Zenon DEF Attempts
<1>3. Becomes(r, x)
    BY Zenon DEF Becomes
<1> HIDE DEF x
<1> QED
    BY <1>1, <1>2, <1>3, AttemptChanges DEF Capped

(* What an attempt leaves alone while it does not store. *)
LEMMA Unstored ==
    ASSUME MediaInv, UNCHANGED <<rows, artifacts, purge>>, files' \subseteq Digests, workdirs' \subseteq Runs,
           job' \in [Runs -> Attempts], \A s \in Runs : Capped(s)'
    PROVE  MediaInv'
<1>1. LedgerInv'
    BY LedgerKept DEF MediaInv
<1>2. MediaTyped'
    BY Zenon DEF MediaInv, MediaTyped
<1> QED
    BY <1>1, <1>2 DEF MediaInv

(* An attempt gives up, or an operation of it fails. *)
LEMMA GivesUp ==
    ASSUME MediaInv, NEW r \in Runs, NEW o \in Archivals, Exit(r, o), UNCHANGED <<rows, artifacts, files, purge>>
    PROVE  MediaInv'
<1>1. job' \in [Runs -> Attempts] /\ \A s \in Runs : Capped(s)'
    BY AttemptEnds, Zenon DEF Exit
<1>2. workdirs' \subseteq Runs /\ files' \subseteq Digests
    BY DEF Exit, MediaInv, MediaTyped
<1> QED
    BY <1>1, <1>2, Unstored

(* A statement or the store fails. *)
LEMMA FailsKeeps ==
    ASSUME MediaInv, NEW r \in Runs, Fails(r), UNCHANGED purge
    PROVE  MediaInv'
    BY GivesUp DEF Fails, Archivals

(* The looks at the rows before the download. *)
LEMMA LooksStep ==
    ASSUME SumFacts, MediaInv, NEW r \in Runs, CheckDuplicate(r) \/ CheckBudget(r)
    PROVE  MediaInv'
<1>1. CASE Fails(r) /\ UNCHANGED purge
    BY <1>1, FailsKeeps
<1>2. CASE \E o \in Archivals : Exit(r, o) /\ UNCHANGED <<rows, artifacts, files, purge>>
    BY <1>2, GivesUp
<1>3. CASE /\ job' = [job EXCEPT ![r].pc = "budget"] /\ UNCHANGED <<rows, artifacts, files, purge>>
           /\ UNCHANGED workdirs
    <2>1. job' \in [Runs -> Attempts] /\ \A s \in Runs : Capped(s)'
        BY <1>3, AttemptGoes, Zenon DEF Phases
    <2> QED
        BY <1>3, <2>1, Unstored DEF MediaInv, MediaTyped
<1>4. CASE /\ job' = [job EXCEPT ![r].pc = "download", ![r].used = UsedBytes]
           /\ workdirs' = workdirs \cup {r} /\ UNCHANGED <<rows, artifacts, files, purge>>
    <2> DEFINE u == UsedBytes
               x == [job[r] EXCEPT !.pc = "download", !.used = u]
    <2>1. u \in 0 .. Budget
        <3>1. u \in Nat /\ u <= Budget
            BY Zenon DEF UsedBytes, MediaInv, LedgerInv, SumFacts
        <3> QED
            BY <3>1, MediaAssumption
    <2>2. Becomes(r, x)
        BY <1>4, Zenon DEF Becomes
    <2> HIDE DEF u
    <2>3. job[r] \in Attempts
        BY DEF MediaInv, MediaTyped
    <2>4. x \in Attempts /\ x.pc = "download"
        BY <2>1, <2>3, Zenon DEF Attempts, Phases
    <2> HIDE DEF x
    <2>5. job' \in [Runs -> Attempts] /\ \A s \in Runs : Capped(s)'
        BY <2>2, <2>4, AttemptChanges
    <2> QED
        BY <1>4, <2>5, Unstored DEF MediaInv, MediaTyped
<1> QED
    BY <1>1, <1>2, <1>3, <1>4, Zenon DEF CheckDuplicate, CheckBudget, Archivals

(* The download: what goes on to the copy is within the item cap. *)
LEMMA DownloadStep ==
    ASSUME MediaInv, NEW r \in Runs, Download(r)
    PROVE  MediaInv'
<1>1. CASE \E o \in Archivals : Exit(r, o) /\ UNCHANGED <<rows, artifacts, files, purge>>
    BY <1>1, GivesUp
<1>2. CASE \E d \in MediaOf[VideoOf[r]] :
             /\ ~(Length[d] > MaxItem) /\ job' = [job EXCEPT ![r].pc = "copy", ![r].digest = d]
             /\ UNCHANGED <<workdirs, rows, artifacts, files, purge>>
    <2>1. PICK d \in MediaOf[VideoOf[r]] :
             /\ ~(Length[d] > MaxItem) /\ job' = [job EXCEPT ![r].pc = "copy", ![r].digest = d]
             /\ UNCHANGED <<workdirs, rows, artifacts, files, purge>>
        BY <1>2, Zenon
    <2> DEFINE x == [job[r] EXCEPT !.pc = "copy", !.digest = d]
    <2>2. d \in Digests /\ Length[d] <= MaxItem
        <3>1. d \in Digests
            BY DEF Digests
        <3> QED
            BY <2>1, <3>1, MediaAssumption
    <2>3. Becomes(r, x)
        BY <2>1, Zenon DEF Becomes
    <2>4. job[r] \in Attempts
        BY DEF MediaInv, MediaTyped
    <2>5. x \in Attempts /\ x.digest = d
        BY <2>2, <2>4, Zenon DEF Attempts, Phases
    <2> HIDE DEF x
    <2>6. job' \in [Runs -> Attempts] /\ \A s \in Runs : Capped(s)'
        BY <2>2, <2>3, <2>5, AttemptChanges, Zenon
    <2> QED
        BY <2>1, <2>6, Unstored DEF MediaInv, MediaTyped
<1> QED
    BY <1>1, <1>2, Zenon DEF Download, Archivals

(* The copy into the store. *)
LEMMA CopyStep ==
    ASSUME MediaInv, NEW r \in Runs, Copy(r)
    PROVE  MediaInv'
<1>1. CASE Fails(r) /\ UNCHANGED purge
    BY <1>1, FailsKeeps
<1>2. CASE \E o \in Archivals : Exit(r, o) /\ UNCHANGED <<rows, artifacts, files, purge>>
    BY <1>2, GivesUp
<1>3. CASE /\ job[r].pc = "copy" /\ files' = files \cup {job[r].digest} /\ job' = [job EXCEPT ![r].pc = "reserve"]
           /\ UNCHANGED <<rows, artifacts, workdirs, purge>>
    <2>1. job' \in [Runs -> Attempts] /\ \A s \in Runs : Capped(s)'
        BY <1>3, AttemptGoes, Zenon DEF Phases
    <2>2. files' \subseteq Digests
        BY <1>3, Zenon DEF MediaInv, MediaTyped, Capped
    <2> QED
        BY <1>3, <2>1, <2>2, Unstored DEF MediaInv, MediaTyped
<1> QED
    BY <1>1, <1>2, <1>3, Zenon DEF Copy, Archivals

(* The reservation: it sums the rows itself, so what was seen before does  *)
(* not matter.                                                             *)
LEMMA ReserveStep ==
    ASSUME SumFacts, MediaInv, NEW r \in Runs, Reserve(r)
    PROVE  MediaInv'
<1>1. CASE Fails(r) /\ UNCHANGED purge
    BY <1>1, FailsKeeps
<1>2. CASE Exit(r, "skipped_budget") /\ UNCHANGED <<rows, artifacts, files, purge>>
    BY <1>2, GivesUp DEF Archivals
<1>3. CASE /\ UsedBytes + Length[job[r].digest] <= Budget
           /\ rows' = rows \cup {Row(r)} /\ artifacts' = artifacts \cup {[run |-> r, digest |-> job[r].digest]}
           /\ Exit(r, "stored") /\ UNCHANGED files /\ UNCHANGED purge
    <2>1. job[r].digest \in Digests /\ Length[job[r].digest] <= MaxItem
        BY Zenon DEF MediaInv, Capped, Reserve
    <2>2. job' \in [Runs -> Attempts] /\ \A s \in Runs : Capped(s)'
        BY <1>3, AttemptEnds, Zenon DEF Exit, Archivals
    <2> DEFINE m == Row(r)
    <2>3. m \in MediaRows /\ m.digest = job[r].digest /\ m.expired = FALSE
        BY <2>1, Zenon DEF Row, MediaRows
    <2>4. rows' = rows \cup {m}
        BY <1>3
    <2> HIDE DEF m
    <2>5. Unexpired' = Unexpired \cup {m}
        BY <2>3, <2>4, Zenon DEF Unexpired
    <2>6. LedgerInv'
        BY <1>3, <2>1, <2>3, <2>5, LedgerGrows, Zenon DEF MediaInv
    <2>7. [run |-> r, digest |-> job[r].digest] \in [run : Runs, digest : Digests]
        BY <2>1, Zenon
    <2>8. MediaTyped'
        BY <1>3, <2>2, <2>3, <2>4, <2>7 DEF Exit, MediaInv, MediaTyped
    <2> QED
        BY <2>2, <2>6, <2>8 DEF MediaInv
<1> QED
    BY <1>1, <1>2, <1>3, Zenon DEF Reserve

(* The process dies in the middle of an attempt. *)
LEMMA CrashStep ==
    ASSUME MediaInv, NEW r \in Runs, Crash(r)
    PROVE  MediaInv'
<1>1. job' \in [Runs -> Attempts] /\ \A s \in Runs : Capped(s)'
    BY AttemptEnds, Zenon DEF Crash, Archivals
<1> QED
    BY <1>1, Unstored DEF Crash, MediaInv, MediaTyped

(* Time passes over a row. *)
LEMMA ExpireStep ==
    ASSUME SumFacts, MediaInv, NEW m \in rows, Expire(m)
    PROVE  MediaInv'
<1> DEFINE e == [m EXCEPT !.expired = TRUE]
<1>1. m \in MediaRows
    BY DEF MediaInv, MediaTyped
<1>2. e \in MediaRows /\ e.expired = TRUE
    BY <1>1, Zenon DEF MediaRows
<1>3. rows' = (rows \ {m}) \cup {e}
    BY DEF Expire
<1> HIDE DEF e
<1>4. Unexpired' \subseteq Unexpired
    BY <1>2, <1>3, Zenon DEF Unexpired
<1>5. LedgerInv'
    BY <1>4, LedgerShrinks, Zenon DEF MediaInv
<1>6. MediaTyped'
    BY <1>2, <1>3 DEF Expire, MediaInv, MediaTyped
<1> QED
    BY <1>5, <1>6, Zenon DEF Expire, MediaInv, Capped

(* The purge. *)
LEMMA PurgesStep ==
    ASSUME SumFacts, MediaInv, PurgeStep \/ PurgeFails
    PROVE  MediaInv'
<1>1. UNCHANGED job /\ UNCHANGED workdirs
    BY Zenon DEF PurgeStep, PurgeSelect, PurgeArtifacts, PurgeRows, PurgeFails
<1>2. rows' = rows \/ rows' = Unexpired
    BY Zenon DEF PurgeStep, PurgeSelect, PurgeArtifacts, PurgeRows, PurgeFails
<1>3. artifacts' \subseteq artifacts /\ files' = files
    BY DEF PurgeStep, PurgeSelect, PurgeArtifacts, PurgeRows, PurgeFails
<1>5. Expired \subseteq MediaRows
    BY DEF Expired, MediaInv, MediaTyped
<1>6. purge' \in [step : {"idle", "artifacts", "rows"}, selected : SUBSET MediaRows]
    BY <1>5 DEF PurgeStep, PurgeSelect, PurgeArtifacts, PurgeRows, PurgeFails, MediaInv, MediaTyped
<1>7. Unexpired' \subseteq Unexpired /\ rows' \subseteq rows
    BY <1>2, Zenon DEF Unexpired
<1>8. LedgerInv'
    BY <1>7, LedgerShrinks, Zenon DEF MediaInv
<1>9. MediaTyped'
    BY <1>1, <1>3, <1>6, <1>7 DEF MediaInv, MediaTyped
<1> QED
    BY <1>1, <1>8, <1>9, Zenon DEF MediaInv, Capped

(* The invariant holds at first. *)
LEMMA MediaStarts == ASSUME SumFacts PROVE MediaInit => MediaInv
<1> SUFFICES ASSUME MediaInit PROVE MediaInv
    OBVIOUS
<1>1. 0 \in 0 .. Budget
    BY MediaAssumption
<1>2. MediaTyped
    BY <1>1 DEF MediaInit, MediaTyped, Attempts, Phases, Archivals
<1>3. \A r \in Runs : Capped(r)
    BY DEF MediaInit, Capped
<1>4. Unexpired = {} /\ Accounted = {}
    BY DEF MediaInit, Unexpired, Accounted
<1>5. IsFiniteSet(Accounted) /\ UsedBytes = 0
    BY <1>4, Zenon DEF SumFacts, UsedBytes
<1>6. LedgerInv
    BY <1>4, <1>5, MediaAssumption DEF LedgerInv
<1> QED
    BY <1>2, <1>3, <1>6 DEF MediaInv

(* Every step preserves it. *)
LEMMA MediaSteps ==
    ASSUME SumFacts PROVE MediaInv /\ [MediaNext]_mediaVars => MediaInv'
<1> SUFFICES ASSUME MediaInv, [MediaNext]_mediaVars PROVE MediaInv'
    OBVIOUS
<1>1. CASE UNCHANGED mediaVars
    BY <1>1, LedgerKept, Zenon DEF mediaVars, MediaInv, MediaTyped, Capped
<1>2. CASE MediaNext
    BY <1>2, LooksStep, DownloadStep, CopyStep, ReserveStep, CrashStep, ExpireStep, PurgesStep
    DEF MediaNext, ArchiveStep
<1> QED
    BY <1>1, <1>2

(* The artifact row that goes with a row of media_archives. *)
ArtifactOf(m) == [run |-> m.run, digest |-> m.digest]

(* Bytes are stored before they are reserved, and no row loses them.  The  *)
(* rows that a purge selected have expired, belong to attempts that are    *)
(* over, and lose their artifact rows before they go.                      *)
ArchiveInv ==
    /\ \A m \in rows : m.digest \in files
    /\ \A r \in Runs : job[r].pc = "reserve" => job[r].digest \in files
    /\ \A m \in rows \cup purge.selected : m.run \in Runs /\ job[m.run].pc = "done"
    /\ \A m \in purge.selected : m.expired
    /\ purge.step = "artifacts" => purge.selected \subseteq rows
    /\ purge.step = "rows" => \A m \in purge.selected : ArtifactOf(m) \notin artifacts

(* A step of the attempt of r that writes no row keeps it. *)
LEMMA QuietAttempt ==
    ASSUME ArchiveInv, NEW r \in Runs, job[r].pc # "done", UNCHANGED <<rows, artifacts, purge>>,
           files \subseteq files', \A s \in Runs : s # r => job'[s] = job[s],
           job'[r].pc = "reserve" => job'[r].digest \in files'
    PROVE  ArchiveInv'
<1>1. \A s \in Runs : job'[s].pc = "reserve" => job'[s].digest \in files'
    BY DEF ArchiveInv
<1>2. \A m \in rows \cup purge.selected : m.run \in Runs /\ job'[m.run].pc = "done"
    BY DEF ArchiveInv
<1>3. \A m \in rows' : m.digest \in files'
    BY DEF ArchiveInv
<1> QED
    BY <1>1, <1>2, <1>3, Zenon DEF ArchiveInv

(* What each step of an attempt makes of its local state. *)
LEMMA AttemptMoves ==
    ASSUME MediaTyped, NEW r \in Runs, ArchiveStep(r) \/ Crash(r)
    PROVE  /\ job[r].pc # "done"
           /\ \A s \in Runs : s # r => job'[s] = job[s]
           /\ job'[r].pc = "reserve" =>
            /\ job'[r].digest = job[r].digest /\ files' = files \cup {job[r].digest}
            /\ UNCHANGED <<rows, artifacts, purge>>
<1>0. job \in [Runs -> Attempts] /\ job[r] \in Attempts
    BY DEF MediaTyped
<1>1. job[r].pc # "done"
    BY DEF ArchiveStep, CheckDuplicate, CheckBudget, Download, Copy, Reserve, Crash
<1>2. ASSUME NEW p, NEW o, job' = [job EXCEPT ![r].pc = p, ![r].outcome = o]
      PROVE  (\A s \in Runs : s # r => job'[s] = job[s]) /\ job'[r].pc = p
    BY <1>0, <1>2, Zenon DEF Attempts
<1>3. ASSUME NEW p, job' = [job EXCEPT ![r].pc = p]
      PROVE  (\A s \in Runs : s # r => job'[s] = job[s]) /\ job'[r].pc = p /\ job'[r].digest = job[r].digest
    BY <1>0, <1>3, Zenon DEF Attempts
<1>4. ASSUME NEW p, NEW u, job' = [job EXCEPT ![r].pc = p, ![r].used = u]
      PROVE  (\A s \in Runs : s # r => job'[s] = job[s]) /\ job'[r].pc = p
    BY <1>0, <1>4, Zenon DEF Attempts
<1>5. ASSUME NEW p, NEW d, job' = [job EXCEPT ![r].pc = p, ![r].digest = d]
      PROVE  (\A s \in Runs : s # r => job'[s] = job[s]) /\ job'[r].pc = p
    BY <1>0, <1>5, Zenon DEF Attempts
<1>6. \/ \E o : job' = [job EXCEPT ![r].pc = "done", ![r].outcome = o]
      \/ job' = [job EXCEPT ![r].pc = "budget"]
      \/ \E u : job' = [job EXCEPT ![r].pc = "download", ![r].used = u]
      \/ \E d : job' = [job EXCEPT ![r].pc = "copy", ![r].digest = d]
      \/ /\ job' = [job EXCEPT ![r].pc = "reserve"]
         /\ files' = files \cup {job[r].digest} /\ UNCHANGED <<rows, artifacts, purge>>
    BY ZenonT(30) DEF ArchiveStep, CheckDuplicate, CheckBudget, Download, Copy, Reserve, Crash, Fails, Exit
<1> QED
    BY <1>1, <1>2, <1>3, <1>4, <1>5, <1>6

(* The steps of an attempt keep it: the reservation is the last of them.   *)
LEMMA AttemptKeeps ==
    ASSUME MediaInv, ArchiveInv, NEW r \in Runs, ArchiveStep(r) \/ Crash(r)
    PROVE  ArchiveInv'
<1>0. /\ job[r].pc # "done"
      /\ \A s \in Runs : s # r => job'[s] = job[s]
      /\ job'[r].pc = "reserve" =>
            /\ job'[r].digest = job[r].digest /\ files' = files \cup {job[r].digest}
            /\ UNCHANGED <<rows, artifacts, purge>>
    BY AttemptMoves DEF MediaInv
<1>1. CASE UNCHANGED <<rows, artifacts, files, purge>> /\ ~ (job'[r].pc = "reserve")
    BY <1>0, <1>1, QuietAttempt
<1>2. CASE files' = files \cup {job[r].digest} /\ UNCHANGED <<rows, artifacts, purge>>
    BY <1>0, <1>2, QuietAttempt
<1>3. CASE /\ job[r].pc = "reserve" /\ rows' = rows \cup {Row(r)}
           /\ artifacts' = artifacts \cup {[run |-> r, digest |-> job[r].digest]}
           /\ Exit(r, "stored") /\ UNCHANGED files /\ UNCHANGED purge
    <2>1. Row(r).run = r /\ Row(r).digest = job[r].digest
        BY DEF Row
    <2>2. job'[r].pc = "done"
        BY <1>3, Zenon DEF Exit, MediaInv, MediaTyped, Attempts
    <2>3. \A m \in rows' : m.digest \in files'
        BY <1>3, <2>1 DEF ArchiveInv
    <2>4. \A s \in Runs : job'[s].pc = "reserve" => job'[s].digest \in files'
        BY <1>0, <1>3, <2>2 DEF ArchiveInv
    <2>5. ASSUME NEW m \in rows' \cup purge.selected PROVE m.run \in Runs /\ job'[m.run].pc = "done"
        <3>1. CASE m \in rows \cup purge.selected
            BY <1>0, <2>2, <3>1, Zenon DEF ArchiveInv
        <3>2. CASE m = Row(r)
            BY <2>1, <2>2, <3>2, Zenon
        <3> QED
            BY <1>3, <3>1, <3>2, Zenon
    <2>6. ASSUME NEW m \in purge.selected, ArtifactOf(m) \notin artifacts PROVE ArtifactOf(m) \notin artifacts'
        <3>1. m.run # r
            BY <1>3 DEF ArchiveInv
        <3> QED
            BY <1>3, <2>6, <3>1 DEF ArtifactOf
    <2> QED
        BY <1>3, <2>3, <2>4, <2>5, <2>6, Zenon DEF ArchiveInv
<1>4. \/ UNCHANGED <<rows, artifacts, files, purge>>
      \/ files' = files \cup {job[r].digest} /\ UNCHANGED <<rows, artifacts, purge>>
      \/ /\ job[r].pc = "reserve" /\ rows' = rows \cup {Row(r)}
         /\ artifacts' = artifacts \cup {[run |-> r, digest |-> job[r].digest]}
         /\ Exit(r, "stored") /\ UNCHANGED files /\ UNCHANGED purge
    BY Zenon DEF ArchiveStep, CheckDuplicate, CheckBudget, Download, Copy, Reserve, Crash, Fails
<1> QED
    BY <1>0, <1>1, <1>2, <1>3, <1>4, Zenon

(* So do time and the purge. *)
LEMMA PurgeKeeps ==
    ASSUME MediaInv, ArchiveInv, PurgeStep \/ PurgeFails \/ \E m \in rows : Expire(m)
    PROVE  ArchiveInv'
<1>1. CASE PurgeSelect
    <2>1. purge'.selected = Expired /\ purge'.step = "artifacts"
        BY <1>1 DEF PurgeSelect
    <2>2. Expired \subseteq rows /\ \A m \in Expired : m.expired
        BY DEF Expired
    <2>3. UNCHANGED <<rows, artifacts, files, job>>
        BY <1>1 DEF PurgeSelect
    <2> QED
        BY <2>1, <2>2, <2>3 DEF ArchiveInv
<1>2. CASE PurgeArtifacts
    <2>1. purge'.selected = purge.selected /\ purge'.step = "rows" /\ purge.step = "artifacts"
        BY <1>2 DEF PurgeArtifacts, MediaInv, MediaTyped
    <2>2. UNCHANGED <<rows, files, job>>
        BY <1>2 DEF PurgeArtifacts
    <2>3. ASSUME NEW m \in purge.selected PROVE ArtifactOf(m) \notin artifacts'
        <3>1. m \in Expired /\ ArtifactOf(m).digest = m.digest
            BY <2>1 DEF ArchiveInv, Expired, ArtifactOf
        <3> QED
            BY <1>2, <3>1, Zenon DEF PurgeArtifacts
    <2> QED
        BY <2>1, <2>2, <2>3 DEF ArchiveInv
<1>3. CASE PurgeRows \/ PurgeFails
    <2>1. purge'.selected = {}
        BY <1>3 DEF PurgeRows, PurgeFails
    <2>2. rows' \subseteq rows /\ UNCHANGED <<files, job>>
        BY <1>3 DEF PurgeRows, PurgeFails, Unexpired
    <2> QED
        BY <2>1, <2>2 DEF ArchiveInv
<1>4. ASSUME NEW m \in rows, Expire(m) PROVE ArchiveInv'
    <2> DEFINE e == [m EXCEPT !.expired = TRUE]
    <2>1. e.run = m.run /\ e.digest = m.digest
        BY Zenon DEF MediaInv, MediaTyped, MediaRows
    <2>2. rows' = (rows \ {m}) \cup {e} /\ UNCHANGED <<artifacts, files, job, purge>>
        BY <1>4 DEF Expire
    <2> HIDE DEF e
    <2>3. m \notin purge.selected
        BY <1>4 DEF Expire, ArchiveInv
    <2>4. \A x \in rows' : x.digest \in files
        BY <2>1, <2>2 DEF ArchiveInv
    <2>5. \A x \in rows' \cup purge.selected : x.run \in Runs /\ job[x.run].pc = "done"
        BY <2>1, <2>2 DEF ArchiveInv
    <2>6. purge.step = "artifacts" => purge.selected \subseteq rows'
        BY <2>2, <2>3 DEF ArchiveInv
    <2> QED
        BY <2>2, <2>4, <2>5, <2>6, Zenon DEF ArchiveInv
<1> QED
    BY <1>1, <1>2, <1>3, <1>4, Zenon DEF PurgeStep

(* Both invariants, in every behaviour. *)
LEMMA MediaAlways == ASSUME SumFacts PROVE MediaSpec => [](MediaInv /\ ArchiveInv)
<1>1. MediaInit => ArchiveInv
    BY DEF MediaInit, ArchiveInv
<1>2. ASSUME MediaInv, ArchiveInv, [MediaNext]_mediaVars PROVE ArchiveInv'
    <2>1. CASE UNCHANGED mediaVars
        BY <1>2, <2>1, Zenon DEF mediaVars, ArchiveInv
    <2>2. CASE MediaNext
        BY <1>2, <2>2, AttemptKeeps, PurgeKeeps, Zenon DEF MediaNext
    <2> QED
        BY <1>2, <2>1, <2>2
<1> QED
    BY <1>1, <1>2, MediaStarts, MediaSteps, PTL DEF MediaSpec

(* They imply the properties. *)
LEMMA MediaInvariance == ASSUME SumFacts PROVE MediaSpec => []BudgetHolds
<1>1. MediaInv /\ ArchiveInv => BudgetHolds
    <2> SUFFICES ASSUME MediaInv, ArchiveInv PROVE BudgetHolds
        OBVIOUS
    <2>1. \A r \in Runs : job[r] \in Attempts
        BY DEF MediaInv, MediaTyped
    <2>2. MediaTypeOK
        BY <2>1 DEF MediaInv, MediaTyped, Attempts, MediaRows, MediaTypeOK
    <2>3. \A m \in Unexpired : m.digest \in files
        BY DEF ArchiveInv, Unexpired
    <2> QED
        BY <2>2, <2>3, Zenon DEF MediaInv, LedgerInv, BudgetHolds
<1> QED
    BY <1>1, MediaAlways, PTL

LEMMA PurgeActions == ASSUME SumFacts PROVE MediaSpec => PurgeFinishesWhatItSelected
<1> DEFINE Finishes ==
        /\ purge' # purge => Unexpired \subseteq rows'
        /\ PurgeRows => \A m \in purge.selected :
             m \notin rows' /\ [run |-> m.run, digest |-> m.digest] \notin artifacts'
<1>1. ASSUME ArchiveInv, [MediaNext]_mediaVars PROVE [Finishes]_mediaVars
    <2>1. ASSUME MediaNext, purge' # purge PROVE PurgeStep \/ PurgeFails
        BY <2>1, ZenonT(30)
        DEF MediaNext, ArchiveStep, CheckDuplicate, CheckBudget, Download, Copy, Reserve, Crash, Expire
    <2>2. ASSUME MediaNext, purge' # purge PROVE Unexpired \subseteq rows'
        BY <2>1, <2>2 DEF PurgeStep, PurgeSelect, PurgeArtifacts, PurgeRows, PurgeFails, Unexpired
    <2>3. ASSUME PurgeRows, NEW m \in purge.selected
          PROVE  m \notin rows' /\ [run |-> m.run, digest |-> m.digest] \notin artifacts'
        <3>1. rows' = Unexpired /\ UNCHANGED artifacts /\ purge.step = "rows"
            BY <2>3 DEF PurgeRows
        <3>2. m.expired /\ ArtifactOf(m) \notin artifacts
            BY <1>1, <2>3, <3>1 DEF ArchiveInv
        <3> QED
            BY <3>1, <3>2 DEF Unexpired, ArtifactOf
    <2> QED
        BY <1>1, <2>2, <2>3 DEF mediaVars
<1> QED
    BY <1>1, MediaAlways, PTL DEF MediaSpec, PurgeFinishesWhatItSelected

-----------------------------------------------------------------------------
(* The result, which rests on facts about cardinality.                     *)

INSTANCE FiniteSetTheorems

(* What the sum takes. *)
LEMMA Summing == SumFacts
<1>1. ASSUME NEW S, NEW x, NEW n \in Nat, IsFiniteSet(S)
      PROVE  /\ IsFiniteSet(S \cup ({x} \X (1 .. n)))
             /\ Cardinality(S \cup ({x} \X (1 .. n))) <= Cardinality(S) + n
    <2> DEFINE T == {x} \X (1 .. n)
    <2>1. IsFiniteSet(1 .. n) /\ Cardinality(1 .. n) = n
        BY FS_Interval
    <2>2. IsFiniteSet({x}) /\ Cardinality({x}) = 1
        BY FS_Singleton
    <2>3. IsFiniteSet(T) /\ Cardinality(T) = Cardinality({x}) * Cardinality(1 .. n)
        BY <2>1, <2>2, FS_Product, ZenonT(30)
    <2> HIDE DEF T
    <2>4. /\ IsFiniteSet(S \cup T)
          /\ Cardinality(S \cup T) = Cardinality(S) + Cardinality(T) - Cardinality(S \cap T)
        BY <1>1, <2>3, FS_Union
    <2>5. IsFiniteSet(S \cap T)
        BY <1>1, FS_Intersection
    <2>6. Cardinality(S) \in Nat /\ Cardinality(S \cap T) \in Nat
        BY <1>1, <2>5, FS_CardinalityType
    <2> QED
        BY <2>1, <2>2, <2>3, <2>4, <2>6 DEF T
<1>2. \A S : IsFiniteSet(S) => Cardinality(S) \in Nat
    BY FS_CardinalityType
<1>3. \A S, T : IsFiniteSet(T) /\ S \subseteq T => IsFiniteSet(S) /\ Cardinality(S) <= Cardinality(T)
    BY FS_Subset
<1>4. IsFiniteSet({}) /\ Cardinality({}) = 0
    BY FS_EmptySet
<1> QED
    BY <1>1, <1>2, <1>3, <1>4, ZenonT(30) DEF SumFacts

(* The unexpired rows never account for more than the budget and each is   *)
(* within the item cap and has its bytes in the store, for any number of   *)
(* runs that looked at the budget before any of them reserved              *)
(* (reserve_media_archive sums under a lock, after the store).             *)
THEOREM MediaBudgetHolds == MediaSpec => []BudgetHolds
    BY Summing, MediaInvariance

(* A call of delete_expired_media that returns leaves no row it selected   *)
(* and no artifact row of one, and takes no row that still counts, for any *)
(* number of runs and whatever happens between its three statements.       *)
THEOREM PurgesFinish == MediaSpec => PurgeFinishesWhatItSelected
    BY Summing, PurgeActions
=============================================================================
