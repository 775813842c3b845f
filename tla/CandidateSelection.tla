-------------------------- MODULE CandidateSelection --------------------------
(***************************************************************************)
(* From a converted source to the candidate rows of its run: the three     *)
(* HTML strategies, the score and its thresholds, the fold that picks the  *)
(* winner, and what the terminal transaction and the schema then require.  *)
(*                                                                         *)
(* A container stands for an element with the blocks below it, reduced to  *)
(* the lengths and counts the evaluator measures.                          *)
(***************************************************************************)
EXTENDS Integers, Sequences

CONSTANTS Pages,    \* HTML sources: their containers in document order
          Texts,    \* sources of the other routes: one container each
          MaxBytes  \* bound on the text of a source: max_input_bytes

Names == {"html", "body", "main", "article", "section", "div", "none"}
Measure == [name : Names, text : 0 .. MaxBytes, paragraphs : Nat, links : Nat,
            boilerplate : Nat, titled : BOOLEAN, elements : Nat]

ASSUME BytesAssumption == MaxBytes \in Nat
ASSUME SourcesAssumption == Pages \subseteq Seq(Measure) /\ Texts \subseteq Measure

VARIABLES
    source,     \* the route and its containers
    phase,      \* where the conversion stands
    candidates, \* the measures of each strategy's candidate
    decisions,  \* CandidateDecision of each, so far
    next,       \* the decision the fold looks at
    best,       \* the fold's result so far, 0 for None
    outcome     \* of the run

vars == <<source, phase, candidates, decisions, next, best, outcome>>

Routes == {"html", "pdf", "provider", "link_post", "transcript"}
Strategies == <<"semantic", "readability", "density">>
Outcomes == {"none", "succeeded", "low_quality", "resource_limit", "refused"}

Smaller(a, b) == IF a < b THEN a ELSE b

(* component and share: a weight scaled by a fraction that stops at one. *)
Component(value, full, weight) == (Smaller(value, full) * weight) \div full

Share(total, excluded, weight) ==
    IF total = 0 THEN 0 ELSE ((total - Smaller(excluded, total)) * weight) \div total

Score(c) ==
    Component(c.text, 300, 300) + Component(c.paragraphs, 4, 200) + Share(c.text, c.links, 200)
        + Share(c.text, c.boilerplate, 200) + (IF c.titled THEN 100 ELSE 0)

Accepted(c) == c.text >= 120 /\ Score(c) >= 350

Decision(strategy, c, selected) ==
    [strategy |-> strategy, score |-> Score(c), accepted |-> Accepted(c), selected |-> selected]

Labels == {"semantic", "readability", "density"} \cup Routes
DecisionType == [strategy : Labels, score : 0 .. 1000, accepted : BOOLEAN, selected : BOOLEAN]

Empty == [name |-> "none", text |-> 0, paragraphs |-> 0, links |-> 0, boilerplate |-> 0,
          titled |-> FALSE, elements |-> 0]

(* Text that is neither link nor boilerplate, each subtraction stopping at 0. *)
Positive(n) == IF n < 0 THEN 0 ELSE n
NetText(c) == Positive(Positive(c.text - c.links) - c.boilerplate)
Density(c) == (NetText(c) * 1000) \div (IF c.elements = 0 THEN 1 ELSE c.elements)

(* The first article with a block, else the first main with one. *)
Semantic(page) ==
    LET named(name) == {k \in 1 .. Len(page) : page[k].name = name /\ page[k].text > 0}
        first(S) == page[CHOOSE k \in S : \A l \in S : k <= l]
    IN  IF named("article") # {} THEN first(named("article"))
        ELSE IF named("main") # {} THEN first(named("main"))
        ELSE Empty

(* max_by_key returns the last of several maxima. *)
BestContainer(page, Key(_)) ==
    IF page = <<>> THEN Empty
    ELSE page[CHOOSE k \in 1 .. Len(page) : \A l \in 1 .. Len(page) :
                  Key(page[l]) < Key(page[k]) \/ (Key(page[l]) = Key(page[k]) /\ l <= k)]

Extract(page) ==
    <<Semantic(page), BestContainer(page, NetText), BestContainer(page, Density)>>

Init ==
    /\ source \in [route : {"html"}, page : Pages, fits : BOOLEAN]
                  \cup [route : Routes \ {"html"}, page : {<<t>> : t \in Texts}, fits : {TRUE}]
    /\ phase = "convert"
    /\ candidates = <<>> /\ decisions = <<>>
    /\ next = 1 /\ best = 0
    /\ outcome = "none"

(* from_html: the limits, then one candidate per strategy from one DOM. *)
ParseHtml ==
    /\ phase = "convert" /\ source.route = "html"
    /\ IF source.fits
       THEN /\ candidates' = Extract(source.page) /\ phase' = "evaluate" /\ UNCHANGED outcome
       ELSE /\ phase' = "done" /\ outcome' = "resource_limit" /\ UNCHANGED candidates
    /\ UNCHANGED <<source, decisions, next, best>>

Evaluate ==
    /\ phase = "evaluate" /\ Len(decisions) < Len(candidates)
    /\ LET k == Len(decisions) + 1
       IN  decisions' = Append(decisions, Decision(Strategies[k], candidates[k], FALSE))
    /\ phase' = IF Len(decisions) + 1 = Len(candidates) THEN "winner" ELSE "evaluate"
    /\ UNCHANGED <<source, candidates, next, best, outcome>>

(* Variant: a tie goes to the later strategy. *)
Consider_LastOfTies ==
    /\ phase = "winner" /\ next <= Len(decisions)
    /\ best' = IF decisions[next].accepted
                      /\ (best = 0 \/ decisions[next].score >= decisions[best].score)
               THEN next ELSE best
    /\ next' = next + 1
    /\ UNCHANGED <<source, phase, candidates, decisions, outcome>>

(* winner: one step of the fold over the accepted decisions. *)
Consider ==
    /\ phase = "winner" /\ next <= Len(decisions)
    /\ IF decisions[next].accepted
       THEN best' = IF best = 0 THEN next
                    ELSE IF decisions[next].score > decisions[best].score THEN next ELSE best
       ELSE best' = best
    /\ next' = next + 1
    /\ UNCHANGED <<source, phase, candidates, decisions, outcome>>

(* Variant: the decisions keep the mark of every candidate that was best. *)
Select_EveryAccepted ==
    /\ phase = "winner" /\ next > Len(decisions) /\ best # 0
    /\ decisions' = [k \in 1 .. Len(decisions) |->
                        [decisions[k] EXCEPT !.selected = decisions[k].accepted]]
    /\ phase' = "complete"
    /\ UNCHANGED <<source, candidates, next, best, outcome>>

Select ==
    /\ phase = "winner" /\ next > Len(decisions) /\ best # 0
    /\ decisions' = [k \in 1 .. Len(decisions) |->
                        [decisions[k] EXCEPT !.selected = decisions[k].strategy = decisions[best].strategy]]
    /\ phase' = "complete"
    /\ UNCHANGED <<source, candidates, next, best, outcome>>

LowQuality ==
    /\ phase = "winner" /\ next > Len(decisions) /\ best = 0
    /\ phase' = "reject"
    /\ UNCHANGED <<source, candidates, decisions, next, best, outcome>>

(* from_pdf, from_provider and from_transcript: one decision, which a link *)
(* post and a transcript do not have to pass.                              *)
ConvertText ==
    LET c == source.page[1]
        selected == Accepted(c) \/ source.route \in {"link_post", "transcript"}
    IN
    /\ phase = "convert" /\ source.route # "html"
    /\ decisions' = <<Decision(source.route, c, selected)>>
    /\ phase' = IF selected THEN "complete" ELSE "reject"
    /\ UNCHANGED <<source, candidates, next, best, outcome>>

Selected == {k \in 1 .. Len(decisions) : decisions[k].selected}

(* validate_candidates: the count of selected decisions. *)
ValidSelection(count) ==
    decisions # <<>> /\ (IF count = 0 THEN Selected = {} ELSE \E k \in Selected : Selected = {k})

(* Constraints of extractor.candidates: scores in the unit interval, one   *)
(* row per strategy, one selected row per run.                             *)
SchemaHolds ==
    /\ \A k \in 1 .. Len(decisions) : decisions[k].score \in 0 .. 1000
    /\ \A k, l \in 1 .. Len(decisions) : decisions[k].strategy = decisions[l].strategy => k = l
    /\ \A k, l \in Selected : k = l

Complete ==
    /\ phase = "complete"
    /\ outcome' = IF ValidSelection(1) /\ SchemaHolds THEN "succeeded" ELSE "refused"
    /\ phase' = "done"
    /\ UNCHANGED <<source, candidates, decisions, next, best>>

RejectQuality ==
    /\ phase = "reject"
    /\ outcome' = IF ValidSelection(0) /\ SchemaHolds THEN "low_quality" ELSE "refused"
    /\ phase' = "done"
    /\ UNCHANGED <<source, candidates, decisions, next, best>>

Next ==
    \/ ParseHtml \/ Evaluate \/ Consider \/ Select \/ LowQuality \/ ConvertText
    \/ Complete \/ RejectQuality

Spec == Init /\ [][Next]_vars

-----------------------------------------------------------------------------

TypeOK ==
    /\ phase \in {"convert", "evaluate", "winner", "complete", "reject", "done"}
    /\ candidates \in Seq(Measure)
    /\ decisions \in Seq(DecisionType)
    /\ next \in 1 .. Len(decisions) + 1
    /\ best \in 0 .. Len(decisions)
    /\ outcome \in Outcomes

(* b is the first of the best accepted decisions below n, or 0 for none. *)
FirstBest(b, n) ==
    /\ b = 0 => \A k \in 1 .. n - 1 : ~decisions[k].accepted
    /\ b # 0 =>
          /\ b \in 1 .. n - 1 /\ decisions[b].accepted
          /\ \A k \in 1 .. n - 1 : decisions[k].accepted =>
                /\ decisions[k].score <= decisions[b].score
                /\ k < b => decisions[k].score < decisions[b].score

(* winner returns the highest accepted score, and the earliest strategy of *)
(* those that tie: semantic, then readability, then density.               *)
WinnerIsFirstBest ==
    phase \in {"winner", "complete", "reject"} /\ decisions # <<>> /\ source.route = "html"
        => FirstBest(best, next)

(* What a conversion hands over is never refused by validate_candidates or *)
(* by a constraint of the candidates table, so a converted run ends.       *)
CommitIsNeverRefused ==
    outcome # "refused"

=============================================================================
