------------------------- MODULE MCCandidateSelection -------------------------
(* Pages are chains of nested containers, outermost first: lengths around  *)
(* the thresholds 120 and 300, links longer than the text they sit in, a   *)
(* heading that repeats the title.                                         *)
EXTENDS CandidateSelection

Container(n, t, p, l, b, h, e) ==
    [name |-> n, text |-> t, paragraphs |-> p, links |-> l, boilerplate |-> b,
     titled |-> h, elements |-> e]

Inner ==
    {Container(n, t, p, l, b, h, 2 + p) :
        n \in {"article", "main", "div"}, t \in {119, 120, 301}, p \in {1, 5}, l \in {0, 130},
        b \in {0, 60}, h \in BOOLEAN}

Outer(c) ==
    {Container("body", c.text + t, c.paragraphs + p, c.links + l, c.boilerplate + b,
               c.titled, c.elements + 1 + p) :
        t \in {0, 180}, p \in {0, 1}, l \in {0, 100}, b \in {0, 180}}

SmallPages ==
    UNION {{<<o, c>> : o \in Outer(c)} : c \in Inner} \cup {<<[Empty EXCEPT !.name = "body"]>>}

ShortTexts ==
    {Empty} \cup
    {Container("none", t, p, 0, 0, h, 0) : t \in {119, 120, 301}, p \in {0, 1, 5}, h \in BOOLEAN}

=============================================================================
