------------------------------ MODULE Ranking ------------------------------
(* How pin and boost rules rearrange one page of search results: a result is *)
(* the page's hits, the parallel list of their scores (or no list at all)    *)
(* and the estimated total.  Scores are whole numbers; weights are halves.   *)
EXTENDS Integers, FiniteSets, SequencesExt

CONSTANTS
    Field,     \* per document: the value of the field that boosts look at
    Scale,     \* the score of the first hit when the engine gives none
    NoScore    \* a hit without a ranking score

Result(hits, scores, total) == [hits |-> hits, scores |-> scores, total |-> total]

PositionOf(hits, d) == SelectInSeq(hits, LAMBDA h : h = d)

\* The places 1 .. n, sorted: `ahead' has the pairs of those that are in order.
Sorted(n, ahead) ==
    LET place(i) == Cardinality({j \in 1..n : <<j, i>> \in ahead}) + 1
    IN  [k \in 1..n |-> CHOOSE i \in 1..n : place(i) = k]

-----------------------------------------------------------------------------
(* Pins.                                                                     *)

Buried == -1

\* get_pins_for_query: by position, the buried ones last, stably.
PinAhead(pins, i, j) ==
    LET p == pins[i].position
        q == pins[j].position
    IN  \/ p # Buried /\ (q = Buried \/ p < q)
        \/ p = q /\ i < j

InPinOrder(pins) ==
    LET ahead == {x \in (DOMAIN pins) \X (DOMAIN pins) : PinAhead(pins, x[1], x[2])}
        order == Sorted(Len(pins), ahead)
    IN  [i \in DOMAIN pins |-> pins[order[i]]]

\* slip: a document that is on the page stays where it was, too
PinTwice(res, pin) ==
    LET to == IF pin.position \in 0..Len(res.hits) THEN pin.position + 1
              ELSE Len(res.hits) + 1
    IN  Result(InsertAt(res.hits, to, pin.doc),
               IF res.scores = <<>> THEN <<>> ELSE InsertAt(res.scores, to, NoScore),
               res.total + 1)

\* One pin: take the document out of the page, or make a stub that raises the
\* total, and put it where the rule says.  The position counts from the start
\* of the page, whatever the page's offset.
ApplyPin(res, pin) ==
    LET at == PositionOf(res.hits, pin.doc)
        hits == IF at = 0 THEN res.hits ELSE RemoveAt(res.hits, at)
        scored == at \in DOMAIN res.scores
        scores == IF scored THEN RemoveAt(res.scores, at) ELSE res.scores
        to == IF pin.position = Buried \/ pin.position > Len(hits)
              THEN Len(hits) + 1 ELSE pin.position + 1
    IN  Result(InsertAt(hits, to, pin.doc),
               IF scores = <<>> THEN <<>>
               ELSE InsertAt(scores, to, IF scored THEN res.scores[at] ELSE NoScore),
               res.total + (IF at = 0 THEN 1 ELSE 0))

\* One pin after the other.
PinInTurn(res, pins) ==
    LET after[i \in 0..Len(pins)] == IF i = 0 THEN res ELSE ApplyPin(after[i - 1], pins[i])
    IN  after[Len(pins)]

\* slip: pins are applied in the order of their rules
InRuleOrder(res, pins) == PinInTurn(res, pins)

ApplyPins(res, pins) == PinInTurn(res, InPinOrder(pins))

-----------------------------------------------------------------------------
(* Boosts.                                                                   *)

Missing == [number |-> 0, numeric |-> FALSE, rank |-> 0, parts |-> {}]

\* _evaluate_operator: numbers if both sides are, else lower-case text, whose
\* order is rank and whose substrings are parts.
Satisfies(d, rule) ==
    LET f == Field[d]
        v == rule.value
        both == f.numeric /\ v.numeric
        x == IF both THEN f.number ELSE f.rank
        y == IF both THEN v.number ELSE v.rank
    IN  /\ f # Missing
        /\ CASE rule.operator = "exists" -> TRUE
             [] rule.operator = "eq" -> x = y
             [] rule.operator = "neq" -> x # y
             [] rule.operator = "gt" -> x > y
             [] rule.operator = "gte" -> x >= y
             [] rule.operator = "lt" -> x < y
             [] rule.operator = "lte" -> x <= y
             [] rule.operator = "contains" -> v.rank \in f.parts

\* The weights of the rules the document satisfies, multiplied; 2 is one.
Factor(d, rules) ==
    LET product[i \in 0..Len(rules)] ==
            IF i = 0 THEN 1
            ELSE product[i - 1] * (IF Satisfies(d, rules[i]) THEN rules[i].weight ELSE 2)
    IN  product[Len(rules)]

\* Stub scores and missing ones are made up from the position; then the whole
\* page is sorted by score, pinned documents included.
ApplyBoosts(res, rules) ==
    LET n == Len(res.hits)
        score(i) == IF i \in DOMAIN res.scores /\ res.scores[i] # NoScore
                    THEN res.scores[i] ELSE Scale - (Scale * (i - 1)) \div n
        final == [i \in 1..n |-> score(i) * Factor(res.hits[i], rules)]
        ahead == {x \in (1..n) \X (1..n) :
                    \/ final[x[1]] > final[x[2]]
                    \/ final[x[1]] = final[x[2]] /\ x[1] < x[2]}
        order == Sorted(n, ahead)
    IN  IF rules = <<>> \/ n = 0 THEN res
        ELSE Result([i \in 1..n |-> res.hits[order[i]]],
                    [i \in 1..n |-> final[order[i]]], res.total)
=============================================================================
