--------------------------- MODULE Merchandising ---------------------------
(* merchandised_search: the stages a query goes through before and after the *)
(* engine, each with the rules that match there or none.  What a stage looks *)
(* up (rules, the engine's answer) is chosen when the stage runs.            *)
EXTENDS Ranking, FiniteSets

CONSTANTS
    Docs,          \* documents
    PinLists,      \* the lists of pin rules that may match the query
    BoostLists,    \* the lists of boost rules that may match
    FilterKeys,    \* the fields that filters name
    Whole,         \* stands for all that a filter in an engine's syntax says
    Limit,         \* hits per page
    MaxPages,      \* bound: pages a caller may ask for
    Retries,       \* max_retries of a fallback rule
    Words          \* words of the fallback's alternative query

\* A query may match no rule.  Pins are where their help text asks: at -1, or from 0.
ASSUME MerchandisingAssumption ==
    /\ Limit \in Nat \ {0} /\ Scale \in Nat \ {0}
    /\ Retries \in Nat /\ Words \in Nat \ {0}
    /\ MaxPages \in Nat \ {0} /\ Whole \notin FilterKeys
    /\ IsFiniteSet(Docs) /\ <<>> \in PinLists \cap BoostLists
    /\ \A pins \in PinLists :
        pins \in Seq([doc : Docs, position : Nat \cup {Buried}])
    /\ \A boosts \in BoostLists :
        Len(boosts) \in Nat /\ \A i \in 1..Len(boosts) : boosts[i].weight \in Int

VARIABLES
    pc,          \* the stage
    matches,     \* what the engine finds, in its order
    pins, boosts,\* the rules that match the query
    scored,      \* whether the engine returns ranking scores
    page,        \* the page asked for, from 0
    log,         \* log_query as the caller gave it
    filter,      \* the filter so far, as pairs of a field and its origin
    given,       \* the caller's filter
    result,      \* the result so far
    outcome,     \* how the request ended
    tries,       \* searches made by the fallback
    logged       \* searches written to the query log by this request

inputs == <<matches, pins, boosts, scored, page>>
vars == <<pc, inputs, log, filter, given, result, outcome, tries, logged>>

Filters(origin) == {K \X {origin} : K \in SUBSET FilterKeys}

\* A filter written as a string, which only the caller can give.
Text == {<<Whole, "caller">>}

AllFilters == (SUBSET (FilterKeys \X {"caller", "preprocess", "rewrite"})) \cup {Text}

Empty == Result(<<>>, <<>>, 0)

Perms(S) == {s \in [1..Cardinality(S) -> S] : IsInjective(s)}

TypeOK ==
    /\ pc \in {"gate", "preprocess", "redirect", "rewrite", "search", "pins", "boosts",
               "fallback", "alternative", "banners", "done"}
    /\ matches \in UNION {Perms(S) : S \in SUBSET Docs}
    /\ pins \in PinLists /\ boosts \in BoostLists /\ scored \in BOOLEAN
    /\ page \in 0..(MaxPages - 1) /\ log \in BOOLEAN
    /\ filter \in AllFilters
    /\ given \in Filters("caller") \cup {Text}
    /\ Len(result.hits) <= Limit + Len(pins)
    /\ Len(result.scores) \in {0, Len(result.hits)}
    /\ result.total \in Nat
    /\ outcome \in {"none", "plain", "merchandised", "redirect", "skipped", "fallback"}
    /\ tries \in 0..(IF Retries = 0 THEN 1 ELSE Retries) /\ logged \in 0..(1 + tries)

Init ==
    /\ pc = "gate" /\ outcome = "none"
    /\ matches = <<>> /\ pins = <<>> /\ boosts = <<>> /\ scored = FALSE /\ page = 0
    /\ log \in BOOLEAN
    /\ given \in Filters("caller") \cup {Text} /\ filter = given
    /\ result = Empty /\ tries = 0 /\ logged = 0

-----------------------------------------------------------------------------
(* Before the engine.                                                        *)

To(stage) == pc' = stage

Ends(how) ==
    /\ outcome' = how /\ To("done") /\ filter' = {}
    /\ UNCHANGED <<inputs, log, given, result, tries, logged>>

\* {**low, **high}, where a string counts for nothing.
Merged(low, high) ==
    LET keys == {p[1] : p \in high \ Text}
    IN  (high \ Text) \cup {p \in low \ Text : p[1] \notin keys}

\* The hits of a page of what the engine finds, with their scores if it gives
\* any, and the total.
PageOf(found, withScores, n) ==
    LET start == n * Limit
        hits == SubSeq(found, start + 1, Min({start + Limit, Len(found)}))
    IN  Result(hits,
               IF withScores THEN [i \in DOMAIN hits |-> Scale - start - i] ELSE <<>>,
               Len(found))

Searched == PageOf(matches, scored, page)

Engine ==
    /\ matches' \in UNION {Perms(S) : S \in SUBSET Docs}
    /\ scored' \in BOOLEAN /\ page' \in 0..(MaxPages - 1)
    /\ result' = PageOf(matches', scored', page')
    /\ logged' = (IF log THEN 1 ELSE 0) /\ filter' = {} /\ given' = {}
    /\ UNCHANGED <<pins, boosts, log, tries>>

\* With the feature off this is a plain search.
Gate ==
    /\ pc = "gate"
    /\ \/ /\ To("preprocess")
          /\ UNCHANGED <<inputs, log, filter, given, result, outcome, tries, logged>>
       \/ Engine /\ outcome' = "plain" /\ To("done")

\* slip: the preprocessor's filters win over the caller's
MergedOver(extracted) == Merged(given, extracted)

\* The caller's filters win over the preprocessor's, unless they are a string.
MergedUnder(extracted) == Merged(extracted, given)

\* A preprocessor that is missing, skipped or fails leaves the query alone; else
\* its redirect comes before its skip_search, and that before its filters.
Preprocess ==
    /\ pc = "preprocess"
    /\ \/ \E extracted \in Filters("preprocess") :
            /\ filter' = IF extracted = {} THEN filter ELSE MergedUnder(extracted)
            /\ To("redirect")
            /\ UNCHANGED <<inputs, log, given, result, outcome, tries, logged>>
       \/ \E how \in {"redirect", "skipped"} : Ends(how)

\* The first rule that matches, or none, or the stage is skipped.
Redirect ==
    /\ pc = "redirect"
    /\ \/ /\ To("rewrite")
          /\ UNCHANGED <<inputs, log, filter, given, result, outcome, tries, logged>>
       \/ Ends("redirect")

\* A rewrite's filters win over what is there, or replace it.
Rewrite ==
    /\ pc = "rewrite"
    /\ \E added \in Filters("rewrite"), merge \in BOOLEAN :
        filter' = IF added = {} THEN filter
                  ELSE IF merge THEN Merged(filter, added) ELSE added
    /\ To("search")
    /\ UNCHANGED <<inputs, log, given, result, outcome, tries, logged>>

-----------------------------------------------------------------------------
(* The engine and after it.                                                  *)

Search == pc = "search" /\ Engine /\ To("pins") /\ UNCHANGED outcome

Pin ==
    /\ pc = "pins"
    /\ pins' \in PinLists /\ result' = ApplyPins(result, pins') /\ To("boosts")
    /\ UNCHANGED <<matches, boosts, scored, page, log, filter, given, outcome, tries, logged>>

Boost ==
    /\ pc = "boosts"
    /\ boosts' \in BoostLists /\ result' = ApplyBoosts(result, boosts')
    /\ To("fallback")
    /\ UNCHANGED <<matches, pins, scored, page, log, filter, given, outcome, tries, logged>>

\* slip: an empty page is enough, whatever the total
EmptyPage(res) == res.hits = <<>>

NothingFound(res) == res.hits = <<>> /\ res.total = 0

\* The zero-result rule: a redirect, a curated list or a category (one search),
\* or an alternative query, tried with ever fewer words.
Fallback ==
    /\ pc = "fallback"
    /\ \/ /\ To("banners")
          /\ UNCHANGED <<inputs, log, filter, given, result, outcome, tries, logged>>
       \/ /\ NothingFound(result)
          /\ \/ Ends("redirect")
             \/ /\ To("banners") /\ outcome' = "fallback"    \* an unknown kind of rule
                /\ UNCHANGED <<inputs, log, filter, given, result, tries, logged>>
             \/ /\ To("alternative")
                /\ UNCHANGED <<inputs, log, filter, given, result, outcome, tries, logged>>

\* slip: one try too many
RetryOnceMore(n) == n <= Retries /\ n < Words

\* The alternative query is tried again while it has words to drop.
Retry(n) == n < Retries /\ n < Words

\* execute_fallback calls search without log_query: each search is logged,
\* also those of a request that asked for none.
Alternative ==
    /\ pc = "alternative"
    /\ tries' = tries + 1 /\ logged' = logged + 1
    /\ \E found \in {<<>>} \cup {<<d>> : d \in Docs} :
        /\ result' = Result(found, <<>>, Len(found))
        /\ \/ found # <<>> /\ To("banners") /\ outcome' = "fallback"
           \/ /\ found = <<>> /\ Retry(tries')
              /\ To("alternative") /\ UNCHANGED outcome
           \/ /\ found = <<>> /\ To("banners") /\ outcome' = "fallback"
    /\ UNCHANGED <<inputs, log, filter, given>>

Banners ==
    /\ pc = "banners"
    /\ outcome' = IF outcome = "fallback" THEN outcome ELSE "merchandised"
    /\ To("done")
    /\ UNCHANGED <<inputs, log, filter, given, result, tries, logged>>

Next == \/ Gate \/ Preprocess \/ Redirect \/ Rewrite \/ Search \/ Pin \/ Boost
        \/ Fallback \/ Alternative \/ Banners

Spec == Init /\ [][Next]_vars

-----------------------------------------------------------------------------
(* Properties.                                                               *)

PinnedDocs == {pins[i].doc : i \in DOMAIN pins}

\* The engine's hits of this page.
Slice == ToSet(Searched.hits)

\* The pins raise documents only: each names another document, none is buried,
\* no two share a position, and none stands above its pin in the engine's page.
OnlyRaise ==
    /\ IsInjective([i \in DOMAIN pins |-> pins[i].doc])
    /\ IsInjective([i \in DOMAIN pins |-> pins[i].position])
    /\ \A i \in DOMAIN pins :
        LET at == PositionOf(Searched.hits, pins[i].doc)
        IN  pins[i].position # Buried /\ (at = 0 \/ at > pins[i].position)

\* Pinned documents are where their rules put them, or at the end if the page
\* is shorter (apply_pins), provided the pins only raise documents: moving one
\* from above another pin to below it shifts that pin off its position.
PinsLand ==
    pc = "boosts" /\ OnlyRaise =>
        \A i \in DOMAIN pins :
            LET at == PositionOf(result.hits, pins[i].doc)
            IN  \/ at = pins[i].position + 1
                \/ /\ at \in 1..pins[i].position
                   /\ \A j \in at..Len(result.hits) : result.hits[j] \in PinnedDocs

\* apply_pins drops the scores of the page when the first pin takes its only hit:
\* the list it pops from is then empty, and it adds to a list that has scores only.
ScoresDropped == pins # <<>> /\ Searched.hits = <<InPinOrder(pins)[1].doc>>

\* The engine's score of a document on its page, or none.
OwnScore(d) ==
    LET at == PositionOf(Searched.hits, d) IN IF at = 0 THEN NoScore ELSE Searched.scores[at]

\* Pins and boosts rearrange a page and lose no hit: its hits are the engine's
\* and the pinned ones, each once; its total counts each pinned document that
\* is not on the page, on whichever page it is; before boosts every hit has its
\* own score, and the list of scores is empty only if the engine's was or if the
\* first pin took the only hit (apply_pins, apply_boosts).
PageKept ==
    pc \in {"boosts", "fallback"} =>
        LET hits == result.hits
        IN  /\ IsInjective(hits)
            /\ ToSet(hits) = Slice \cup PinnedDocs
            /\ result.total = Len(matches) + Cardinality(PinnedDocs \ Slice)
            /\ pc = "boosts" =>
                result.scores = IF Searched.scores = <<>> \/ ScoresDropped THEN <<>>
                                ELSE [i \in DOMAIN hits |-> OwnScore(hits[i])]

\* A preprocessor cannot override what the caller filters by: a field the
\* caller's dict names reaches the engine with the caller's value, unless a
\* rewrite rule names a field, too (merchandised_search).
CallerFirst ==
    pc = "search" /\ given # Text =>
        \A p \in given : \/ p \in filter
                         \/ \E k \in FilterKeys : <<k, "rewrite">> \in filter

\* A fallback is offered only where the engine found nothing at all, not past
\* the last page of what it found, and where no stub was pinned; and a request
\* that asked not to be logged is logged by its fallback only.
FallbackLast ==
    /\ outcome = "fallback" => matches = <<>> /\ pins = <<>>
    /\ logged > 0 => log \/ tries > 0
=============================================================================
