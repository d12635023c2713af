---------------------------- MODULE Intelligence ----------------------------
(* What is made of the counters: demand signals, clusters of similar queries *)
(* and rewrite rules, which change what later searches ask the engine and so *)
(* what is counted.  Runs of auto_create_rewrites may overlap.               *)
EXTENDS Analytics, Sequences, SequencesExt

CONSTANTS
    Creators,      \* runs of icv_search_auto_synonyms
    Similar,       \* pairs of queries that pg_trgm finds similar enough
    LookBack,      \* the days the suggestions look back
    Sample,        \* queries to cluster
    SamplePairs,   \* pairs of them that may be similar
    SampleLength   \* bound: similar pairs

ASSUME IntelligenceAssumption == SamplePairs \subseteq Sample \X Sample

VARIABLES
    rewrites,      \* rules made: creator, source, target
    cpc, todo,     \* creators: control, the suggestions left
    overlapped     \* sources that two runs found without a rule at once

intelligenceVars == <<rewrites, cpc, todo, overlapped>>
vars == <<analyticsVars, intelligenceVars>>

Rules == [by : Creators, source : Queries, target : Queries]

TypeOK ==
    /\ AnalyticsTypeOK
    /\ rewrites \subseteq Rules
    /\ cpc \in [Creators -> {"idle", "check", "create"}]
    /\ \A c \in Creators : todo[c] \in Seq([source : Queries, target : Queries])
    /\ overlapped \subseteq Queries

Init ==
    /\ AnalyticsInit
    /\ rewrites = {}
    /\ cpc = [c \in Creators |-> "idle"] /\ todo = [c \in Creators |-> <<>>]
    /\ overlapped = {}

-----------------------------------------------------------------------------
(* Reading the counters.                                                     *)

\* suggest_synonyms: a query fails if more than half of its searches found
\* nothing and succeeds if fewer than a fifth did.
Fails(q) == 2 * Gaps(q, LookBack) > Volume(q, LookBack)

Succeeds(q) == 5 * Gaps(q, LookBack) < Volume(q, LookBack)

\* The best match of each failing query; among several any may be the best.
Suggestions ==
    LET candidates(q) == {t \in Queries : Succeeds(t) /\ t # q /\ {q, t} \in Similar}
        sources == {q \in Queries : Fails(q) /\ candidates(q) # {}}
    IN  {f \in [sources -> Queries] : \A q \in sources : f[q] \in candidates(q)}

\* get_demand_signals: queries in demand, by the searches that found nothing.
Demand(days, minVolume, minGap) ==
    {q \in Queries : /\ Volume(q, days) >= (IF minVolume < 1 THEN 1 ELSE minVolume)
                     /\ Gaps(q, days) >= minGap}

-----------------------------------------------------------------------------
(* Clusters.                                                                 *)

\* _UnionFind.find; path compression changes no root.
Root(parent, x) ==
    LET root[y \in DOMAIN parent] == IF parent[y] = y THEN y ELSE root[parent[y]]
    IN  root[x]

\* slip: the element, not its root, is hung under the other's root
UniteElement(parent, pair) == [parent EXCEPT ![pair[2]] = Root(parent, pair[1])]

\* _UnionFind.union.
Unite(parent, pair) ==
    LET x == Root(parent, pair[1])
        y == Root(parent, pair[2])
    IN  IF x = y THEN parent ELSE [parent EXCEPT ![y] = x]

\* cluster_queries: each query alone, then united pair by pair in the order of
\* the database; the queries with the same root are a cluster.
Clusters(queries, pairs) ==
    LET united[i \in 0..Len(pairs)] ==
            IF i = 0 THEN [q \in queries |-> q] ELSE Unite(united[i - 1], pairs[i])
        parent == united[Len(pairs)]
    IN  {{q \in queries : Root(parent, q) = r} : r \in {Root(parent, q) : q \in queries}}

-----------------------------------------------------------------------------
(* Rewrites.                                                                 *)

\* A rule on a source replaces the query before the search, which is logged as
\* the target; if there are several, the newest of equal priority wins.
Asked(s) ==
    LET rules == {r \in rewrites : r.source = Normal[s]}
    IN  IF rules = {} THEN {s} ELSE {r.target : r \in rules}

Search(w, s) ==
    /\ \E t \in Asked(s), zero \in BOOLEAN : Log(w, t, zero)
    /\ UNCHANGED intelligenceVars

\* auto_create_rewrites reads its suggestions once.
Suggest(c) ==
    /\ cpc[c] = "idle"
    /\ \E f \in Suggestions :
        /\ DOMAIN f # {}
        /\ LET list == SetToSeq(DOMAIN f)
           IN  todo' = [todo EXCEPT ![c] =
                    [i \in DOMAIN list |-> [source |-> list[i], target |-> f[list[i]]]]]
    /\ cpc' = [cpc EXCEPT ![c] = "check"]
    /\ UNCHANGED <<analyticsVars, rewrites, overlapped>>

Dropped(c) ==
    /\ todo' = [todo EXCEPT ![c] = Tail(@)]
    /\ cpc' = [cpc EXCEPT ![c] = IF Tail(todo[c]) = <<>> THEN "idle" ELSE "check"]

Known(q) == \E r \in rewrites : r.source = q

\* Below the threshold, a rule there already, or a dry run: nothing is made.
Skip(c) ==
    /\ cpc[c] = "check"
    /\ Dropped(c)
    /\ UNCHANGED <<analyticsVars, rewrites, overlapped>>

\* slip: the check for an existing rule is left out
Unchecked(c) ==
    /\ cpc[c] = "check"
    /\ cpc' = [cpc EXCEPT ![c] = "create"]
    /\ UNCHANGED <<analyticsVars, rewrites, todo, overlapped>>

\* No rule on the source is found; another run may find none as well.
Check(c) ==
    LET q == Head(todo[c]).source IN
    /\ cpc[c] = "check" /\ ~Known(q)
    /\ cpc' = [cpc EXCEPT ![c] = "create"]
    /\ overlapped' = overlapped \cup
            {x \in {q} : \E d \in Creators \ {c} : cpc[d] = "create" /\ Head(todo[d]).source = x}
    /\ UNCHANGED <<analyticsVars, rewrites, todo>>

\* QueryRewrite.objects.create: no constraint refuses a second one.
Make(c) ==
    LET s == Head(todo[c]) IN
    /\ cpc[c] = "create"
    /\ rewrites' = rewrites \cup {[by |-> c, source |-> s.source, target |-> s.target]}
    /\ Dropped(c)
    /\ UNCHANGED <<analyticsVars, overlapped>>

Next ==
    \/ AnalyticsNext /\ UNCHANGED intelligenceVars
    \/ \E w \in Searchers, s \in Spellings : Search(w, s)
    \/ \E c \in Creators : Suggest(c) \/ Skip(c) \/ Check(c) \/ Make(c)

Spec == Init /\ [][Next]_vars

-----------------------------------------------------------------------------
(* Properties.                                                               *)

\* auto_create_rewrites makes one rule per query ("already_exists"), unless two
\* runs looked for it at the same time: no lock or constraint keeps them apart.
OneRulePerQuery ==
    \A r1, r2 \in rewrites :
        r1.source = r2.source => r1 = r2 \/ r1.source \in overlapped

\* What holds a query holds those it is paired with.
Closed(S, pairs) == \A i \in DOMAIN pairs : pairs[i][1] \in S <=> pairs[i][2] \in S

\* The queries that similar pairs lead to: they are in each closed set with x.
Component(x, pairs) ==
    {y \in Sample : \A S \in SUBSET Sample : x \in S /\ Closed(S, pairs) => y \in S}

\* The clusters are the connected components of the similarity relation, in
\* whichever order the database returns the pairs (cluster_queries).
ClustersConnect ==
    events = 0 =>
        \A pairs \in BoundedSeq(SamplePairs, SampleLength) :
            Clusters(Sample, pairs) = {Component(x, pairs) : x \in Sample}
=============================================================================
