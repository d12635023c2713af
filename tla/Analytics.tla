----------------------------- MODULE Analytics -----------------------------
(* The counters kept of searches and clicks on one index.  A search is added *)
(* to the row of its normalised query and day by an update, or a create when *)
(* there is no row, or an update again when somebody else created it; inside *)
(* a transaction others see the change, and may touch the row, when it has   *)
(* ended.  Clicks are kept as they are spelled and rolled up by a command.   *)
EXTENDS Integers, FiniteSets, Functions

CONSTANTS
    Spellings,   \* queries as visitors type them
    Normal,      \* per spelling: stripped and in lower case
    Searchers,   \* requests that search and log
    Atomic,      \* those that may do so in a transaction of theirs
    Mode,        \* ICV_SEARCH_LOG_MODE
    ZeroOnly,    \* ICV_SEARCH_LOG_ZERO_RESULTS_ONLY
    Rollups,     \* runs of icv_search_click_aggregate
    MaxDay,      \* bound: the last day
    MaxEvents,   \* bound: searches and clicks together
    NoRow,       \* no row in the table
    Free         \* a row that no transaction has changed

Queries == {Normal[s] : s \in Spellings}
Days == 0..MaxDay
Rows == [n : 0..MaxEvents, z : 0..MaxEvents]
None == [n |-> 0, z |-> 0]

ASSUME AnalyticsAssumption ==
    /\ IsFiniteSet(Spellings) /\ Spellings # {} /\ IsFiniteSet(Searchers)
    /\ Atomic \subseteq Searchers /\ Free \notin Searchers
    /\ Normal \in [Spellings -> Spellings]
    /\ \A s \in Spellings : Normal[Normal[s]] = Normal[s]
    /\ Mode \in {"individual", "aggregate", "both"} /\ ZeroOnly \in BOOLEAN
    /\ MaxDay \in Nat /\ MaxEvents \in Nat /\ NoRow \notin Nat \cup Rows

VARIABLES
    day, events,
    agg,                   \* SearchQueryAggregate: a row per query and day
    tx,                    \* searchers: their transaction
    lock, pending,         \* rows: who has changed one and not committed, by what
    spc, sarg,             \* searchers: control; query, day, result
    raw, rolled,           \* SearchClick rows and SearchClickAggregate counts
    rpc, rday, rcount,     \* rollups: control, day, groups yet to be written
    asked, lost,           \* searches to be counted, and those that were not
    clicked, purged, spoilt\* clicks ever; raw rows deleted; counts gone wrong

searchVars == <<agg, tx, lock, pending, spc, sarg, asked, lost>>
clickVars == <<raw, rolled, rpc, rday, rcount, clicked, purged, spoilt>>
analyticsVars == <<day, events, searchVars, clickVars>>

Idle == [query |-> CHOOSE q \in Queries : TRUE, day |-> 0, zero |-> FALSE]

AnalyticsTypeOK ==
    /\ day \in Days /\ events \in 0..MaxEvents
    /\ agg \in [Queries \X Days -> Rows \cup {NoRow}]
    /\ tx \in [Searchers -> {"none", "open", "broken"}]
    /\ lock \in [Queries \X Days -> Searchers \cup {Free}]
    /\ pending \in [Queries \X Days -> Rows]
    /\ spc \in [Searchers -> {"idle", "update", "create", "retry"}]
    /\ sarg \in [Searchers -> [query : Queries, day : Days, zero : BOOLEAN]]
    /\ raw \in [Spellings \X Days -> 0..MaxEvents]
    /\ rolled \in [Spellings \X Days -> (1..MaxEvents) \cup {NoRow}]
    /\ rpc \in [Rollups -> {"idle", "write", "delete"}] /\ rday \in [Rollups -> Days]
    /\ rcount \in [Rollups -> [Spellings -> 0..MaxEvents]]
    /\ asked \in [Queries \X Days -> 0..MaxEvents] /\ lost \in [Queries \X Days -> 0..MaxEvents]
    /\ clicked \in [Spellings \X Days -> 0..MaxEvents]
    /\ purged \in [Spellings \X Days -> BOOLEAN]
    /\ spoilt \in [Spellings \X Days -> BOOLEAN]

AnalyticsInit ==
    /\ day = 0 /\ events = 0
    /\ agg = [p \in Queries \X Days |-> NoRow]
    /\ tx = [w \in Searchers |-> "none"]
    /\ lock = [p \in Queries \X Days |-> Free] /\ pending = [p \in Queries \X Days |-> None]
    /\ spc = [w \in Searchers |-> "idle"] /\ sarg = [w \in Searchers |-> Idle]
    /\ raw = [p \in Spellings \X Days |-> 0]
    /\ rolled = [p \in Spellings \X Days |-> NoRow]
    /\ rpc = [r \in Rollups |-> "idle"] /\ rday = [r \in Rollups |-> 0]
    /\ rcount = [r \in Rollups |-> [s \in Spellings |-> 0]]
    /\ asked = [p \in Queries \X Days |-> 0] /\ lost = [p \in Queries \X Days |-> 0]
    /\ clicked = [p \in Spellings \X Days |-> 0]
    /\ purged = [p \in Spellings \X Days |-> FALSE]
    /\ spoilt = [p \in Spellings \X Days |-> FALSE]

-----------------------------------------------------------------------------
(* Searches.                                                                 *)

\* slip: a search without results is added twice
PlusBoth(row, zero) == [n |-> row.n + (IF zero THEN 2 ELSE 1), z |-> row.z + (IF zero THEN 1 ELSE 0)]

Plus(row, zero) == [n |-> row.n + 1, z |-> row.z + (IF zero THEN 1 ELSE 0)]

Key(w) == <<sarg[w].query, sarg[w].day>>

Row(p) == IF agg[p] = NoRow THEN None ELSE agg[p]

Idles(w) == spc' = [spc EXCEPT ![w] = "idle"] /\ sarg' = [sarg EXCEPT ![w] = Idle]

\* An error breaks the transaction it happens in: only its rollback is left.
Breaks(w) == tx' = [tx EXCEPT ![w] = IF @ = "none" THEN @ ELSE "broken"]

\* _maybe_log_query.  A row of the query's own comes before the counters, but in
\* mode "aggregate" or when it is sampled out: if it is refused, and whatever is
\* asked of a broken transaction is, the counters are not reached.
Log(w, s, zero) ==
    LET key == <<Normal[s], day>> IN
    /\ spc[w] = "idle" /\ events < MaxEvents
    /\ ZeroOnly => zero
    /\ events' = events + 1
    /\ asked' = [asked EXCEPT ![key] = @ + (IF Mode = "individual" THEN 0 ELSE 1)]
    /\ \/ /\ tx[w] # "broken"
          /\ IF Mode = "individual" THEN UNCHANGED <<spc, sarg>>
             ELSE /\ spc' = [spc EXCEPT ![w] = "update"]
                  /\ sarg' = [sarg EXCEPT ![w] = [query |-> key[1], day |-> day, zero |-> zero]]
          /\ UNCHANGED <<tx, lost>>
       \/ /\ Mode # "aggregate" \/ tx[w] = "broken"
          /\ Breaks(w)
          /\ lost' = [lost EXCEPT ![key] = @ + (IF Mode = "individual" THEN 0 ELSE 1)]
          /\ UNCHANGED <<spc, sarg>>
    /\ UNCHANGED <<day, agg, lock, pending, clickVars>>

\* What w reads: the rows committed and those it has made itself.
Sees(w, p) == agg[p] # NoRow \/ lock[p] = w

\* The counter moves, by an expression the database evaluates, and w is done.
\* In a transaction the change is w's until it commits.
Counted(w) ==
    /\ IF tx[w] = "none"
       THEN /\ agg' = [agg EXCEPT ![Key(w)] = Plus(Row(Key(w)), sarg[w].zero)]
            /\ UNCHANGED <<lock, pending>>
       ELSE /\ lock' = [lock EXCEPT ![Key(w)] = w]
            /\ pending' = [pending EXCEPT ![Key(w)] = Plus(@, sarg[w].zero)]
            /\ UNCHANGED agg
    /\ Idles(w)
    /\ UNCHANGED <<day, events, tx, asked, lost, clickVars>>

\* The broad except of _maybe_log_query: the search is not counted.
Lost(w) ==
    /\ lost' = [lost EXCEPT ![Key(w)] = @ + 1]
    /\ Idles(w) /\ Breaks(w)
    /\ UNCHANGED <<day, events, agg, lock, pending, asked, clickVars>>

Goes(w, stage) ==
    /\ spc' = [spc EXCEPT ![w] = stage]
    /\ UNCHANGED <<day, events, agg, tx, lock, pending, sarg, asked, lost, clickVars>>

\* _log_aggregate: update, and create if no row was updated.  A row that another
\* transaction has changed is waited for; one that it made is not seen.
Update(w) ==
    /\ spc[w] = "update"
    /\ \/ Sees(w, Key(w)) /\ lock[Key(w)] \in {w, Free} /\ Counted(w)
       \/ ~Sees(w, Key(w)) /\ Goes(w, "create")

\* slip: the row is created over another's
CreateOver(w) ==
    /\ spc[w] = "create" /\ lock[Key(w)] = Free
    /\ agg' = [agg EXCEPT ![Key(w)] = Plus(None, sarg[w].zero)]
    /\ Idles(w)
    /\ UNCHANGED <<day, events, tx, lock, pending, asked, lost, clickVars>>

\* The unique constraint refuses a second row, as soon as it is known whether
\* the first stays; in a transaction the second update is then refused, too.
Create(w) ==
    /\ spc[w] = "create" /\ lock[Key(w)] = Free
    /\ \/ agg[Key(w)] = NoRow /\ Counted(w)
       \/ agg[Key(w)] # NoRow /\ tx[w] = "none" /\ Goes(w, "retry")
       \/ agg[Key(w)] # NoRow /\ tx[w] # "none" /\ Lost(w)

\* An update of no row is not noticed.
Retry(w) ==
    /\ spc[w] = "retry"
    /\ \/ agg[Key(w)] # NoRow /\ lock[Key(w)] = Free /\ Counted(w)
       \/ agg[Key(w)] = NoRow /\ Lost(w)

\* Any statement may fail, and does for one of two transactions that wait for
\* each other's rows; or the request's process is killed.
Fail(w) == spc[w] # "idle" /\ Lost(w)

\* A transaction around one or more searches of a request (ATOMIC_REQUESTS, or
\* a view or a caller of its own).
Begin(w) ==
    /\ w \in Atomic /\ spc[w] = "idle" /\ tx[w] = "none"
    /\ tx' = [tx EXCEPT ![w] = "open"]
    /\ UNCHANGED <<day, events, agg, lock, pending, spc, sarg, asked, lost, clickVars>>

Held(w) == {p \in Queries \X Days : lock[p] = w}

Released(w) ==
    /\ tx' = [tx EXCEPT ![w] = "none"]
    /\ lock' = [p \in Queries \X Days |-> IF p \in Held(w) THEN Free ELSE lock[p]]
    /\ pending' = [p \in Queries \X Days |-> IF p \in Held(w) THEN None ELSE pending[p]]

Commit(w) ==
    /\ spc[w] = "idle" /\ tx[w] = "open"
    /\ agg' = [p \in Queries \X Days |->
                IF p \in Held(w) THEN [n |-> Row(p).n + pending[p].n, z |-> Row(p).z + pending[p].z]
                ELSE agg[p]]
    /\ Released(w)
    /\ UNCHANGED <<day, events, spc, sarg, asked, lost, clickVars>>

\* All that the transaction has counted is undone.
Rollback(w) ==
    /\ spc[w] = "idle" /\ tx[w] # "none"
    /\ lost' = [p \in Queries \X Days |-> lost[p] + (IF p \in Held(w) THEN pending[p].n ELSE 0)]
    /\ Released(w)
    /\ UNCHANGED <<day, events, agg, spc, sarg, asked, clickVars>>

\* clear_query_aggregates: the rows of days before the cutoff go, when no
\* transaction holds one.
ClearAggregates(keep) ==
    LET old == {p \in Queries \X Days : p[2] < day - keep /\ agg[p] # NoRow}
    IN  /\ old # {} /\ \A p \in old : lock[p] = Free
        /\ agg' = [p \in Queries \X Days |-> IF p \in old THEN NoRow ELSE agg[p]]
        /\ lost' = [p \in Queries \X Days |->
                        lost[p] + (IF p \in old THEN agg[p].n ELSE 0)]
        /\ UNCHANGED <<day, events, tx, lock, pending, spc, sarg, asked, clickVars>>

-----------------------------------------------------------------------------
(* Clicks.                                                                   *)

\* log_click, for today; or yesterday, when its transaction commits only now.
Click(s, d) ==
    /\ events < MaxEvents /\ d \in {day, day - 1} \cap Days
    /\ events' = events + 1
    /\ raw' = [raw EXCEPT ![<<s, d>>] = @ + 1]
    /\ clicked' = [clicked EXCEPT ![<<s, d>>] = @ + 1]
    /\ UNCHANGED <<day, searchVars, rolled, rpc, rday, rcount, purged, spoilt>>

\* icv_search_click_aggregate: the groups of the day, in one query.
Count(r, d) ==
    /\ rpc[r] = "idle" /\ d <= day /\ \E s \in Spellings : raw[<<s, d>>] > 0
    /\ rday' = [rday EXCEPT ![r] = d] /\ rpc' = [rpc EXCEPT ![r] = "write"]
    /\ rcount' = [rcount EXCEPT ![r] = [s \in Spellings |-> raw[<<s, d>>]]]
    /\ UNCHANGED <<day, events, searchVars, raw, rolled, clicked, purged, spoilt>>

\* slip: a rerun adds to what is there
Added(old, new) == IF old = NoRow THEN new ELSE old + new

\* update_or_create: the count replaces what is there.
Replaced(old, new) == new

\* One group; a count of what is left replaces the count of what was deleted.
Write(r, s) ==
    LET p == <<s, rday[r]>> IN
    /\ rpc[r] = "write" /\ rcount[r][s] > 0
    /\ rolled' = [rolled EXCEPT ![p] = Replaced(@, rcount[r][s])]
    /\ spoilt' = [spoilt EXCEPT ![p] = @ \/ purged[p]]
    /\ rcount' = [rcount EXCEPT ![r][s] = 0]
    /\ UNCHANGED <<day, events, searchVars, raw, rpc, rday, clicked, purged>>

Written(r) == rpc[r] = "write" /\ \A s \in Spellings : rcount[r][s] = 0

Rested(r) ==
    /\ rpc' = [rpc EXCEPT ![r] = "idle"] /\ rday' = [rday EXCEPT ![r] = 0]
    /\ rcount' = [rcount EXCEPT ![r] = [s \in Spellings |-> 0]]

\* --delete-raw deletes the rows of the day as they are now, those that came
\* after the count included; without it the command ends.
DeleteRaw(r) ==
    LET gone == {p \in Spellings \X {rday[r]} : raw[p] > 0} IN
    /\ Written(r)
    /\ raw' = [p \in Spellings \X Days |-> IF p \in gone THEN 0 ELSE raw[p]]
    /\ purged' = [p \in Spellings \X Days |-> purged[p] \/ p \in gone]
    /\ spoilt' = [p \in Spellings \X Days |->
                    spoilt[p] \/ (p \in gone /\ (purged[p] \/ rolled[p] = NoRow
                                                 \/ raw[p] > rolled[p]))]
    /\ Rested(r)
    /\ UNCHANGED <<day, events, searchVars, rolled, clicked>>

\* The command ends without --delete-raw, or is killed.
Finish(r) ==
    /\ rpc[r] # "idle" /\ Rested(r)
    /\ UNCHANGED <<day, events, searchVars, raw, rolled, clicked, purged, spoilt>>

Midnight ==
    /\ day < MaxDay /\ day' = day + 1
    /\ UNCHANGED <<events, searchVars, clickVars>>

AnalyticsNext ==
    \/ \E w \in Searchers : \/ Update(w) \/ Create(w) \/ Retry(w) \/ Fail(w)
                           \/ Begin(w) \/ Commit(w) \/ Rollback(w)
    \/ \E keep \in Days : ClearAggregates(keep)
    \/ \E s \in Spellings, d \in Days : Click(s, d)
    \/ \E r \in Rollups : \/ DeleteRaw(r) \/ Finish(r)
                          \/ \E d \in Days : Count(r, d)
                          \/ \E s \in Spellings : Write(r, s)
    \/ Midnight

-----------------------------------------------------------------------------
(* What the reports say, in a window of days.                                *)

Window(days) == {d \in Days : d >= day - days}

\* What get_query_trend, get_demand_signals and suggest_synonyms read in every
\* mode, and the other reports in mode "aggregate": the rows of the counters.
Volume(q, days) == SumFunction([d \in Window(days) |-> Row(<<q, d>>).n])
Gaps(q, days) == SumFunction([d \in Window(days) |-> Row(<<q, d>>).z])

\* get_click_through_rate divides these: the clicks on results of exactly the
\* normal spelling, over the searches of every spelling.
ClicksRead(q, days) ==
    SumFunction([d \in Window(days) |-> IF rolled[<<q, d>>] = NoRow THEN 0 ELSE rolled[<<q, d>>]])

-----------------------------------------------------------------------------
(* Properties.                                                               *)

InFlight(q, d) == {w \in Searchers : spc[w] # "idle" /\ Key(w) = <<q, d>>}

\* However requests and transactions interleave, each search is counted once
\* (the retry in _log_aggregate): the counters of any window, with what open
\* transactions will add to them, are the searches asked in it without those on
\* their way and those lost: refused, undone by their transaction, or cleared.
SearchesCounted ==
    \A days \in Days :
        /\ SumFunction([q \in Queries |-> Volume(q, days)]) =
                SumFunction([p \in Queries \X Window(days) |->
                    asked[p] - lost[p] - pending[p].n - Cardinality(InFlight(p[1], p[2]))])
        /\ \A q \in Queries, d \in Window(days) : Row(<<q, d>>).z <= Row(<<q, d>>).n

\* Clicks do not vanish and are not counted twice: the count of a day is at
\* most its clicks, which are at most the count and the rows left, unless rows
\* that came after the count were deleted with the others, or the day was
\* rolled up again when rows had been deleted (icv_search_click_aggregate).
ClicksCounted ==
    \A p \in Spellings \X Days :
        LET count == IF rolled[p] = NoRow THEN 0 ELSE rolled[p]
        IN  spoilt[p] \/ (count <= clicked[p] /\ clicked[p] <= count + raw[p])
=============================================================================
