------------------------------ MODULE Reindex ------------------------------
(***************************************************************************)
(* Rebuilding an index (services/documents.py, reindex_zero_downtime and   *)
(* reindex_all, with the swap_indexes, create_index and clear_documents of *)
(* the backends), while web processes go on saving and deleting documents  *)
(* and writing them to the live index.                                     *)
(*                                                                         *)
(* An index is what it answers: for each document the version it holds, 0  *)
(* for none.  The live index has the engine_uid of its SearchIndex row;    *)
(* every reindex of it builds the same temporary index,                    *)
(* "<engine_uid>_reindex_tmp".                                             *)
(***************************************************************************)
EXTENDS Naturals, FiniteSets

CONSTANTS Docs,       \* documents, named by primary key
          Runners,    \* processes that reindex
          Writers,    \* processes that save and delete documents
          BatchSize,  \* batch_size
          MaxCommits, \* bound: saves and deletions in a behaviour
          MaxRuns,    \* bound: reindexes in a behaviour
          MaxFaults,  \* bound: failed requests and crashes
          NoIndex,    \* an index that does not exist
          Nothing     \* the write of a writer that is not writing

\* The bounds are numbers, a batch holds a document, processes are finitely many.
ASSUME SettingsAssumption ==
    /\ BatchSize \in Nat \ {0}
    /\ MaxCommits \in Nat \ {0} /\ MaxRuns \in Nat /\ MaxFaults \in Nat
    /\ IsFiniteSet(Runners)

\* What is missing is no index, and no write.
ASSUME MissingAssumption ==
    NoIndex \notin [Docs -> Nat] /\ Nothing \notin [doc : Docs, ver : Nat]

VARIABLES
    backend,     \* how the configured backend creates and swaps
    rows,        \* rows[d]: the version of d in the database, 0 when deleted
    commits,     \* commits so far; numbers the versions
    engine,      \* engine["live"] and engine["temp"]
    writing,     \* writing[w]: the write to the live index w still has to do
    pc,          \* control of a reindex
    todo,        \* documents read from the queryset and not sent yet
    inner,       \* the reindex_all is the fallback of a zero-downtime reindex
    outcome,     \* outcome of the last reindex of a runner
    pendingLogs, \* IndexSyncLog rows with status "pending"
    runs, faults, \* bounds
    changed,     \* history: documents committed since the start
    touched,     \* history: documents committed or written to the live index since
                 \* a reindex read the rows (reindex_all: emptied the live index)
    fresh,       \* history: a reindex filled an empty index
    overlap,     \* history: two reindexes ran at the same time
    cleared,     \* history: a reindex_all has emptied the live index
    lostLogs,    \* history: pending rows whose process crashed
    strayLogs,   \* history: pending rows of calls that returned by their fallback
    escapedLogs, \* history: pending rows of reindex_all calls that raised an error
                 \* that is not a SearchBackendError
    unmarkedLogs \* history: pending rows whose completion failed

reindexVars == <<pc, todo, inner, outcome, fresh>>
boundVars == <<runs, faults>>
lossVars == <<lostLogs, strayLogs, escapedLogs, unmarkedLogs>>
vars == <<backend, rows, commits, engine, writing, reindexVars, pendingLogs,
          boundVars, changed, touched, overlap, cleared, lossVars>>

\* What the backends do.  create_index of an index that exists empties it
\* (dummy), keeps it (PostgreSQL: ON CONFLICT; Meilisearch: the request is
\* accepted and its task fails; Vespa: a registry entry) or is refused.
\* swap_indexes exchanges two indexes, points an alias of another name at the
\* temporary index (OpenSearch "<a>_live", Solr "<a>_alias"), or is not
\* implemented.
Backends ==
    {[create |-> "empty", swap |-> "exchange"],  \* dummy
     [create |-> "keep", swap |-> "exchange"],   \* Meilisearch
     [create |-> "refuse", swap |-> "alias"],    \* OpenSearch, Solr
     [create |-> "keep", swap |-> "none"]}       \* PostgreSQL, Vespa

Ver == 0..MaxCommits
Empty == [d \in Docs |-> 0]
Existing(index) == IF index = NoIndex THEN Empty ELSE index
With(index, ops) ==
    [d \in Docs |-> IF \E op \in ops : op.doc = d
                      THEN (CHOOSE op \in ops : op.doc = d).ver
                      ELSE Existing(index)[d]]
Row(d) == [doc |-> d, ver |-> rows[d]]
Queryset == {Row(d) : d \in {e \in Docs : rows[e] > 0}}
BatchesOf(ops) ==
    IF Cardinality(ops) <= BatchSize THEN {ops}
    ELSE {b \in SUBSET ops : Cardinality(b) = BatchSize}
BeingWritten == {writing[w].doc : w \in {v \in Writers : writing[v] # Nothing}}

Init ==
    /\ backend \in Backends
    /\ rows \in [Docs -> {0, 1}]
    /\ commits = 1
    /\ engine = [u \in {"live", "temp"} |-> IF u = "live" THEN rows ELSE NoIndex]
    /\ writing = [w \in Writers |-> Nothing]
    /\ pc = [r \in Runners |-> "idle"]
    /\ todo = [r \in Runners |-> {}]
    /\ inner = [r \in Runners |-> FALSE]
    /\ outcome = [r \in Runners |-> "none"]
    /\ pendingLogs = 0
    /\ runs = 0
    /\ faults = 0
    /\ changed = {}
    /\ touched = [r \in Runners |-> {}]
    /\ fresh = [r \in Runners |-> FALSE]
    /\ overlap = FALSE
    /\ cleared = FALSE
    /\ lostLogs = 0
    /\ strayLogs = 0
    /\ escapedLogs = 0
    /\ unmarkedLogs = 0

Goto(r, label) == pc' = [pc EXCEPT ![r] = label]
Fault == faults < MaxFaults /\ faults' = faults + 1

\* slip: mark_complete only on the way out that succeeds
EndsOnSuccess(r, result) ==
    /\ Goto(r, "idle")
    /\ outcome' = [outcome EXCEPT ![r] = result]
    /\ pendingLogs' = pendingLogs - IF result = "success" THEN 1 ELSE 0

\* The call returns or raises; mark_complete closes its log row.
Ends(r, result) ==
    /\ Goto(r, "idle")
    /\ outcome' = [outcome EXCEPT ![r] = result]
    /\ pendingLogs' = pendingLogs - 1

-----------------------------------------------------------------------------
(* A web process: a commit, then the write of its on_commit hook.          *)

Commit(w, d, v) ==
    /\ writing[w] = Nothing
    /\ commits < MaxCommits
    /\ v \in {0, commits + 1}
    /\ v = 0 => rows[d] > 0
    /\ commits' = commits + 1
    /\ rows' = [rows EXCEPT ![d] = v]
    /\ writing' = [writing EXCEPT ![w] = [doc |-> d, ver |-> v]]
    /\ changed' = changed \cup {d}
    /\ touched' = [r \in Runners |-> touched[r] \cup {d}]
    /\ UNCHANGED <<backend, engine, reindexVars, pendingLogs, boundVars, overlap,
                   cleared, lossVars>>

\* index_documents / remove_documents with the uid of the live index.  An
\* error is logged by the hook, and the write lost.
Write(w) ==
    /\ writing[w] # Nothing
    /\ \/ /\ engine' = [engine EXCEPT !["live"] = With(@, {writing[w]})]
          /\ UNCHANGED faults
       \/ Fault /\ UNCHANGED engine
    /\ writing' = [writing EXCEPT ![w] = Nothing]
    /\ UNCHANGED <<backend, rows, commits, reindexVars, pendingLogs, runs,
                   changed, touched, overlap, cleared, lossVars>>

-----------------------------------------------------------------------------
(* reindex_zero_downtime.                                                  *)

Start(r, label) ==
    /\ pc[r] = "idle"
    /\ runs < MaxRuns
    /\ runs' = runs + 1
    /\ Goto(r, label)
    /\ inner' = [inner EXCEPT ![r] = FALSE]
    /\ outcome' = [outcome EXCEPT ![r] = "running"]
    /\ overlap' = (overlap \/ \E q \in Runners : pc[q] # "idle")
    /\ UNCHANGED <<backend, rows, commits, engine, writing, todo, fresh, faults,
                   changed, touched, cleared, lossVars>>

StartZeroDowntime(r) ==
    /\ Start(r, "create")
    /\ pendingLogs' = pendingLogs + 1

Refused == engine["temp"] # NoIndex /\ backend.create = "refuse"
Created ==
    [engine EXCEPT !["temp"] = IF backend.create = "empty" THEN Empty ELSE Existing(@)]
Swapped == [live |-> Existing(engine["temp"]), temp |-> engine["live"]]

\* create_index(temp_uid), update_settings(temp_uid)
Create(r) ==
    /\ pc[r] = "create"
    /\ IF Refused
         THEN /\ Goto(r, "cleanup")
              /\ UNCHANGED <<engine, fresh>>
         ELSE /\ Goto(r, "query")
              /\ engine' = Created
              /\ fresh' = [fresh EXCEPT ![r] =
                              engine["temp"] = NoIndex \/ backend.create = "empty"]
    /\ UNCHANGED <<backend, rows, commits, writing, todo, inner, outcome, pendingLogs,
                   boundVars, changed, touched, overlap, cleared, lossVars>>

\* The queryset is read: a query answers with the rows of one moment.
Query(r) ==
    /\ pc[r] = "query"
    /\ todo' = [todo EXCEPT ![r] = Queryset]
    /\ touched' = [touched EXCEPT ![r] = BeingWritten]
    /\ Goto(r, IF Queryset = {} THEN "swap" ELSE "populate")
    /\ UNCHANGED <<backend, rows, commits, engine, writing, inner, outcome, fresh,
                   pendingLogs, boundVars, changed, overlap, cleared, lossVars>>

\* slip: the loop ends one batch early
PopulateAllButLast(r) ==
    /\ pc[r] = "populate"
    /\ \E b \in BatchesOf(todo[r]) :
          /\ engine' = [engine EXCEPT !["temp"] = With(@, b)]
          /\ todo' = [todo EXCEPT ![r] = @ \ b]
          /\ Goto(r, IF Cardinality(todo[r] \ b) <= BatchSize THEN "swap"
                       ELSE "populate")
    /\ UNCHANGED <<backend, rows, commits, writing, inner, outcome, fresh, pendingLogs,
                   boundVars, changed, touched, overlap, cleared, lossVars>>

\* add_documents(temp_uid, batch), or the batches of bulk_index in any order
Populate(r) ==
    /\ pc[r] = "populate"
    /\ \E b \in BatchesOf(todo[r]) :
          /\ engine' = [engine EXCEPT !["temp"] = With(@, b)]
          /\ todo' = [todo EXCEPT ![r] = @ \ b]
          /\ Goto(r, IF todo[r] = b THEN "swap" ELSE "populate")
    /\ UNCHANGED <<backend, rows, commits, writing, inner, outcome, fresh, pendingLogs,
                   boundVars, changed, touched, overlap, cleared, lossVars>>

\* swap_indexes([(engine_uid, temp_uid)])
Swap(r) ==
    /\ pc[r] = "swap"
    /\ \/ /\ backend.swap = "exchange"
          /\ engine' = Swapped
          /\ Goto(r, "drop")
       \/ /\ backend.swap = "alias"
          /\ Goto(r, "drop")
          /\ UNCHANGED engine
       \/ /\ backend.swap = "none" \* NotImplementedError
          /\ Goto(r, "undo")
          /\ UNCHANGED engine
    /\ UNCHANGED <<backend, rows, commits, writing, todo, inner, outcome, fresh,
                   pendingLogs, boundVars, changed, touched, overlap, cleared,
                   lossVars>>

\* slip: the index deleted is the one under the name that is live
DeleteLive ==
    /\ engine' = [engine EXCEPT !["live"] = NoIndex]
    /\ UNCHANGED faults

\* delete_index(temp_uid), whose failure is only logged
DeleteTemp ==
    \/ /\ engine' = [engine EXCEPT !["temp"] = NoIndex]
       /\ UNCHANGED faults
    \/ Fault /\ UNCHANGED engine

\* The old index is deleted; the call returns.
Drop(r) ==
    /\ pc[r] = "drop"
    /\ DeleteTemp
    /\ Ends(r, "success")
    /\ UNCHANGED <<backend, rows, commits, writing, todo, inner, fresh, runs, changed,
                   touched, overlap, cleared, lossVars>>

\* A request of the try block fails, having been applied or not.
Fails(r) ==
    /\ pc[r] \in {"create", "query", "populate", "swap"}
    /\ Fault
    /\ \/ UNCHANGED engine
       \/ pc[r] = "create" /\ ~Refused /\ engine' = Created
       \/ pc[r] = "swap" /\ backend.swap = "exchange" /\ engine' = Swapped
       \/ /\ pc[r] = "populate"
          /\ \E b \in BatchesOf(todo[r]) :
                engine' = [engine EXCEPT !["temp"] = With(@, b)]
    /\ Goto(r, "cleanup")
    /\ todo' = [todo EXCEPT ![r] = {}]
    /\ UNCHANGED <<backend, rows, commits, writing, inner, outcome, fresh, pendingLogs,
                   runs, changed, touched, overlap, cleared, lossVars>>

\* slip: the failed reindex puts what it has live before it cleans up
CleanupSwaps(r) ==
    /\ pc[r] = "cleanup"
    /\ engine' = [live |-> Existing(engine["temp"]), temp |-> NoIndex]
    /\ Ends(r, "failed")
    /\ UNCHANGED <<backend, rows, commits, writing, todo, inner, fresh, boundVars,
                   changed, touched, overlap, cleared, lossVars>>

\* except Exception: the temporary index is deleted, the exception re-raised.
Cleanup(r) ==
    /\ pc[r] = "cleanup"
    /\ DeleteTemp
    /\ Ends(r, "failed")
    /\ UNCHANGED <<backend, rows, commits, writing, todo, inner, fresh, runs, changed,
                   touched, overlap, cleared, lossVars>>

\* mark_complete itself raises: a success becomes a failure that is cleaned up,
\* a failure leaves its row pending.
MarkFails(r) ==
    /\ pc[r] \in {"drop", "cleanup"}
    /\ Fault
    /\ UNCHANGED engine \/ engine' = [engine EXCEPT !["temp"] = NoIndex]
    /\ IF pc[r] = "drop"
         THEN /\ Goto(r, "cleanup")
              /\ UNCHANGED <<outcome, unmarkedLogs>>
         ELSE /\ Goto(r, "idle")
              /\ outcome' = [outcome EXCEPT ![r] = "failed"]
              /\ unmarkedLogs' = unmarkedLogs + 1
    /\ UNCHANGED <<backend, rows, commits, writing, todo, inner, fresh, pendingLogs,
                   runs, changed, touched, overlap, cleared, lostLogs, strayLogs,
                   escapedLogs>>

\* except NotImplementedError: the temporary index is deleted, and the rebuild
\* is left to reindex_all.
Undo(r) ==
    /\ pc[r] = "undo"
    /\ DeleteTemp
    /\ inner' = [inner EXCEPT ![r] = TRUE]
    /\ Goto(r, "clear")
    /\ UNCHANGED <<backend, rows, commits, writing, todo, outcome, fresh, pendingLogs,
                   runs, changed, touched, overlap, cleared, lossVars>>

-----------------------------------------------------------------------------
(* reindex_all, called directly or as the fallback.                        *)

StartAll(r) ==
    /\ Start(r, "clear")
    /\ UNCHANGED pendingLogs

\* An exception leaves reindex_all: an outer call catches it and cleans up.
Leaves(r) ==
    IF inner[r]
      THEN Goto(r, "cleanup") /\ UNCHANGED outcome
      ELSE Goto(r, "idle") /\ outcome' = [outcome EXCEPT ![r] = "failed"]

\* clear_documents, whose SearchBackendError is only logged; then the log row is
\* created
Clear(r) ==
    /\ pc[r] = "clear"
    /\ \/ /\ engine' = [engine EXCEPT !["live"] = Empty]
          /\ fresh' = [fresh EXCEPT ![r] = TRUE]
          /\ UNCHANGED faults
       \/ /\ Fault
          /\ fresh' = [fresh EXCEPT ![r] = FALSE]
          /\ UNCHANGED engine
    /\ cleared' = TRUE
    /\ touched' = [touched EXCEPT ![r] = BeingWritten]
    /\ pendingLogs' = pendingLogs + 1
    /\ Goto(r, "queryall")
    /\ UNCHANGED <<backend, rows, commits, writing, todo, inner, outcome, runs, changed,
                   overlap, lossVars>>

\* Another error of clear_documents (IndexNotFoundError), or of the creation of
\* the log row.
ClearRaises(r) ==
    /\ pc[r] = "clear"
    /\ Fault
    /\ UNCHANGED engine \/ engine' = [engine EXCEPT !["live"] = Empty]
    /\ cleared' = TRUE
    /\ Leaves(r)
    /\ UNCHANGED <<backend, rows, commits, writing, todo, inner, fresh, pendingLogs,
                   runs, changed, touched, overlap, lossVars>>

\* index_model_instances reads the queryset; an error while it does so is one of
\* AllRaises.
QueryAll(r) ==
    /\ pc[r] = "queryall"
    /\ todo' = [todo EXCEPT ![r] = Queryset]
    /\ Goto(r, "index")
    /\ UNCHANGED <<backend, rows, commits, engine, writing, inner, outcome, fresh,
                   pendingLogs, boundVars, changed, touched, overlap, cleared,
                   lossVars>>

\* index_documents(index, batch)
IndexBatch(r) ==
    /\ pc[r] = "index"
    /\ todo[r] # {}
    /\ \E b \in BatchesOf(todo[r]) :
          /\ engine' = [engine EXCEPT !["live"] = With(@, b)]
          /\ todo' = [todo EXCEPT ![r] = @ \ b]
    /\ UNCHANGED <<backend, rows, commits, writing, pc, inner, outcome, fresh,
                   pendingLogs, boundVars, changed, touched, overlap, cleared,
                   lossVars>>

\* The log row of reindex_all is completed, that of the outer call is not.
FinishAll(r) ==
    /\ pc[r] = "index"
    /\ todo[r] = {}
    /\ Ends(r, "success")
    /\ strayLogs' = strayLogs + IF inner[r] THEN 1 ELSE 0
    /\ UNCHANGED <<backend, rows, commits, engine, writing, todo, inner, fresh,
                   boundVars, changed, touched, overlap, cleared, lostLogs,
                   escapedLogs, unmarkedLogs>>

\* SearchBackendError of index_documents: the log row is completed; an outer
\* call cleans up.
IndexFails(r) ==
    /\ pc[r] = "index"
    /\ todo[r] # {}
    /\ Fault
    /\ \/ UNCHANGED engine
       \/ \E b \in BatchesOf(todo[r]) :
             engine' = [engine EXCEPT !["live"] = With(@, b)]
    /\ todo' = [todo EXCEPT ![r] = {}]
    /\ Leaves(r)
    /\ pendingLogs' = pendingLogs - 1
    /\ UNCHANGED <<backend, rows, commits, writing, inner, fresh, runs, changed,
                   touched, overlap, cleared, lossVars>>

\* Any other error, of the query, of to_search_document, of index_documents
\* (IndexNotFoundError) or of mark_complete: the handler of reindex_all does not
\* take it, and its log row stays pending.
AllRaises(r) ==
    /\ pc[r] \in {"queryall", "index"}
    /\ Fault
    /\ \/ UNCHANGED engine
       \/ /\ pc[r] = "index"
          /\ \E b \in BatchesOf(todo[r]) :
                engine' = [engine EXCEPT !["live"] = With(@, b)]
    /\ todo' = [todo EXCEPT ![r] = {}]
    /\ Leaves(r)
    /\ escapedLogs' = escapedLogs + 1
    /\ UNCHANGED <<backend, rows, commits, writing, inner, fresh, pendingLogs, runs,
                   changed, touched, overlap, cleared, lostLogs, strayLogs,
                   unmarkedLogs>>

-----------------------------------------------------------------------------
\* Log rows a reindex at label p has created and not completed.
OpenLogs(r) ==
    CASE pc[r] \in {"queryall", "index"} -> IF inner[r] THEN 2 ELSE 1
      [] pc[r] = "clear" -> IF inner[r] THEN 1 ELSE 0
      [] pc[r] = "idle" -> 0
      [] OTHER -> 1

\* The process is killed: nobody cleans up.
Crash(r) ==
    /\ pc[r] # "idle"
    /\ Fault
    /\ Goto(r, "idle")
    /\ todo' = [todo EXCEPT ![r] = {}]
    /\ outcome' = [outcome EXCEPT ![r] = "failed"]
    /\ lostLogs' = lostLogs + OpenLogs(r)
    /\ UNCHANGED <<backend, rows, commits, engine, writing, inner, fresh, pendingLogs,
                   runs, changed, touched, overlap, cleared, strayLogs, escapedLogs,
                   unmarkedLogs>>

ZeroDowntimeStep(r) ==
    \/ StartZeroDowntime(r) \/ Create(r) \/ Query(r) \/ Populate(r) \/ Swap(r)
    \/ Drop(r) \/ Fails(r) \/ Cleanup(r) \/ MarkFails(r) \/ Undo(r)

AllStep(r) ==
    \/ StartAll(r) \/ Clear(r) \/ ClearRaises(r) \/ QueryAll(r) \/ IndexBatch(r)
    \/ FinishAll(r) \/ IndexFails(r) \/ AllRaises(r)

Next ==
    \/ \E w \in Writers, d \in Docs, v \in Ver : Commit(w, d, v)
    \/ \E w \in Writers : Write(w)
    \/ \E r \in Runners : ZeroDowntimeStep(r) \/ AllStep(r) \/ Crash(r)

Spec == Init /\ [][Next]_vars

-----------------------------------------------------------------------------
(* What is checked.                                                        *)

Index == [Docs -> Ver] \cup {NoIndex}
Content == [doc : Docs, ver : Ver]

\* The type invariant; the counts of log rows apart.
StateOK ==
    /\ backend \in Backends
    /\ rows \in [Docs -> Ver]
    /\ commits \in Ver
    /\ engine \in [{"live", "temp"} -> Index] /\ engine["live"] # NoIndex
    /\ writing \in [Writers -> Content \cup {Nothing}]
    /\ pc \in [Runners -> {"idle", "create", "query", "populate", "swap", "drop",
                           "cleanup", "undo", "clear", "queryall", "index"}]
    /\ todo \in [Runners -> SUBSET Content]
    /\ inner \in [Runners -> BOOLEAN]
    /\ outcome \in [Runners -> {"none", "running", "success", "failed"}]
    /\ runs \in 0..MaxRuns /\ faults \in 0..MaxFaults
    /\ changed \in SUBSET Docs
    /\ touched \in [Runners -> SUBSET Docs]
    /\ fresh \in [Runners -> BOOLEAN]
    /\ overlap \in BOOLEAN
    /\ cleared \in BOOLEAN

TypeOK ==
    /\ StateOK
    /\ pendingLogs \in Nat /\ lostLogs \in Nat /\ strayLogs \in Nat
    /\ escapedLogs \in Nat /\ unmarkedLogs \in Nat

\* README.md:57 "builds a temp index, then atomically swaps with the live one":
\* with zero-downtime reindexes that find a backend that swaps and run one after
\* the other, whatever fails and whichever process is killed, a search never
\* misses a document that nobody has changed: no empty or partly built index is
\* ever live.
ZeroDowntime ==
    ~cleared /\ ~overlap =>
        \A d \in Docs \ changed : engine["live"][d] = rows[d]

\* A reindex that succeeds leaves the live index as the database was when it
\* read it: for every document not written since (with reindex_all: since the
\* live index was emptied), the live index has its row, and has not got it if the
\* row is gone.  It takes an index to fill that was
\* empty, no second reindex at the same time, and a swap that swaps.
Succeeds(r) == outcome[r] = "running" /\ outcome'[r] = "success"
Rebuilt(r) == \A d \in Docs \ touched[r] : engine'["live"][d] = rows[d]
SuccessMeansRebuilt ==
    [][\A r \in Runners :
          Succeeds(r) /\ fresh[r] /\ ~overlap /\ backend.swap # "alias"
            => Rebuilt(r)]_vars

\* Once no reindex runs, the log rows still pending are those of killed processes;
\* one of each zero-downtime reindex that fell back to reindex_all and returned
\* its result from inside the try block; one of each reindex_all that ended on an
\* error other than SearchBackendError; and those whose completion itself failed.
\* A backend that swaps leaves none of the second kind.  While no reindex_all was
\* called, there is none of the second and the third: reindex_zero_downtime
\* completes its row whatever the error.  All but the second need a fault, and
\* one fault costs two rows at most.
LogsClosed ==
    (\A r \in Runners : pc[r] = "idle") =>
        /\ pendingLogs = lostLogs + strayLogs + escapedLogs + unmarkedLogs
        /\ backend.swap # "none" => strayLogs = 0
        /\ ~cleared => strayLogs = 0 /\ escapedLogs = 0
        /\ lostLogs + escapedLogs + unmarkedLogs <= 2 * faults
=============================================================================
