------------------------------- MODULE Engines -------------------------------
(***************************************************************************)
(* Document writes through the services onto one of the seven backends:    *)
(* services/documents.py, the adapter's requests one at a time, and the    *)
(* engine that applies some of them later.  Several callers write at once; *)
(* each may stop at any step.                                              *)
(***************************************************************************)
EXTENDS Backends, Sequences, SequencesExt

CONSTANTS
  Docs,      \* documents
  Callers,   \* processes calling the services
  Contents,  \* what callers write
  Page,      \* _FILTER_DELETE_SCAN_LIMIT
  MaxCalls   \* calls in one behaviour

ASSUME EnginesAssumption ==
  IsFiniteSet(Docs) /\ Page \in Nat \ {0} /\ Contents \subseteq {Null, Value}

VARIABLES
  kind,    \* ICV_SEARCH_BACKEND
  keyed,   \* the documents call their primary key "id"
  exists,  \* the index exists in the engine
  stored,  \* what searches of the engine see of each document
  queue,   \* writes the engine has taken and not applied
  calls,   \* the call each caller is in
  log,     \* the IndexSyncLog row of each caller's latest call
  opened,  \* history: why a row was left open, "" if it was not
  acked,   \* history: the value of a document's latest, undisturbed, successful add
  budget   \* calls left

engineVars == <<kind, keyed, exists, stored, queue, calls, log, opened,
                acked, budget>>
setting == <<kind, keyed>>

NoCall == [at |-> "idle"]
NoRow == "none"

Idle(c) == calls[c] = NoCall

\* What will be stored once the queue is applied.
Written(write, st) ==
  [d \in Docs |-> IF d \in write.docs /\ (write.form \in {"any", "all"} \/ Reads(kind, write.form, st[d]))
                  THEN write.to ELSE st[d]]
Settled ==
  LET after[i \in 0 .. Len(queue)] ==
        IF i = 0 THEN stored ELSE Written(queue[i], after[i - 1])
  IN  after[Len(queue)]

EnginesInit ==
  /\ kind \in Kinds
  /\ keyed \in BOOLEAN
  /\ keyed \/ ~HitsHaveId(kind, keyed)  \* elsewhere it makes no difference
  /\ exists \in BOOLEAN
  /\ stored \in [Docs -> IF exists THEN {Null, Value, Absent} ELSE {Absent}]
  /\ queue = <<>>
  /\ calls = [c \in Callers |-> NoCall]
  /\ log = [c \in Callers |-> NoRow]
  /\ opened = [c \in Callers |-> ""]
  /\ acked = [d \in Docs |-> Absent]
  /\ budget = MaxCalls

-----------------------------------------------------------------------------
(* Effects *)

Write(docs, to, form) == [docs |-> docs, to |-> to, form |-> form]

\* A clear on Solr commits at once, with all that waited for the commit.
Effect(write) ==
  IF write.docs = {} THEN UNCHANGED <<stored, queue>> ELSE
  \/ /\ kind = "solr" /\ write.form = "all"
     /\ stored' = Written(write, Settled) /\ queue' = <<>>
  \/ /\ Queues(kind) /\ ~(kind = "solr" /\ write.form = "all")
     /\ queue' = Append(queue, write) /\ UNCHANGED stored
  \/ ~Queues(kind) /\ stored' = Written(write, stored) /\ UNCHANGED queue

\* The engine applies what it took: in order, but that delete_by_query, not
\* waited for, may run after later writes; a task of Meilisearch may fail.
Apply ==
  \E i \in 1 .. Len(queue) :
    /\ \A j \in 1 .. (i - 1) : kind = "opensearch" /\ queue[j].form = "all"
    /\ queue' = RemoveAt(queue, i)
    /\ \/ stored' = Written(queue[i], stored)
       \/ kind = "meilisearch" /\ UNCHANGED stored
    /\ UNCHANGED <<setting, exists, calls, log, opened, acked, budget>>

-----------------------------------------------------------------------------
(* Calls *)

\* History: of the documents of a call, those no other call under way touches,
\* and of the documents added, those no later call touches.
Shared(docs) == [c \in Callers |->
  IF Idle(c) THEN NoCall ELSE [calls[c] EXCEPT !.sole = @ \ docs]]
Touched(docs) == [d \in Docs |-> IF d \in docs THEN Absent ELSE acked[d]]
Busy == UNION {calls[c].docs : c \in {c \in Callers : ~Idle(c)}}

Begin(c, call, logged) ==
  /\ Idle(c)
  /\ budget > 0
  /\ budget' = budget - 1
  /\ calls' = [Shared(call.docs) EXCEPT ![c] = call]
  /\ log' = [log EXCEPT ![c] = IF logged THEN "pending" ELSE NoRow]
  /\ opened' = [opened EXCEPT ![c] = ""]
  /\ acked' = Touched(call.docs)
  /\ UNCHANGED <<setting, exists, stored, queue>>

Sending(op, docs, to) ==
  [at |-> "send", op |-> op, docs |-> docs, left |-> docs, to |-> to,
   failed |-> FALSE, raised |-> "no", sole |-> docs \ Busy]

\* index_documents and remove_documents open a row first; update_documents and
\* the clearing of reindex_all and of icv_search_clear have none.
IndexDocuments(c) ==
  \E docs \in (SUBSET Docs) \ {{}}, to \in Contents : Begin(c, Sending("add", docs, to), TRUE)
RemoveDocuments(c) ==
  \E docs \in (SUBSET Docs) \ {{}} : Begin(c, Sending("remove", docs, Absent), TRUE)
UpdateDocuments(c) ==
  \E docs \in (SUBSET Docs) \ {{}}, to \in Contents : Begin(c, Sending("update", docs, to), FALSE)
ClearDocuments(c) == Begin(c, Sending("clear", Docs, Absent), FALSE)

\* The orders in which an engine may return documents.
Rankings == Bijection(Docs, 1 .. Cardinality(Docs))

\* The order a scan's query, which asks for none, gets its hits in, page after
\* page: PostgreSQL keeps to none, and Meilisearch is not scanned.
NoOrder == [d \in Docs |-> 0]
KeptOrders == IF kind \in {"postgres", "meilisearch"} THEN {NoOrder} ELSE Rankings

\* delete_documents_by_filter: a row, then the scan or the engine's own.
DeleteByFilter(c) ==
  \E form \in Forms, order \in KeptOrders :
    Begin(c, [at |-> "scan", op |-> "filter", docs |-> Docs, left |-> {}, to |-> Absent,
              form |-> form, order |-> order, offset |-> 0, before |-> stored, failed |-> FALSE,
              raised |-> "no", sole |-> IF queue = <<>> THEN Docs \ Busy ELSE {}], TRUE)

\* What the handlers of the services do not catch.
Unhandled == {"missing", "other"}

Ends(c, raised) ==
  calls' = [calls EXCEPT ![c].at = "close", ![c].raised = raised]

-----------------------------------------------------------------------------
(* delete_documents_by_filter of the base class: page after page of ids.   *)

Matches(form) == {d \in Docs : Reads(kind, form, stored[d])}

\* The orders of a page's hits: PostgreSQL may take another for each page.
Orders(call) == IF kind = "postgres" THEN Rankings ELSE {call.order}

\* A document's place among the hits, from 0, and the hits of a page.
Place(order, form, d) == Cardinality({e \in Matches(form) : order[e] < order[d]})
Hits(order, form, offset) ==
  {d \in Matches(form) : Place(order, form, d) \in offset .. (offset + Page - 1)}
Ids(hits) == IF HitsHaveId(kind, keyed) THEN hits ELSE {}

\* slip: the ids of the first page only.
ScanFirstPage(c) ==
  LET call == calls[c] IN
  \E order \in Orders(call) :
    LET ids == Ids(Hits(order, call.form, 0))
    IN  \/ ids = {} /\ Ends(c, "no")
        \/ ids # {} /\ calls' = [calls EXCEPT ![c].left = ids, ![c].at = "send"]

\* A full page may not be the last.
ScanPage(c) ==
  LET call == calls[c] IN
  \E order \in Orders(call) :
    LET hits == Hits(order, call.form, call.offset)
        ids == call.left \cup Ids(hits)
    IN  \/ /\ Cardinality(hits) = Page
           /\ calls' = [calls EXCEPT ![c].left = ids, ![c].offset = @ + Page]
        \/ /\ Cardinality(hits) < Page /\ ids # {}
           /\ calls' = [calls EXCEPT ![c].left = ids, ![c].at = "send"]
        \/ Cardinality(hits) < Page /\ ids = {} /\ Ends(c, "no")

Scan(c) ==
  LET call == calls[c]
      missing == IF exists THEN "no" ELSE SearchMissing(kind)
  IN
  /\ call.at = "scan"
  /\ kind # "meilisearch"
  /\ \/ missing # "no" /\ Ends(c, missing)
     \/ missing = "no" /\ ~Refuses(kind, call.form) /\ ScanPage(c)
     \/ missing = "no" /\ kind # "dummy" /\ Ends(c, "backend")
     \/ SearchTears(kind) /\ Ends(c, "other")
  /\ UNCHANGED <<setting, exists, stored, queue, log, opened, acked, budget>>

\* Meilisearch deletes by the filter itself, in one task.
DeleteTask(c) ==
  LET call == calls[c] IN
  /\ call.at = "scan"
  /\ kind = "meilisearch"
  /\ \E answer \in IF Refuses(kind, call.form) THEN Failing ELSE MeilisearchRequest(Docs) :
       /\ Effect(Write(answer.done, Absent, call.form))
       /\ Ends(c, answer.raised)
  /\ UNCHANGED <<setting, exists, log, opened, acked, budget>>

-----------------------------------------------------------------------------
(* The requests of one adapter method                                      *)

Send(c) ==
  LET call == calls[c]
      op == IF call.op = "filter" THEN "remove" ELSE call.op
      present == {d \in Docs : Settled[d] # Absent}
  IN
  /\ call.at = "send"
  /\ \E docs \in IF OneByOne(kind, op) THEN {{d} : d \in call.left} ELSE {call.left} :
     \E answer \in Answers(kind, op, docs, exists, present) :
       /\ Effect(Write(answer.done, call.to, IF op = "clear" THEN "all" ELSE "any"))
       /\ exists' = (exists \/ (CreatesOnAdd(kind, op) /\ answer.done # {}))
       /\ LET failed == call.failed \/ answer.raised = "backend" IN
          CASE answer.raised \in Unhandled -> Ends(c, answer.raised)
            [] answer.raised \notin Unhandled /\ (call.left = docs \/ (failed /\ ~GoesOn(kind))) ->
                 Ends(c, IF failed THEN "backend" ELSE "no")
            [] OTHER -> calls' = [calls EXCEPT ![c].left = @ \ docs, ![c].failed = failed]
  /\ UNCHANGED <<setting, log, opened, acked, budget>>

\* What the row says of a call that ended in a result or a SearchBackendError.
OutcomeSwallowed(raised) == "success"  \* slip: the error is not looked at
Outcome(raised) == IF raised = "backend" THEN "failed" ELSE "success"

\* The row is closed, if there is one, unless no handler sees what was raised.
Close(c) ==
  LET call == calls[c]
      reason == IF log[c] # NoRow /\ call.raised \in Unhandled THEN call.raised ELSE ""
  IN
  /\ call.at = "close"
  /\ log' = [log EXCEPT ![c] =
       IF log[c] = NoRow \/ reason # "" THEN @ ELSE Outcome(call.raised)]
  /\ opened' = [opened EXCEPT ![c] = reason]
  /\ acked' = [d \in Docs |->
       IF call.op = "add" /\ call.raised = "no" /\ d \in call.sole
       THEN call.to ELSE acked[d]]
  /\ calls' = [calls EXCEPT ![c] = NoCall]
  /\ UNCHANGED <<setting, exists, stored, queue, budget>>

\* The process dies, whatever step its call is at; or the database refuses the
\* update of its row, which stays as it is just so.
Stop(c) ==
  /\ ~Idle(c)
  /\ calls' = [calls EXCEPT ![c] = NoCall]
  /\ opened' = [opened EXCEPT ![c] = IF log[c] # NoRow THEN "stopped" ELSE ""]
  /\ UNCHANGED <<setting, exists, stored, queue, log, acked, budget>>

-----------------------------------------------------------------------------
(* create_index and delete_index of the adapters                           *)

NoDocs == [d \in Docs |-> Absent]

\* A new index; of one that is there, Dummy makes an empty one, and OpenSearch,
\* Solr and Typesense raise.  Vespa's are deployed elsewhere.
CreateIndex ==
  /\ budget > 0
  /\ budget' = budget - 1
  /\ exists' = (exists \/ kind # "vespa")
  /\ stored' = IF kind = "dummy" THEN NoDocs ELSE stored
  /\ calls' = IF kind = "dummy" THEN Shared(Docs) ELSE calls
  /\ acked' = IF kind = "dummy" THEN NoDocs ELSE acked
  /\ UNCHANGED <<setting, queue, log, opened>>

DeleteIndex ==
  /\ budget > 0
  /\ budget' = budget - 1
  /\ exists' = (exists /\ kind = "vespa")
  /\ stored' = NoDocs
  /\ queue' = <<>>
  /\ calls' = Shared(Docs)
  /\ acked' = NoDocs
  /\ UNCHANGED <<setting, log, opened>>

EnginesNext ==
  \/ \E c \in Callers :
       \/ IndexDocuments(c) \/ RemoveDocuments(c) \/ UpdateDocuments(c)
       \/ ClearDocuments(c) \/ DeleteByFilter(c)
       \/ Scan(c) \/ DeleteTask(c) \/ Send(c) \/ Close(c) \/ Stop(c)
  \/ Apply \/ CreateIndex \/ DeleteIndex

-----------------------------------------------------------------------------
(* Properties                                                              *)

\* A document that an add recorded as a success has written, and that no other
\* call touched meanwhile or since, is there with what was added, or will be
\* once the engine has caught up, whatever happens to other documents: on the
\* backends that raise for what they do not take.  OpenSearch, Typesense and
\* Vespa drop single documents without raising, and Meilisearch's task may fail
\* after the row says success.
Acknowledged ==
  kind \in {"dummy", "postgres", "solr"} =>
    \A d \in Docs : acked[d] # Absent => Settled[d] = acked[d]

\* What each backend is known to read otherwise than it is asked.
Misread == {<<"dummy", "text_range">>, <<"dummy", "native">>, <<"opensearch", "native">>,
            <<"postgres", "text_range">>, <<"postgres", "null">>, <<"typesense", "null">>,
            <<"vespa", "text_range">>}

\* What a deletion by filter asks for, of what it found.
Asked(call, d) == call.before[d] # Absent /\ Means(call.form, call.before[d])

\* Where a deletion that succeeds may leave what it asks for: hits without an
\* id, pages of a query without an order, and engines that fail to delete a
\* document without the backend raising.
MayLeave(call) ==
  \/ ~HitsHaveId(kind, keyed)
  \/ kind = "postgres" /\ Cardinality({d \in Docs : Asked(call, d)}) > Page
  \/ kind \in {"meilisearch", "opensearch", "typesense"}

\* A deletion by filter that succeeds, on an engine that had caught up, keeps
\* every document that it does not ask for and no other call touches, unless
\* the backend misreads the filter; and while nothing else writes it deletes
\* every document that it asks for.
FilterDeletes ==
  \A c \in Callers :
    LET call == calls[c] IN
    (call.at = "close" /\ call.op = "filter" /\ call.raised = "no"
       /\ <<kind, call.form>> \notin Misread)
    => /\ \A d \in call.sole : ~Asked(call, d) => Settled[d] = call.before[d]
       /\ call.sole = Docs /\ ~MayLeave(call) =>
            \A d \in Docs : Asked(call, d) => Settled[d] = Absent

\* A row stays pending only where its process died, where the database refused
\* its update, or where the backend raised what the services do not catch: that
\* the index is missing, for index_documents on Typesense and a deletion by
\* filter on OpenSearch, Typesense and Vespa; or an exception of no class of the
\* package, which PostgreSQL's adapter and Typesense's let none pass.
RowsClosed ==
  \A c \in Callers : Idle(c) /\ log[c] = "pending" =>
    \/ opened[c] = "stopped"
    \/ opened[c] = "missing" /\ kind \in {"opensearch", "typesense", "vespa"}
    \/ opened[c] = "other" /\ kind \notin {"postgres", "typesense"}

\* The services keep the promise of DocumentStore, whatever order the engine
\* applies its queue in and whichever of a call's requests fail: what is stored
\* there is what will be settled here, and the steps of a scan are no steps.
Grade ==
  CASE kind \in {"dummy", "postgres", "solr"} -> "sure"
    [] kind \in {"typesense", "vespa"} -> "partial"
    [] kind = "opensearch" -> "reordering"
    [] kind = "meilisearch" -> "forgetful"
MayFail(write) == kind = "meilisearch" \/ (kind = "opensearch" /\ write.form = "all")
Late == UNION {queue[i].docs : i \in {i \in 1 .. Len(queue) : MayFail(queue[i])}}
Asking == [c \in Callers |->
  IF Idle(c) THEN [op |-> "none"]
  ELSE [op |-> calls[c].op, docs |-> calls[c].docs, to |-> calls[c].to,
        own |-> IF calls[c].op = "filter" THEN {} ELSE calls[c].sole]]

Store == INSTANCE DocumentStore WITH
  Values <- {Absent, Null, Value}, grade <- Grade, store <- Settled, late <- Late,
  writes <- Asking, rows <- log

StoreSpec == Store!Spec

=============================================================================
