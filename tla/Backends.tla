------------------------------- MODULE Backends -------------------------------
(***************************************************************************)
(* What each of the seven search backends makes of one request: which of   *)
(* the documents it names take effect, and whether the adapter raises.     *)
(* "backend" is a SearchBackendError, "missing" an IndexNotFoundError,     *)
(* which is not one of them, and "other" an exception of no class of the   *)
(* package: a KeyError, a TypeError of json, an error of the client        *)
(* library.  Engines.tla says when an effect happens and what the services *)
(* make of the answer.                                                     *)
(***************************************************************************)
EXTENDS Naturals, FiniteSets

CONSTANTS
  Absent,  \* what is stored of a document that is not there
  Null,    \* a stored document whose field is empty
  Value    \* a stored document whose field has the value filters ask for

Kinds == {"dummy", "meilisearch", "opensearch", "postgres", "solr", "typesense", "vespa"}

Answer(done, raised) == [done |-> done, raised |-> raised]

Whole(docs)   == {Answer(docs, "no")}
Failing       == {Answer({}, "backend")}
Missing       == {Answer({}, "missing")}
\* An error that may come when some of the documents were taken already.
Broken(docs)  == {Answer(done, "backend") : done \in SUBSET docs}
\* Per-document failures the adapter counts, or never sees, and does not raise.
Silent(docs)  == {Answer(done, "no") : done \in SUBSET docs}
\* A document the adapter or its client cannot copy or serialise, or an answer
\* it cannot read, once some of the documents were taken.
Torn(docs)    == {Answer(done, "other") : done \in SUBSET docs}
Unsent        == {Answer({}, "other")}
\* A single request, all or nothing, whose answer may be lost.
Single(docs)  == Whole(docs) \cup Failing \cup {Answer(docs, "backend")}

-----------------------------------------------------------------------------
(* Writes: add_documents, delete_documents, clear_documents and            *)
(* update_documents of each backend.  `present' are the documents stored.  *)

DummyAdd(docs)            == Whole(docs) \cup Torn(docs)  \* deepcopy may raise
DummyDelete(docs)         == Whole(docs)
DummyClear(docs)          == Whole(docs)
DummyUpdate(docs, exists) == IF exists THEN Whole(docs) \cup Torn(docs) ELSE Missing

\* Meilisearch takes every write as a task; a missing index fails the task.  The
\* body may not be JSON, nor the answer.
MeilisearchRequest(docs) == Single(docs) \cup Unsent \cup {Answer(docs, "other")}

\* SerializationError is not a TransportError.
OpenSearchBulk(docs)   == Silent(docs) \cup Broken(docs) \cup Torn(docs)
OpenSearchClear(docs, exists) ==
  IF exists THEN Single(docs) \cup {Answer(docs, "other")} ELSE Missing
OpenSearchUpdate(docs, present) == OpenSearchBulk(docs \cap present)

\* One statement for each document added or updated, one for a deletion;
\* in autocommit what ran before the failing statement stays.
PostgresSkip(doc)    == Silent(doc)  \* slip: a document that fails is skipped
PostgresAdd(doc)     == Whole(doc) \cup Failing
PostgresDelete(docs) == Whole(docs) \cup Failing
PostgresClear(docs)  == Whole(docs) \cup Failing
PostgresUpdate(doc)  == Whole(doc) \cup Failing

\* slip: the 404 of an update mapped as _admin_request maps its own.
SolrUpdate404(docs, exists) ==
  IF exists THEN Whole(docs) \cup Broken(docs) \cup Torn(docs) ELSE Missing \cup Unsent
\* Nothing but pysolr's own error is mapped.
SolrUpdate(docs, exists) ==
  IF exists THEN Whole(docs) \cup Broken(docs) \cup Torn(docs) ELSE Failing \cup Unsent

TypesenseImport(docs, exists) == IF exists THEN Silent(docs) \cup Broken(docs) ELSE Missing
TypesenseDelete(doc) == Silent(doc)  \* counts its errors
TypesenseClear(docs, exists) == IF exists THEN Whole(docs) \cup Broken(docs) ELSE Missing

\* A document without its primary key raises KeyError before anything is sent:
\* of a feed all at once, of an update one by one.
VespaFeed(docs)   == Silent(docs) \cup Broken(docs) \cup Unsent
VespaDelete(doc)  == Single(doc)  \* a 404 is success
VespaClear(docs)  == Whole(docs) \cup Broken(docs)
VespaUpdate(doc, present) ==
  Unsent \cup IF doc \subseteq present THEN Single(doc) ELSE Failing

\* The operations a backend sends document by document.
OneByOne(kind, op) ==
  <<kind, op>> \in {<<"postgres", "add">>, <<"postgres", "update">>,
                    <<"typesense", "remove">>, <<"vespa", "remove">>, <<"vespa", "update">>}

\* Whether the rest of the documents are still sent after a SearchBackendError.
GoesOn(kind) == kind \in {"typesense", "vespa"}

Answers(kind, op, docs, exists, present) ==
  CASE kind = "dummy" ->
         (CASE op = "add" -> DummyAdd(docs) [] op = "remove" -> DummyDelete(docs)
            [] op = "clear" -> DummyClear(docs) [] op = "update" -> DummyUpdate(docs, exists))
    [] kind = "meilisearch" -> MeilisearchRequest(docs)
    [] kind = "opensearch" ->
         (CASE op \in {"add", "remove"} -> OpenSearchBulk(docs)
            [] op = "clear" -> OpenSearchClear(docs, exists)
            [] op = "update" -> OpenSearchUpdate(docs, present))
    [] kind = "postgres" ->
         (CASE op = "add" -> PostgresAdd(docs) [] op = "remove" -> PostgresDelete(docs)
            [] op = "clear" -> PostgresClear(docs) [] op = "update" -> PostgresUpdate(docs))
    [] kind = "solr" -> SolrUpdate(docs, exists)
    [] kind = "typesense" ->
         (CASE op \in {"add", "update"} -> TypesenseImport(docs, exists)
            [] op = "remove" -> TypesenseDelete(docs)
            [] op = "clear" -> TypesenseClear(docs, exists))
    [] kind = "vespa" ->
         (CASE op = "add" -> VespaFeed(docs) [] op = "remove" -> VespaDelete(docs)
            [] op = "clear" -> VespaClear(docs) [] op = "update" -> VespaUpdate(docs, present))

\* Engines that take a write now and show it to searches later: Meilisearch's
\* tasks, OpenSearch's refresh, Solr's commitWithin.
Queues(kind) == kind \in {"meilisearch", "opensearch", "solr"}

\* Engines that create an index for the documents they are given.
CreatesOnAdd(kind, op) ==
  <<kind, op>> \in {<<"meilisearch", "add">>, <<"meilisearch", "update">>, <<"opensearch", "add">>}

-----------------------------------------------------------------------------
(* Filters.  A filter is one of six forms: {"field": value}, a list of     *)
(* values, None, a range with a number, a range with something else (a     *)
(* date), and a string in the engine's own language.                       *)

Forms == {"equal", "in", "null", "range", "text_range", "native"}

\* What the caller asks for.
Means(form, v) == IF form = "null" THEN v = Null ELSE v = Value

\* _matches_filters: skips a range with something else than a number, and
\* apply_filters_to_documents a string.
DummyReads(form, v) == form \in {"text_range", "native"} \/ Means(form, v)

\* translate_filter_to_opensearch has every form; search() drops a string.
OpenSearchReads(form, v) == form = "native" \/ Means(form, v)

\* The WHERE clause: None is compared as the string 'None'.
PostgresReads(form, v) ==
  \/ form = "text_range"
  \/ form # "null" /\ Means(form, v)

SolrReads(form, v) == Means(form, v)

\* None is written `None`.
TypesenseReads(form, v) == form # "null" /\ Means(form, v)

VespaReads(form, v) == form = "text_range" \/ Means(form, v)

\* Meilisearch's own deletion by filter.
MeilisearchReads(form, v) == Means(form, v)

Reads(kind, form, v) ==
  /\ v # Absent
  /\ CASE kind = "dummy" -> DummyReads(form, v)
       [] kind = "meilisearch" -> MeilisearchReads(form, v)
       [] kind = "opensearch" -> OpenSearchReads(form, v)
       [] kind = "postgres" -> PostgresReads(form, v)
       [] kind = "solr" -> SolrReads(form, v)
       [] kind = "typesense" -> TypesenseReads(form, v)
       [] kind = "vespa" -> VespaReads(form, v)

\* Forms a backend always raises for: Meilisearch refuses the empty filter a
\* skipped range leaves, Typesense a range with something else than a number,
\* Postgres any string.
Refuses(kind, form) ==
  <<kind, form>> \in {<<"meilisearch", "text_range">>, <<"typesense", "text_range">>,
                      <<"postgres", "native">>}

\* Searches of an index that is not there: a LookupError of the package for
\* three, an empty page for two, an error for Solr.
SearchMissing(kind) ==
  CASE kind \in {"opensearch", "typesense", "vespa"} -> "missing"
    [] kind = "solr" -> "backend"
    [] OTHER -> "no"

\* Searches whose filter may not serialise, or whose answer may not parse, out of
\* the adapter's sight.
SearchTears(kind) == kind \in {"opensearch", "solr"}

\* Hits carry the primary key as "id", whatever the documents call it, where
\* the adapter puts it there; the two that return bodies as stored do not.
HitsHaveId(kind, keyed) == keyed \/ kind \notin {"dummy", "postgres"}
=============================================================================
