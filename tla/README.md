# A TLA+ development of django-icv-search

django-icv-search keeps a search engine in step with a Django application's
database. Its rows say what should be searchable; a search engine (Meilisearch,
OpenSearch, Solr, Typesense, Vespa, PostgreSQL full text, or the in-memory dummy)
holds what is. Between the two are post-commit hooks, buffers in the Django cache,
Celery tasks, a thread pool, HTTP requests that fail, and several web and worker
processes that do all this at once and share no lock. These modules model that
machinery, check it with TLC on small instances, and prove part of it with TLAPS for
all instances: every safety property that a run checks, and the two refinements. Paths
below are relative to `src/src/icv_search/`.

Three kinds of statement recur. Some properties hold as they stand. Some hold only up
to events that the code lets happen; there the model records the event in a history
variable (`cause`, `spoiled`, `missed`, `astray`, `spoilt`, ...) and the property says
that nothing *else* can go wrong, so that a new way of losing an update is noticed.
And some are liveness: whatever was missed is repaired, or forgotten, in the end.

## 1. Inventory

| Component | State it keeps | Operations | Behaviour that is hard | What makes it correct |
|---|---|---|---|---|
| **Debounced automatic indexing** `auto_index.py`, `tasks.py` | per index and side (saves, removals): a list in the Django cache, a guard key, Celery tasks with a countdown | post-commit hook appends and schedules; flush task takes, deduplicates, sends in chunks; synchronous fallback | several web processes and workers; get, set and delete of the cache are separate calls; three timeouts (list, key, countdown); broker and engine failures; the two sides run in any order | the engine ends with what the database holds; nothing is lost but through known events; a buffered item does not stay; one flush waits at a time |
| **Bulk indexing** `services/documents.py` 281-404 | a bounded queue, an event, a list of errors, sender threads | cut batches, put, take, send, poison pills, join | threads; a full queue; an error that stops the senders; test-then-append of the error list; engines that drop documents of a request that succeeds | a call that returns has sent everything once; memory is bounded; the call ends; an error is raised |
| **Reindexing** `services/documents.py` 407-666, `backends/*` | the live and the temporary index, the log rows | zero-downtime reindex (create, fill, swap, delete) and its fallback, reindex_all (clear, fill) | writes during the reindex; failure and kill at every step, errors no handler takes; left-overs of an earlier run; two reindexes at once; backends whose swap is not an exchange | no half-built index is live; success means rebuilt; log rows are completed |
| **Index management and settings sync** `services/indexing.py`, `handlers.py`, `tasks.py`, `models/indexes.py` | the `SearchIndex` row with settings and `is_synced`, the engine's settings, sync tasks | create_index, update_index_settings (also synonyms, stop words), post_save handler, sync_index_settings with retries, sync_all_indexes | read-modify-write of a whole row; the flag is set without a look at what was pushed; kills between save and push; retries | is_synced tells the truth; an update is not undone; what failed is repaired |
| **Document writes** `services/documents.py` 24-268 | log rows | index, remove, update, clear, delete by filter | several requests per call, some refused; an engine that applies later; the row is closed by the caller, who may die, meet a database that refuses, or get an exception it does not expect | a recorded success is in the engine; a deletion by filter deletes what it asks for, no more; rows are closed |
| **Search and the result cache** `services/search.py`, `cache.py`, `handlers.py` | cached answers per index, the set of their keys | search fills, documents_indexed and documents_removed invalidate | fill races invalidation; the key set is read, changed and written back | no answer older than the last invalidation survives |
| **Merchandising rule cache** `merchandising_cache.py` | rules per tenant | load, invalidate on save and delete of a rule | global rules are in every tenant's entry | a changed rule is seen |
| **Merchandising pipeline** `services/merchandising.py`, `preprocessing.py`, `pins.py`, `boosts.py`, `rewrites.py`, `redirects.py`, `fallbacks.py`, `banners.py` | none (hit counters of rules) | preprocess, redirect, rewrite, search, pins, boosts, fallback, banners | pins placed one after the other shift each other; filters of three origins are merged; an empty page is not an empty answer | pinned documents are where they are pinned, once; nothing is lost; the caller's filter holds |
| **Analytics and click tracking** `services/analytics.py`, `services/click_tracking.py`, `services/search.py` 123-242, `icv_search_click_aggregate` | raw rows, daily aggregates | log a search, log a click, aggregate a day, delete raw rows | update-then-create of an aggregate; searches inside a transaction, which may roll back; a refused log row before the counter; rows written between count and delete; a second run for a day | each event is counted once |
| **Search intelligence** `services/intelligence.py` | rewrite rules it creates | cluster queries (union-find), suggest synonyms, create rewrites | check-then-create of a rule | clusters are the connected components; one rule per query |
| **Discovery and suggestions** `services/discovery.py`, `services/suggestions.py` | none | read-only requests | | |
| **Filters** `backends/filters.py`, `backends/*` | none | read a filter in one of six forms | each backend has its own reading, some drop what they do not understand | a filter means the same everywhere |
| **Query builder, pagination** `query.py`, `pagination.py` | none | chain of setters, cut pages | | |
| **Tenant resolution** `middleware.py`, `services/_utils.py` | a thread-local tenant | set, read, reset | a thread reused by the next request | a request sees its own tenant |
| **Backends** `backends/*` | registries of dummy, Vespa and Solr | translate calls to HTTP or SQL | bulk requests whose documents fail one by one; asynchronous engine tasks; a missing index | what they report is what happened |
| **Migrations** `migrations/*`, `models/*` | the database tables | 0001 to 0006, the squashed one, 0007 | two ways to one schema, and every release in between | both lead to what the models declare |
| **Configuration, checks, admin, views, commands, test helpers** | | declarations and wrappers | | |

How they interact: an application's save runs `_handle_post_save`, which calls
`index_documents` at once, in a Celery task, or through the **debounce buffers**;
`index_documents` calls the **backend** and sends `documents_indexed`, on which the
**result cache** invalidates the index. **Reindexing** writes the same engine index
from the database, through `index_documents`, `bulk_index` or the backend directly.
Every service starts with `resolve_index`, which may run `create_index` of **index
management**. Search goes through the **merchandising** pipeline, then the result
cache, then the backend, and writes **analytics** rows, from which click aggregation
and **intelligence** read.

## 2. Modules

| Module | Models | Status |
|---|---|---|
| `Debounce` | hooks, buffers, flush tasks | checked, safety proved (`Debounce_proofs`) |
| `BulkIndexCall` | what a call of `bulk_index` promises | abstract specification |
| `BulkIndex` | the threads and the queue of one call | checked, safety proved, and proved to implement `BulkIndexCall` (`BulkIndex_proofs`) |
| `Reindex` | `reindex_zero_downtime`, `reindex_all`, writers, backends | checked, proved (`Reindex_proofs`) |
| `IndexSync` | settings, flag, pushes and tasks of one index | checked, safety proved (`IndexSync_proofs`) |
| `ResultCache` | cached answers of one index, their key-set, writes and invalidation | checked, safety proved (`ResultCache_proofs`) |
| `RuleCache` | cached rule listings per tenant, loads and edits | checked, safety proved (`Merchandising_proofs`) |
| `Ranking` | pins and boosts as functions of a page | used by `Merchandising` |
| `Merchandising` | the stages of `merchandised_search` | checked, proved (`Merchandising_proofs`) |
| `Analytics` | query counters, clicks and their roll-up | part of `Intelligence`, proved there |
| `Intelligence` | demand, suggestions, clusters, rewrites, and what they do to later searches | checked, proved (`Intelligence_proofs`) |
| `Backends` | what each of the seven adapters makes of a request and of a filter | used by `Engines` |
| `DocumentStore` | what the document writes promise, whichever the backend | abstract specification |
| `Engines` | document writes of the services, request by request, on one of the backends | checked, proved, and proved to implement `DocumentStore` (`Deployment_proofs`) |
| `Fields`, `SchemaChain`, `SchemaSquash`, `SchemaModels` | migration operations, the chain 0001 to 0006, the squashed migration and 0007, the models | data of `Schema` |
| `Schema` | `migrate` from any earlier release | checked in `Deployment`, proved (`Deployment_proofs`) |
| `Deployment` | `Schema`, then `Engines` | composition |
| `MC*` | small instances of the above | |

`Intelligence` extends `Analytics`: rewrites made from the counters change what is
searched and so what is counted. `Merchandising` extends `Ranking`, `Engines` extends
`Backends`, and `Deployment` runs `Engines` on the tables `Schema` has made.

Definitions whose comment starts with `slip:` are not part of a specification: each
is what a plausible mistake would make of the definition after it, and is kept to
confirm that the properties notice.

### Debounce

One index, whose `SearchIndex` row exists. A document is a primary key; an operation
is a save or a removal with the number of its commit, which stands for the document
body of that moment. `buffer[s]` and `bufTTL[s]` are the cache entry of side `s`,
`keyTTL[s]` its guard key, `pending[s][k]` the flush tasks that are due in `k`
seconds. A hook's control `wpc` goes through the cache calls of
`_debounce_buffer_append` one by one: `BufferGet` (`cache.get`), `BufferSet`
(`cache.set` with the timeout of three windows), `AlreadyScheduled` or
`MustSchedule` (the guard key), `Schedule` or `ScheduleFails` (`apply_async`),
`SetKey`; on failure `DropBuffer`, then `Fallback` or `FallbackFails`. A flush is
`FlushStart`, `FlushRead` or `FlushReadEmpty`, `FlushClear` (delete and
deduplicate), `FlushSend` for each chunk, `FlushFails` wherever it is. `Tick` is a
second: it expires entries and brings countdowns down; a due task waits for a
worker as long as it likes.

`cause` remembers the first event that may make the engine diverge: two cache
sequences that `overlap`, operations on one document that are `reorder`ed, an
entry that `expiry` took, a `fallback` that threw away others' items, a
`flush_error`. The code can do all five (section 5 says where), so the safety
properties say that nothing else can.

- `Conservation`: until then, the last operation on every document is in a hook, in
  its buffer, in a flush, or applied. `Converges`: at rest the engine equals the
  database. These fail if deduplication keeps the wrong item, a chunk is skipped, or
  the list is not what was read plus the item.
- `OneWaitingFlush`: with one web process and no size trigger, at most one flush
  waits for its countdown. This depends on key timeout and countdown being equal.
- `Drains`: a buffered list does not stay. It rests on the list's timeout, since an
  item can be buffered with no flush to come.

### BulkIndex

One call. `queue` is the bounded `queue.Queue` (its `put` and `get` are atomic);
`ppc` is the calling thread (`TakeBatch`, `Break`/`GoOn` on the event, `Put`,
`Progress`, `PutPill`, `Join`), `wpc[w]` a sender (`Loop`, `Get`, `GetTimesOut`,
`Send`, `SendFails`, and the three steps of its except branch: `TestError`,
`AppendError`, `SetEvent`). `SourceRaises` and `Progress` cover an exception of the
source or the callback: the `finally` clause still puts the pills, then the pool is
joined. A failed request may have applied any part of its batch. A request that returns
has applied all of it only if the backend is `sure`: OpenSearch's bulk, Typesense's
import and Vespa's feed answer normally for documents they did not take
(`opensearch.py:377-383`, `typesense.py:353-360`, `vespa.py:443`), a task of Meilisearch
may fail later, and the sender does not look. Such documents are `refused`; the total
counts them.

- `ReturnsComplete`: when the call returns, each document was applied once, or was in a
  request that returned without having taken it; with a sure backend there is none of
  the second kind. What the call itself could get wrong, and this excludes, is a batch
  that is skipped, sent twice, left behind a pill, or still being sent.
- `BacklogBound`, `StuckOnlyAfterError` and liveness `EndsOrStuck`.
- `CallSpec`: the call implements `BulkIndexCall` under the mapping "running until
  the calling thread has returned or raised".

### Reindex

An index is what it answers: for each document the version it holds. `engine` holds
the live index and the one temporary index that every reindex uses. `backend` is one
of four combinations of what `create_index` does to an index that exists and what
`swap_indexes` does; they are read off `backends/*.py` and listed in its operator `Backends`.
Typesense, whose swap depends on aliases made outside this code, is left out.
`Create`, `Query`, `Populate` (a batch; batches in any order, as `bulk_index` may
apply them), `Swap`, `Drop` are the try block, `Fails` its failure anywhere (applied
or not), `Cleanup` the except branch, `MarkFails` a `mark_complete` that the database
refuses, there or at the end of the try block, `Undo` the fallback. `reindex_all` is
`Clear`, `QueryAll`, `IndexBatch`, `FinishAll`; `IndexFails` is a `SearchBackendError` of
`index_documents`, the only one its handler takes (`documents.py:522`), `ClearRaises` any
other error of the clear or of the creation of its log row, and `AllRaises` any other error
after it: of the query, of `to_search_document`, an `IndexNotFoundError`, of
`mark_complete`. `Crash` is a killed process.
Writers commit and then write to the live index, as the hooks do.

- `ZeroDowntime`: with reindexes one after the other and a backend that swaps, no
  document that nobody changed is ever missing from the live index, whatever fails.
- `SuccessMeansRebuilt`: a reindex that reports success has left the rows of the
  moment it read them, unless written since. Its conditions are the limits of the
  code: the index it filled was empty (with backends whose `create_index` keeps an
  existing index, what a crash left behind is swapped in), no second reindex ran,
  and the backend exchanges. Documents written during the reindex are excluded:
  the code does not replay them.
- `LogsClosed`: at rest the log rows still pending are those of killed processes
  (`lostLogs`), one of each call that returned by its fallback (`strayLogs`), one of each
  `reindex_all` that ended by `AllRaises` (`escapedLogs`), and those whose completion failed
  (`unmarkedLogs`). A backend that swaps leaves none of the second kind;
  `reindex_zero_downtime` alone, whose `except` takes every error, none of the second and
  third; and each row of the others took a fault, of which one costs two rows at most.

### IndexSync

One index; its settings are a version per key. An editor (any process in
`create_index` or `update_index_settings`) has an instance `copy[p]` of the row from
`Load` on, and `Save` writes all of it back, `is_synced` included. `Handler`,
`Delay`, `DelayFails` are the post_save handler under both settings; `Push`,
`PushFails`, `PushRefused`, `Mark` are `_sync_index_to_engine` wherever it is called
from; `TaskStart` and `Periodic` the two tasks; `Raises` the retry, up to
`max_retries`. `create_index` provisions the engine first (`Create`), saves the row
even if that failed (`Insert`), and raises afterwards (`Saved`). `upserts` tells
engines that create a missing index when they get its settings (Meilisearch, dummy)
from those that refuse. The creator's own settings are taken not to be empty, so it
always pushes. Sync log rows and statistics are left out.

- `FlagIsTrueOrRecorded`: at rest a row marked as synced is synced, unless one of
  four events happened, which `spoiled` records: an older copy was pushed (`Push`),
  the flag was set for other settings than the row's (`Mark`), a push failed while
  the row said synced and AUTO_SYNC was off (`PushFails`), or an editor was killed
  when the row already held new settings and an old `is_synced` (`Crash`).
- `EditsKept`: unless two updates overlapped, the row has the last value of each key.
- `Repaired`: otherwise the periodic task repairs everything in the end.

### ResultCache

One index with the cache on. Documents are a version: a write raises `engine`, a
cached answer `entry[q]` is the version it was made from, `known` is the key-set, an
entry of the same cache with ten times the timeout. A search is `Miss` (`cache.get`),
`Ask` (the engine), `Fill` (`cache.set`), then `_register_key`, which is `AlreadyKnown`,
or `ReadKeys` and `Register`, a read and a write of the set. A write is `Indexed`, on
whose signal `ICVSearchCache.invalidate` is `ReadKnown`, `DeleteMany`, `DropKnown`;
`Silent` is every write that sends no signal (`update_documents`, `bulk_index`, the swap
of a reindex, a request that failed although it was applied). `Crash` is a process
killed, or a cache that fails, while it invalidates. `Tick` expires entries.

- `Fresh`: an answer from before a write is about to be deleted by an invalidation,
  unless it escaped: filled after the invalidation (`missed` in `Fill`), not registered
  yet when the key-set was read (`missed` in `ReadKnown`), no signal (`Silent`), `Crash`,
  or its key was lost.
- `KeysKnown`: a live entry's key is in the key-set or about to be, unless `Register`
  overwrote another's key, `DropKnown` deleted one it had not read, or the set expired
  before the entry (a renewed entry does not renew the set).
- `StaleExpires`: no stale answer is served for ever.

### RuleCache

One rule type of one index. `rule[r]` is the committed row, with a tenant (`Global` is
the empty one), `cache[k]` the listing `load_rules` keeps for tenant `k`: the active
rules of `k` and the global ones. A load is `Miss`, `Query`, `Store`. An edit is
`SaveAutocommit` (commit, then signal) or `SaveAtomic` (signal, then `Commit`, as in the
admin's change forms), with `Invalidate` once for the rule's tenant and once for the
global entry between them; `Abandon` a rollback or a death. `SetActive` is the admin's
bulk action, which sends no signal. Row locks keep two transactions off one rule.

- `RulesSeen`: a listing that differs from the rows is about to be deleted, unless the
  entry is `astray`: a global rule changed and with it other tenants' listings, a rule
  moved to another tenant, a transaction committed after its signal, a bulk action, a
  listing stored after the signal, a death.
- `RulesExpire`: once nobody edits any more, no stale listing is applied for ever.

### Ranking and Merchandising

One request. `Ranking` has `apply_pins` (by position, buried ones last, each removed
and inserted again, with the parallel list of scores) and `apply_boosts` (weights as
halves, comparison as numbers or else as text) as functions of a page. Python's stable
sorts are `Sorted`: an item's place is one more than the number of items ahead of it.
What the code does in a loop is a recursive function of the number of rounds.
`Merchandising` takes a request through its stages in the order of the code; a filter is
a set of pairs (field, who asked for it), so that a merge shows whose value survives. A
stage may find a rule or not, which stands for every way a rule can match, be switched
off or fail. `Alternative` is one search of the zero-result fallback.

- `PinsLand`: pins that only raise documents land where their rules say. (A pin that
  moves a document down past an earlier pin shifts that pin: `pins.py:117`.)
- `PageKept`: no hit of the page is lost or doubled, the total counts each document
  pinned onto the page, and until boosts are applied each hit has its own score, with one
  exception: where the first pin takes the page's only hit, its score is popped off a list
  that is then empty, and nothing is written back (`pins.py:98-119`), so that the page has
  no scores at all (`ScoresDropped`).
- `CallerFirst`: a preprocessor cannot override the caller's filter dict.
- `FallbackLast`: a fallback needs an engine that found nothing, not an empty page, and
  only a fallback logs a search that asked not to be logged.

### Analytics and Intelligence

`agg` is `SearchQueryAggregate`, a row per normalised query and day. `Log` is
`_maybe_log_query`: in modes "individual" and "both" it first creates the query's own row,
and if that is refused, its broad `except` (`search.py:190`) skips the counter, so the
search is lost. `_log_aggregate` is `Update`, `Create`, `Retry`, each a statement; `Fail` is
any of them refused, or a process killed. A searcher in `Atomic` may `Begin` a transaction
around its searches: what it counts is `pending` on a row it has locked (`lock`) until it
`Commit`s, others wait for that row, and `Rollback` undoes every count of the transaction.
An error breaks the transaction (`tx`), as in PostgreSQL: further statements are refused,
the retry after a refused insert among them, and only the rollback is left. `raw` and
`rolled` are clicks and their daily counts, by spelling (nothing normalises them);
`icv_search_click_aggregate` is `Count`, `Write` for each group, and `DeleteRaw` or
`Finish`. `ClearAggregates` is the clean-up, `Midnight` the end of a day. `Volume` and
`Gaps` are what `get_query_trend`, `get_demand_signals` and `suggest_synonyms` read in every
mode, and the other reports in mode "aggregate"; in the other modes those read
`SearchQueryLog` (`analytics.py:182-204`), whose rows are not modelled.

`Suggestions` is `suggest_synonyms` (what fails more than half of the time and what
fails less than a fifth, with similarity as a given relation), `Suggest`, `Skip`,
`Check`, `Make` one run of `auto_create_rewrites`, `Search` a search whose query a
rewrite may replace before it is counted. `Clusters` is the union-find.

- `SearchesCounted`: the counters of any window, with what open transactions will add,
  are the searches asked in it, minus those on their way and those `lost`: refused, undone
  with their transaction, or cleared.
- `ClicksCounted`: a day's count and the rows left account for its clicks, unless
  `--delete-raw` deleted rows that came after the count, or the day was rolled up again
  afterwards (`spoilt`).
- `OneRulePerQuery`: two rules on one query only from two runs that checked together.
- `ClustersConnect`: clusters are the connected components, for every sequence of up to
  four similar pairs of four queries. A component is what every closed set with the query
  in it holds, where a closed set has both queries of a pair or neither.

### Backends, Engines

An `Answer` is what a request did and what the adapter raised. `Backends` gives, per
backend and operation, the answers there may be: everything, nothing, all of it with
the answer lost, some of it with an error (`Broken`), or some of it without one
(`Silent`), and which error. The services catch `SearchBackendError` only. An
`IndexNotFoundError` is none, and neither are the exceptions the adapters let through
(`Torn`, `Unsent`): a document without its primary key (Vespa, `vespa.py:437` and 909), a
body that is not JSON (Meilisearch, `meilisearch.py:43`), the client library's own errors
(OpenSearch's `SerializationError`, whatever of Solr is not pysolr's error), a document
that cannot be copied (dummy). `Backends` also gives each backend's reading of the six
forms of a filter.
`Engines` is a service call: `IndexDocuments`, `RemoveDocuments`, `UpdateDocuments`,
`ClearDocuments`, `DeleteByFilter` open their row, `Scan` reads pages of ids (or
`DeleteTask` lets Meilisearch do it), `Send` is one request, `Close` completes the row,
unless what was raised is not caught; `Stop` ends the call anywhere and leaves the row,
as the death of the process does and, at its last step, a database that refuses the row's
update. A search's ranking is any numbering of the documents, which an engine keeps from
page to page (`KeptOrders`), but for PostgreSQL, whose query has no order (`Orders`); a
page is the matching documents whose place is on it. `Apply` is an engine that applies
what it took: Meilisearch's tasks, OpenSearch's refresh and its unwaited
`delete_by_query`, Solr's commit. `CreateIndex` and `DeleteIndex` are the adapters'.

- `Acknowledged`: on dummy, PostgreSQL and Solr a document whose add was recorded as a
  success, and that nobody touched since, is there or will be.
- `FilterDeletes`: a deletion by filter that succeeds keeps what it does not ask for,
  unless the backend misreads the filter (`Misread` lists the seven cases), and deletes
  what it asks for, unless the case is in `MayLeave`.
- `RowsClosed`: a row stays pending only after a death, a database that refuses its
  update, an `IndexNotFoundError` (OpenSearch, Typesense, Vespa) or an exception of no class
  of the package (all but PostgreSQL and Typesense).
- `StoreSpec`: the services implement `DocumentStore`, which knows of no requests, pages or
  queues. There a call names documents and a value (`Ask`), the engine takes some of them
  (`Take`), and the row says success (`Confirm`) or the call stops anywhere (`GiveUp`).
  `store` is what is stored once the queue is applied (`Settled`), `writes` what the calls
  under way ask for, `late` the documents of writes the engine may still go back on
  (`GoBack`: a task of Meilisearch that fails, a clear of OpenSearch that runs after later
  writes), and `grade` which of the four kinds of engine it is. So nothing changes a
  document but a call under way that names it, or an engine that goes back; a success on
  an engine that raises covers all of the call that no other call has named since; and an
  engine's applying what it took, in any order the code allows, shows in no other way.

### Schema and Deployment

A table is its columns (type, width, index, unique, null, reference), its constraints
and its named indexes. `SchemaChain` has each operation of 0001 to 0006, `SchemaSquash`
those of the squashed migration and of 0007, `SchemaModels` what the model classes
declare. A database starts where an earlier release left it (any prefix of the chain)
and `Migrate` takes Django's steps: the squashed migration where nothing it replaces was
applied, the rest of the chain otherwise. `Deployment` lets the services write once the
database is migrated.

- `SchemaAgrees`: either way the tables are those the models declare, when the project's
  `ICV_AUTH_USER_MODEL` is its `AUTH_USER_MODEL`.

## 3. Runs

| Run | Instance | Shows |
|---|---|---|
| `debounce` | 2 documents, 2 web processes, 1 worker, window 1, size trigger at 2, chunks of 1, 3 commits, 1 failure | `TypeOK`, `Conservation`, `Converges` |
| `debounce_serial` | 1 document, 1 web process, 2 workers, window 2, no size trigger, 3 commits, 2 failures, fair | `OneWaitingFlush`, `Drains` |
| `bulk_index` | 2 senders, 13 documents in batches of 2 (7 batches), 1 document dropped by a request that returns, fair | six properties, among them the refinement |
| `bulk_index_hang` | violation | after an error the call can wait for ever (`documents.py:394`) |
| `reindex` | 2 documents, 2 reindexing processes, 1 writer, batches of 1, 3 commits, 2 reindexes, 2 failures | `TypeOK`, `ZeroDowntime`, `LogsClosed`, `SuccessMeansRebuilt` |
| `index_sync` | 2 keys, 2 editors, 1 worker, 2 edits, 2 failures | `TypeOK`, `FlagIsTrueOrRecorded`, `EditsKept` |
| `index_sync_repair` | the same with 1 key, 1 failure, fair | `Repaired` |
| `result_cache` | 2 queries, 2 searchers, 1 writer, timeout 2, key-set factor 2, 2 writes, fair | `TypeOK`, `Fresh`, `KeysKnown`, `StaleExpires` |
| `rule_cache` | 1 rule, 2 tenants and the empty one, 1 loader, 2 editors, timeout 2, 2 edits, fair | `RulesSeen`, `RulesExpire` |
| `merchandising` | 3 documents, pages of 2, 2 pages, up to 2 pins (at 0, 1 or buried) and 2 boosts, 2 filter fields | `TypeOK`, `PinsLand`, `PageKept`, `CallerFirst`, `FallbackLast` |
| `intelligence` | 2 queries in 3 spellings, mode "both", 2 searchers with or without transactions, 2 roll-ups, 2 creators, 2 days, 3 events | `TypeOK`, `SearchesCounted`, `ClicksCounted`, `OneRulePerQuery`, `ClustersConnect` |
| `deployment` | a database of every earlier release and a new one; 2 documents, 2 callers, scan pages of 1, 2 calls, all seven backends | `SchemaAgrees`, `Acknowledged`, `FilterDeletes`, `RowsClosed`, the refinement `StoreSpec` |

**Why the bounds are enough.** Two documents and two hooks let one hook's sequence
interrupt another's on the same or another document; three commits are save, save,
removal of one document beside a save of the other; a size trigger of 2 and chunks
of 1 make both happen. A window of 2 seconds lets an item arrive between two ticks
of a countdown; two workers let flushes overtake each other. Seven batches exceed
the five that two senders and a queue of three can hold, which the blocked `put`
needs. One crash and one failure, a second reindex and a write between any two steps
are what a rebuild has to survive. Two keys and two editors are the smallest lost
update; two failures let a create fail and then a push.

In `result_cache` two queries are what a register can overwrite, two searchers what can
interleave with each other and with one invalidation; a timeout of two lets a key-set
be renewed by one entry and expire under another, and the factor 10 of the code changes
only how long that takes. In `rule_cache` two tenants and the empty one are a covered,
an uncovered and a global entry; two edits are an edit and another during its
transaction. In `merchandising` two pins are the smallest that disturb each other, three
hits over pages of two make a short page and a pinned document from another page. In
`intelligence` three events are two searches that race for a row and a third that meets
the result, or two of one transaction beside one of another that waits for their row,
or a click before, between and after count and delete. One document dropped in
`bulk_index` is enough, since the senders treat every batch alike. In `deployment` a page
of one and two documents make a scan of two pages, two calls a write between any two
requests of another; the real page of 1000 shows nothing else.

Documents, web processes, runners, keys, editors, searchers, roll-ups, creators and callers
are interchangeable, and symmetry is used in the safety runs only.

**Deadlock** is not checked: every model may stop when its bounded work is done or,
for `bulk_index` and `merchandising`, when the call is over. What must not stop is
stated as liveness.

**Fairness.** `Debounce`: a hook or task that runs goes on, a free worker takes a
due task, time passes. `BulkIndex`: threads that can run do (`WF` per thread); a
timeout of `get` is such a step. `IndexSync`: as for `Debounce`, and
`sync_all_indexes` is scheduled again and again, as its docstring asks. `ResultCache`
and `RuleCache`: a search, an invalidation, a load or an edit that began goes on (all
are straight-line code in one thread), and time passes. No fairness is assumed of
failures, of kills, of new commits, searches or edits.

## 4. Proofs

`Debounce_proofs`, from `SettingsAssumption` (settings and bounds are numbers, the
window is at least 1), for any set of documents, web processes and workers:

- `TypeCorrect`: `TypeOK`.
- `OperationsKnown`: no operation on its way is newer than the database says, and a
  flush holds one operation per document. Without it `Apply` could lower the engine.
- `NothingElseLoses`: `Conservation` together with `SortedBuffers` (buffers hold the
  operations on a document in commit order), by which keeping the last operation of
  a list keeps the newest. The inductive invariant is `IndInv`, the conjunction of
  these parts; each theorem uses those before it.
- `Conserved` and `ConvergesAtRest`: the two properties of the run `debounce`.
- `OneFlushWaits`: `OneWaitingFlush`, assuming one web process and no size trigger. Its
  invariant `WaitInv` adds that the guard key outlives every countdown that runs, or the
  hook that will set it is at that step (`Covered`), and that a hook about to schedule
  has seen that none runs (`SeenNone`).

`BulkIndex_proofs`, from `SettingsAssumption` (a finite, non-empty set of senders, a
batch size of at least 1):

- `TypeCorrect` (with `Counts`), `PillsBehind` (no batch is behind a pill, and a
  sender that took a pill left none), `OutcomeIsFinal`, `ErrorsRecorded`,
  `AppliedOnce` (a document is at one place only).
- `NothingIsLost` says that until a request raises, each document taken from the source
  is with the caller, in the queue, with a sender, applied, or refused by a request that
  returned.
- `CompleteOnReturn`: when the call returns, no request raised, so all senders
  stopped on pills, so the queue is empty of batches, so everything was applied or
  refused; and by a sure backend, everything was applied.
- `StuckAfterErrorOnly`: a sender that stopped without an error took a pill, and there
  are no more pills than senders, so a queue without senders has room for them.
- `BacklogIsBounded`: by the queue's bound and the number of senders.
- `ImplementsCall`: the refinement, step by step.

`Reindex_proofs`, from `SettingsAssumption` (batches and commits of at least 1, finitely
many reindexing processes) and `MissingAssumption` (what is missing is no index and no
write), for any documents, processes and backend:

- `TypeCorrect`: `TypeOK`.
- `NeverHalfBuilt`: `ZeroDowntime`. The invariant `DowntimeInv` follows the temporary
  index: what a left-over one holds of unchanged documents is right (`TempLags`), what is
  still to be sent completes the one being filled (`TempFills`), everything was sent at
  the swap (`AllSent`), and who writes the live index has emptied it (`LiveFilled`).
- `SuccessIsRebuilt`: `SuccessMeansRebuilt`, an action property. A reindex on a fresh
  index is `OnTrack`: index and rest together are the rows it read, but for what was
  written since; after the swap the live index is.
- `RowsAreCounted` and `LogsAreClosed`: `LogsClosed`, by counting. The rows still open
  are a set of pairs, one per reindex and row it has at its label, so its cardinality is
  what is pending minus what was lost, left by fallbacks, escaped or unmarked
  (`RowsCounted`); at rest the set is empty. `FallsBack` adds that a backend that swaps has
  no fallback to leave any, `LossInv` that without `reindex_all` nothing escapes and that
  each fault accounts for two of the rows at most.

`IndexSync_proofs`, from `SettingsAssumption` (bounds are numbers, no process is both
an editor and a worker) and `MissingAssumption` (what is missing is no row and no
settings), for any settings keys, editors and workers:

- `TypeCorrect`: `TypeOK`, which also says that nobody is past `Insert` and no task
  is queued before there is a row.
- `NoEditIsLost`: `EditsKept`, with `CreatorsFresh`: the row a creator inserts has
  the settings nothing was saved for yet.
- `FlagHolds`: `FlagIsTrueOrRecorded`. At rest says nothing of the way there, so the
  invariant `IndInv` follows the push: settings that wait for their `Save` are nobody
  else's (`Unsaved`, since `Load` numbers them, `Numbered`), so a save makes every
  push in progress a stale one; a flag that is up, or about to be, means the engine
  has an index (`OnceSynced`), so nothing is refused then; what is being marked is
  in the engine or stale (`PushedIsMarked`); and when the flag is wrong, some editor
  has yet to clear it or to push (`SomebodyOnDuty`). At rest there is none.
  `Unloaded` says once what all steps but `Load` leave of settings.

`ResultCache_proofs`, from `SettingsAssumption` and `NoneAssumption` (timeouts and the
factor are at least 1, the mark of a missing entry is no version), for any queries,
searchers and writers:

- `TypeCorrect`: `TypeOK`, with `Asking`: who searches has a query.
- `KeysAreKnown`: `KeysKnown`. It needs that no key-set is kept past its timeout
  (`KeySetKept`); together they are `KeyInv`.
- `AnswersAreFresh`: `Fresh`, from `KeyInv`: a stale entry that an invalidation does not
  find in the key-set is with a search that has yet to register it, which is recorded.

`Intelligence_proofs`, from `AnalyticsAssumption` and `IntelligenceAssumption` (finitely
many spellings, at least one, and searchers; similar pairs are pairs of sampled queries),
for any queries, days, searchers, roll-ups and creators:

- `TypeCorrect`: `TypeOK`.
- `SearchesAreCounted`: `SearchesCounted`, for every mode and any choice of transactions.
  `SearchInv` has the balance of a single query and day (`Exact`): counted, pending in a
  transaction, on its way and lost make up what was asked; and a row has something pending
  only while a transaction has it locked. The
  property adds these up over queries and days, by lemmas on sums over finite sets.
- `ClicksAreCounted`: `ClicksCounted`, from `ClickInv`: what a roll-up has counted and not
  yet written is no more than was clicked, and every other count is exact or `spoilt`.
- `OneRule`: `OneRulePerQuery`, from `RuleInv`: a run about to create a rule is the only
  one that is, and there is no such rule, unless the query is in `overlapped`.
- `Connected`: `ClustersConnect`, for every sample and every sequence of pairs. Parents
  stay a `Forest`, where each step up is less deep, so that `find` ends and has one
  answer (`RootFound`); after each union the trees are the components of the pairs so far.

`Deployment_proofs`, from `EnginesAssumption` (finitely many documents, pages of at least
1, contents are null or a value), for any documents, callers, page size and user models:

- `RowsAreClosed`: `RowsClosed`. `RowInv` says of a call under way that writes without a
  row have none, and that an exception the services do not catch comes from a backend that
  raises it (`MayRaise`), which goes back to what each adapter's requests may answer
  (`Careful`: PostgreSQL's and Typesense's let no foreign exception pass).
- `AddsAreAcknowledged` and `FiltersDelete`: `Acknowledged` and `FilterDeletes`, from
  `EngineInv`. An add has what it sent in the engine or in its queue, as long as it did
  not fail (`Puts`). A deletion leaves alone what it does not ask for (`Keeps`), has all
  it asks for of the pages it read (`Scanned`: a page is an interval of places in one
  numbering of the documents), and deletes that (`Deletes`). The documents a call has for
  itself are no other call's (`Apart`), which carries each call past the steps of the
  others, and acknowledged documents are nobody's (`Kept`). What the queue holds is a
  fold, `Settled`; lemmas say what one more write does to it.
- `ImplementsStore`: the refinement `StoreSpec`, step by step, from `EngineInv` and
  `RowInv`: a request is a `Take` of what the adapter's answer covers, a page of a scan
  and most applications of a queued write are stutters. `Overtaken` has the hard case: if
  a write is applied before clears that were taken earlier, then each document settles as
  it would have, or is absent and named by one of those clears. `Puts` is what lets a
  successful call on an engine that raises be confirmed.
- `SchemaOfMigrated`: a migrated database has the tables of the models if the migrations
  and the models refer to the same user model, and only then. One lemma per migration
  (`TablesOf1` to `TablesOf7`, `TablesOfSquashed`) computes what it makes of the tables
  before it; the invariant `SchemaInv` says that a database is some way along the chain,
  with the tables of that place, or complete. `SchemaAlwaysAgrees` is `SchemaAgrees`, which
  for this reason assumes one user model, as the run does; section 5 has the other case.

`Merchandising_proofs`, from `MerchandisingAssumption` (finitely many documents, pages
of at least 1; a query may match no rule; positions of pins are -1 or at least 0, as
their help text asks; weights are numbers), for any documents, fields, rules and pages:

- `TypeCorrect`: `TypeOK`.
- `CallersFilterHolds`: `CallerFirst`, from what the filter is at each stage (`FilterInv`).
- `PinsArePlaced`: `PinsLand`. By induction over the pins in their order: those applied so
  far are where they should be, and the next goes behind them (`LandStep`); that the order
  is one, and which, is `SortedTurns`.
- `PagesAreKept`: `PageKept`. Taking a document out and putting it back moves it and
  nothing else (`TakenOut`, `PutIn`, `MovedHits`), its score with it as long as there are
  others; the first pin is the only one that can find a page of one hit and scores
  (`FirstPinDrops`); and a stable sort permutes (`BoostsKeep`).
- `FallbackIsLast`: `FallbackLast`.

The last four share `PipeInv`, which says what the result is to the engine's page at each
stage. The same module has `RuleCache`'s, from `RuleAssumption` (a timeout of at least 1,
the marks differ from tenants), for any rules, tenants, loaders and editors:
`RuleTypeCorrect` (`RuleTypeOK`, which no run needs to check), and `RulesAreSeen`, whose
`SeenInv` is inductive as it stands; `Accounted` says once that a change of rows leaves
every entry accounted for if what `Escapes` records is recorded.

**Loops.** The library's induction theorems have an operator for a parameter and cannot be
used. Where a result is about every length of a list or size of a set, the proof takes a
smallest counterexample instead (`LeastNumber`, `SmallestSubset`, from the well-foundedness
of strict inclusion of finite sets) and shows that there is a smaller one. That a recursive
function exists (`SettlingExists`, `PinningExists`, `MultiplyingExists`) is shown the same
way; what it is follows from its equation.

**Tables.** The provers compute with records whose fields they know and whose contents they
do not; the lemmas name a table before they say what a migration does to it. Django's
operations overwrite one function with another, which `Fields` writes `f ++ g`, because the
operator of `TLC` for it has no definition a prover could use.

Only model-checked: liveness (`Drains`, `EndsOrStuck`, `Repaired`, `StaleExpires`,
`RulesExpire`), since the prover has no rule for `ENABLED`. Every safety property of a
passing run is a theorem.

## 5. What was found

`bulk_index_hang` is a run: all senders stop on an error while the queue is full; the
caller blocks in `put` and the error is never raised.

The other differences between the code and what its comments or documents say, or
what its user may expect, are recorded in the models as named events or conditions:

- **Debouncing.** `tasks.py:207` says "Atomically read and clear the buffer"; a hook that
  appends between `cache.get` and `cache.delete` loses its item. The guard key gets its
  timeout after the flush got its countdown and so outlives it
  (`auto_index.py:211`): the first item of the buffer that this flush has just emptied
  schedules nothing. A removal's flush may run before the save's, which restores the
  removed document (`auto_index.py:117`).
- **Reindexing.** `swap_indexes` of OpenSearch and Solr makes an alias nothing reads; the
  rebuilt index is then deleted and success is reported. On backends without a swap the
  fallback leaves the outer log row pending (`documents.py:638`). `reindex_all` leaves its
  own pending on any error but a `SearchBackendError` (`documents.py:513`, 522).
- **Bulk indexing.** With OpenSearch, Typesense or Vespa the call returns, and counts as
  "sent", documents the engine has refused.
- **Settings.** `mark_synced` sets the flag whatever the row has become
  (`models/indexes.py:112`).
- **Result cache.** A fill after an invalidation, a lost or expired key, and a write
  without a signal leave a stale answer until its timeout. Searches that the cache
  answers are not logged.
- **Rule cache.** A change of a global rule deletes the listing of the empty tenant only;
  the signal runs before the commit; the admin's bulk actions send none; a save of a rule
  in the admin writes back the `hit_count` it read.
- **Pipeline.** A later pin shifts an earlier one; boosts move pinned documents; a pinned
  stub on an empty answer suppresses the fallback (`merchandising.py:256`); a caller's
  filter written as a string is dropped when a preprocessor adds filters, though the
  comment says the caller's win (`merchandising.py:151`); a fallback to curated results or
  to a category searches with its own filter in place of the caller's, and so does one to an
  alternative query that has filters (`fallbacks.py:93`, 119, 135), while one without keeps
  the caller's; every search of a fallback is logged although `log_query` is false; a pin of
  a page's only hit drops its score, and with it the page's list of scores (`pins.py:118`);
  `formatted_hits` keep the engine's order.
- **Analytics.** In a transaction PostgreSQL refuses the retry of `_log_aggregate` after
  the `IntegrityError`, and the search is not counted; nor is it when its log row is
  refused (`search.py:190`). A request that rolls back undoes the counts of its searches.
  Click queries are "Normalised (lowercased)" by their help text and by no code, so a
  click-through rate "between 0.0 and 1.0" (`click_tracking.py:82`) can miss clicks, or
  exceed 1 when a visitor clicks twice.
- **Intelligence.** The evidence factor that "more corroborating matches" should raise is
  always 1 (`intelligence.py:559`). Two runs may make two rules on one query.
- **Adapters.** `create_index` is called idempotent, and raises on an existing index on
  OpenSearch, Solr and Typesense, and empties it on the dummy. A deletion by a filter
  with a date range (dummy, PostgreSQL, Vespa) or in the engine's own language (dummy,
  OpenSearch) deletes every document; on PostgreSQL it may pass one by; Typesense's and
  Vespa's limits on a page make its pages of 1000 fail. Partial failures of OpenSearch,
  Typesense and Vespa are recorded as successes. `IndexNotFoundError` leaves rows pending,
  and so does every exception the adapters do not map: `KeyError` (`vespa.py:437`, 909), the
  `TypeError` of a body that is not JSON (`meilisearch.py:43`), `SerializationError`
  (`opensearch.py:200-215`).
- **Migrations.** They take users from `AUTH_USER_MODEL`; the models, and the README
  (`README.md:201`), from `ICV_AUTH_USER_MODEL` (`conf.py:30`).

## 6. Not modelled

- Debouncing off, `skip_index_update`, creation of an index on first save, the retried
  task of the immediate mode: one engine call or a flag of a thread. An index
  that `resolve_index` creates for two callers at once.
- Typesense's aliases, and the settings a reindex copies to the temporary index. In
  `Reindex` and `Debounce` engines apply a request when they answer it, or fail it;
  engines that apply later are in `Engines` only, those that drop documents of a request
  they answer in `Engines` and `BulkIndex`.
- `delete_index` of the services, sync log rows of settings, statistics; OpenSearch's
  closing and opening of an index around a change of settings. The filter on `is_active` of
  the periodic task (`tasks.py:71`): the index is an active one. Settings are changed and
  never removed: a push carries a value for every key, so that engines that merge what
  they get (Meilisearch's `PATCH`, `meilisearch.py:66`, OpenSearch, Typesense) and engines
  that replace it end alike; a key that an editor removes stays in the former.
- The rows of `SearchQueryLog`, the reports that read them and their clean-up; that one is
  refused is modelled, what one holds is not. A transaction around clicks, but that a click
  may count for yesterday.
- Pins at positions below -1, which no validator refuses and `list.insert` counts from
  the end.
- Which rules match a query (patterns, dates, priorities): any choice of rules is taken.
  Similarity, confidence, trends and rates of `intelligence.py`. `cluster_queries` reads
  the similar pairs in a second statement (`intelligence.py:368`): a pair that names a query
  outside the sample, whose rows came between the two reads, is not modelled.
- Tenants, except in `RuleCache`: the thread-local tenant of a request, set and reset
  around it, never meets another thread's.
- Discovery, suggestions, the query builder, pagination, views, configuration and its
  checks, commands that only call a service, test helpers: no state. Ranking,
  highlighting, facets and geo search of the backends: the engine's.
- Documents that change between a scan of a deletion by filter and its delete: they are
  deleted, as the service promises nothing of them.

## 7. Plan

1. `Debounce` with `Reindex`: a buffered operation flushed after the swap.
2. Two tenants in `ResultCache` and `Analytics`.
3. The retried task of the immediate mode, in `Debounce`.
