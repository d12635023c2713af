---------------------------- MODULE ResultCache ----------------------------
(* The cache of search results of one index and the document writes that     *)
(* invalidate it.  Documents are abstracted to a version: the engine answers *)
(* from version engine, a cached result is the version it was made from.     *)
(* Searches fill the cache and register what they filled in a set of keys,   *)
(* itself a cache entry; writes delete the keys they find there.  Every call *)
(* of the cache is a step, since nothing makes two of them atomic.           *)
EXTENDS Integers

CONSTANTS
    Queries,     \* the (query, parameters) pairs, one cache key each
    Searchers,   \* threads that search
    Writers,     \* threads and workers that write documents
    Timeout,     \* ICV_SEARCH_CACHE_TIMEOUT, in ticks
    Factor,      \* the key-set's timeout in multiples of Timeout (10 in the code)
    MaxWrites,   \* bound: writes that the engine applies
    None         \* no cache entry

ASSUME SettingsAssumption ==
    Timeout \in Nat \ {0} /\ Factor \in Nat \ {0} /\ MaxWrites \in Nat

ASSUME NoneAssumption == None \notin Nat /\ None \notin Queries

VARIABLES
    engine,                   \* the version the engine answers from
    entry, entryTTL,          \* per query: the cached version, its time to live
    known, knownTTL,          \* the key-set entry and its time to live
    spc, squery, sgot, sread, \* searchers: control, query, answer, keys read
    wpc, wread,               \* writers: control, keys read
    unkeyed,                  \* an entry has lost its key in the key-set
    missed                    \* a stale entry has escaped an invalidation

cacheVars == <<entry, entryTTL, known, knownTTL>>
searchVars == <<spc, squery, sgot, sread>>
writeVars == <<wpc, wread>>
vars == <<engine, cacheVars, searchVars, writeVars, unkeyed, missed>>

Versions == 0..MaxWrites

TypeOK ==
    /\ engine \in Versions
    /\ entry \in [Queries -> Versions \cup {None}]
    /\ entryTTL \in [Queries -> 0..Timeout]
    /\ known \in SUBSET Queries /\ knownTTL \in 0..(Factor * Timeout)
    /\ spc \in [Searchers -> {"idle", "ask", "fill", "keys", "register"}]
    /\ squery \in [Searchers -> Queries \cup {None}]
    /\ sgot \in [Searchers -> Versions] /\ sread \in [Searchers -> SUBSET Queries]
    /\ wpc \in [Writers -> {"idle", "invalidate", "delete", "drop"}]
    /\ wread \in [Writers -> SUBSET Queries]
    /\ unkeyed \in BOOLEAN /\ missed \in BOOLEAN

Init ==
    /\ engine = 0
    /\ entry = [q \in Queries |-> None] /\ entryTTL = [q \in Queries |-> 0]
    /\ known = {} /\ knownTTL = 0
    /\ spc = [s \in Searchers |-> "idle"] /\ squery = [s \in Searchers |-> None]
    /\ sgot = [s \in Searchers |-> 0] /\ sread = [s \in Searchers |-> {}]
    /\ wpc = [w \in Writers |-> "idle"] /\ wread = [w \in Writers |-> {}]
    /\ unkeyed = FALSE /\ missed = FALSE

Live == {q \in Queries : entry[q] # None}

Stale(q) == entry[q] # None /\ entry[q] # engine

\* A search without a user answers from the cache if it can; this is all a
\* cache hit does, and a search by a user always asks the engine.
Served(q) == IF entry[q] = None THEN engine ELSE entry[q]

\* The write w has yet to delete the entry of q.
WillDelete(w, q) == \/ wpc[w] = "invalidate"
                    \/ wpc[w] = "delete" /\ q \in wread[w]

SomeWillDelete(q) == \E w \in Writers : WillDelete(w, q)

Registering(q) == \E s \in Searchers : spc[s] \in {"keys", "register"} /\ squery[s] = q

-----------------------------------------------------------------------------
(* Searching.                                                                *)

\* cache.get found nothing (search, autocomplete).
Miss(s, q) ==
    /\ spc[s] = "idle" /\ entry[q] = None
    /\ spc' = [spc EXCEPT ![s] = "ask"] /\ squery' = [squery EXCEPT ![s] = q]
    /\ UNCHANGED <<engine, cacheVars, sgot, sread, writeVars, unkeyed, missed>>

\* The engine answers from what it holds now.
Ask(s) ==
    /\ spc[s] = "ask"
    /\ sgot' = [sgot EXCEPT ![s] = engine] /\ spc' = [spc EXCEPT ![s] = "fill"]
    /\ UNCHANGED <<engine, cacheVars, squery, sread, writeVars, unkeyed, missed>>

\* slip: the key of a filled entry is not registered
FillOnly(s) ==
    /\ spc[s] = "fill"
    /\ entry' = [entry EXCEPT ![squery[s]] = sgot[s]]
    /\ entryTTL' = [entryTTL EXCEPT ![squery[s]] = Timeout]
    /\ spc' = [spc EXCEPT ![s] = "idle"] /\ squery' = [squery EXCEPT ![s] = None]
    /\ sgot' = [sgot EXCEPT ![s] = 0]
    /\ missed' = (missed \/ (sgot[s] # engine /\ ~SomeWillDelete(squery[s])))
    /\ UNCHANGED <<engine, known, knownTTL, sread, writeVars, unkeyed>>

\* slip: the entry gets the timeout of the key-set
FillLong(s) ==
    LET q == squery[s] IN
    /\ spc[s] = "fill"
    /\ entry' = [entry EXCEPT ![q] = sgot[s]]
    /\ entryTTL' = [entryTTL EXCEPT ![q] = Factor * Timeout]
    /\ spc' = [spc EXCEPT ![s] = "keys"] /\ sgot' = [sgot EXCEPT ![s] = 0]
    /\ missed' = (missed \/ (sgot[s] # engine /\ ~SomeWillDelete(q)))
    /\ UNCHANGED <<engine, known, knownTTL, squery, sread, writeVars, unkeyed>>

\* ICVSearchCache.set: the entry first, whatever happened since the answer.
Fill(s) ==
    LET q == squery[s] IN
    /\ spc[s] = "fill"
    /\ entry' = [entry EXCEPT ![q] = sgot[s]]
    /\ entryTTL' = [entryTTL EXCEPT ![q] = Timeout]
    /\ spc' = [spc EXCEPT ![s] = "keys"] /\ sgot' = [sgot EXCEPT ![s] = 0]
    /\ missed' = (missed \/ (sgot[s] # engine /\ ~SomeWillDelete(q)))
    /\ UNCHANGED <<engine, known, knownTTL, squery, sread, writeVars, unkeyed>>

Searched(s) ==
    /\ spc' = [spc EXCEPT ![s] = "idle"] /\ squery' = [squery EXCEPT ![s] = None]
    /\ sread' = [sread EXCEPT ![s] = {}]

\* _register_key: nothing to do for a key that is known; its timeout stays.
AlreadyKnown(s) ==
    /\ spc[s] = "keys" /\ squery[s] \in known
    /\ Searched(s)
    /\ UNCHANGED <<engine, cacheVars, sgot, writeVars, unkeyed, missed>>

ReadKeys(s) ==
    /\ spc[s] = "keys" /\ squery[s] \notin known
    /\ sread' = [sread EXCEPT ![s] = known] /\ spc' = [spc EXCEPT ![s] = "register"]
    /\ UNCHANGED <<engine, cacheVars, squery, sgot, writeVars, unkeyed, missed>>

\* ... and the set read plus this key is written back over what is there.
Register(s) ==
    LET new == sread[s] \cup {squery[s]} IN
    /\ spc[s] = "register"
    /\ known' = new /\ knownTTL' = Factor * Timeout
    /\ Searched(s)
    /\ unkeyed' = (unkeyed \/ Live \cap (known \ new) # {})
    /\ UNCHANGED <<engine, entry, entryTTL, sgot, writeVars, missed>>

-----------------------------------------------------------------------------
(* Writing.                                                                  *)

\* The engine takes documents.
Applied == engine < MaxWrites /\ engine' = engine + 1

\* index_documents, remove_documents, delete_documents_by_filter: the log row
\* is completed and the signal sent, whose receiver invalidates.
Indexed(w) ==
    /\ wpc[w] = "idle"
    /\ Applied
    /\ wpc' = [wpc EXCEPT ![w] = "invalidate"]
    /\ UNCHANGED <<cacheVars, searchVars, wread, unkeyed, missed>>

\* No signal is sent: by update_documents, by a request that failed although
\* the engine applied it, by the swap of a reindex, by bulk_index.
Silent ==
    /\ Applied
    /\ missed' = (missed \/ Live # {})
    /\ UNCHANGED <<cacheVars, searchVars, writeVars, unkeyed>>

Written(w) ==
    /\ wpc' = [wpc EXCEPT ![w] = "idle"] /\ wread' = [wread EXCEPT ![w] = {}]

\* The process is killed, or the cache fails, with entries left to delete.
Crash(w) ==
    /\ wpc[w] # "idle"
    /\ missed' = (missed \/ \E q \in Queries : Stale(q) /\ WillDelete(w, q))
    /\ Written(w)
    /\ UNCHANGED <<engine, cacheVars, searchVars, unkeyed>>

\* slip: the key-set is deleted, what it names is not
ReadAndDrop(w) ==
    /\ wpc[w] = "invalidate"
    /\ wpc' = [wpc EXCEPT ![w] = "drop"]
    /\ missed' = (missed \/ \E q \in Queries \ known : Stale(q) /\ Registering(q))
    /\ UNCHANGED <<engine, cacheVars, searchVars, wread, unkeyed>>

\* ICVSearchCache.invalidate: read the keys, delete what they name, delete
\* the key-set.  An entry whose search has not registered it yet is missed.
ReadKnown(w) ==
    /\ wpc[w] = "invalidate"
    /\ wread' = [wread EXCEPT ![w] = known]
    /\ wpc' = [wpc EXCEPT ![w] = IF known = {} THEN "drop" ELSE "delete"]
    /\ missed' = (missed \/ \E q \in Queries \ known : Stale(q) /\ Registering(q))
    /\ UNCHANGED <<engine, cacheVars, searchVars, unkeyed>>

DeleteMany(w) ==
    /\ wpc[w] = "delete"
    /\ entry' = [q \in Queries |-> IF q \in wread[w] THEN None ELSE entry[q]]
    /\ entryTTL' = [q \in Queries |-> IF q \in wread[w] THEN 0 ELSE entryTTL[q]]
    /\ wpc' = [wpc EXCEPT ![w] = "drop"] /\ wread' = [wread EXCEPT ![w] = {}]
    /\ UNCHANGED <<engine, known, knownTTL, searchVars, unkeyed, missed>>

DropKnown(w) ==
    /\ wpc[w] = "drop"
    /\ known' = {} /\ knownTTL' = 0
    /\ Written(w)
    /\ unkeyed' = (unkeyed \/ Live \cap known # {})
    /\ UNCHANGED <<engine, entry, entryTTL, searchVars, missed>>

-----------------------------------------------------------------------------
(* Time.                                                                     *)

\* slip: a timeout of None, which never runs out
Forever(n) == n

Down(n) == IF n = 0 THEN 0 ELSE n - 1

\* The key-set can expire before an entry it names, since only a new key
\* renews its timeout.
Tick ==
    /\ knownTTL > 0 \/ \E q \in Queries : entryTTL[q] > 0
    /\ entryTTL' = [q \in Queries |-> Down(entryTTL[q])]
    /\ entry' = [q \in Queries |-> IF entryTTL'[q] = 0 THEN None ELSE entry[q]]
    /\ knownTTL' = Down(knownTTL)
    /\ known' = IF knownTTL' = 0 THEN {} ELSE known
    /\ unkeyed' = (unkeyed \/ (knownTTL = 1 /\ \E q \in known : entryTTL[q] > 1))
    /\ UNCHANGED <<engine, searchVars, writeVars, missed>>

SearchStep(s) == Ask(s) \/ Fill(s) \/ AlreadyKnown(s) \/ ReadKeys(s) \/ Register(s)

Invalidate(w) == ReadKnown(w) \/ DeleteMany(w) \/ DropKnown(w)

Next ==
    \/ \E s \in Searchers : SearchStep(s) \/ \E q \in Queries : Miss(s, q)
    \/ \E w \in Writers : Indexed(w) \/ Invalidate(w) \/ Crash(w)
    \/ Silent
    \/ Tick

Spec == Init /\ [][Next]_vars

\* Threads that search or invalidate go on, and time passes.
Fairness ==
    /\ \A s \in Searchers : WF_vars(SearchStep(s))
    /\ \A w \in Writers : WF_vars(Invalidate(w))
    /\ WF_vars(Tick)

FairSpec == Spec /\ Fairness

-----------------------------------------------------------------------------
(* Properties.                                                               *)

\* The invalidation after a write (handlers.py, cache.py) removes every
\* answer from before it: a stale entry is about to be deleted, unless a
\* recorded event let it escape: it was filled after the invalidation or not
\* registered before it, its key was lost (unkeyed), the write sent no
\* signal, or its process was killed.
Fresh ==
    ~missed /\ ~unkeyed => \A q \in Queries : Stale(q) => SomeWillDelete(q)

\* The key-set names every entry, so an invalidation can find it: an entry
\* that lives is in the set or being registered, until a register overwrote
\* another's key, an invalidation dropped a key it had not read, or the set
\* expired under an entry that was filled again (_register_key, invalidate).
KeysKnown == ~unkeyed => \A q \in Live : q \in known \/ Registering(q)

\* The timeout is the last resort: whatever was missed, no stale answer is
\* served for ever.
StaleExpires == \A q \in Queries : Stale(q) ~> Served(q) = engine
=============================================================================
