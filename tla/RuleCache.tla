----------------------------- MODULE RuleCache -----------------------------
(* The cache of merchandising rules of one rule type and one index.  An      *)
(* entry, kept per tenant, is the list of active rules of that tenant and    *)
(* of the empty (global) tenant.  Saving or deleting a rule deletes the      *)
(* entry of the rule's tenant and that of the global tenant, from a signal   *)
(* that runs inside the editor's transaction; loaders fill entries meanwhile.*)
EXTENDS Integers

CONSTANTS
    Rules,       \* rules of one type and index
    Tenants,     \* the tenants with a name
    Global,      \* the empty tenant_id: the rule applies to every tenant
    Loaders,     \* threads that search
    Editors,     \* requests that save, delete, enable or disable rules
    Timeout,     \* ICV_SEARCH_MERCHANDISING_CACHE_TIMEOUT, in ticks
    MaxEdits,    \* bound: versions the rules go through
    Nil          \* no cache entry, no rule

ASSUME RuleAssumption ==
    /\ Global \notin Tenants /\ Nil \notin Tenants \cup {Global}
    /\ Timeout \in Nat \ {0} /\ MaxEdits \in Nat

Keys == Tenants \cup {Global}

Row == [tenant : Keys, version : 0..MaxEdits, active : BOOLEAN]

Listing == SUBSET (Rules \X (0..MaxEdits))

VARIABLES
    rule,                  \* the committed row of each rule, or Nil
    edits,                 \* versions given out
    cache, ttl,            \* per tenant: the cached listing, its time to live
    lpc, lkey, lgot,       \* loaders: control, tenant, listing read
    epc, edited, pending,  \* editors: control, rule, its row at the commit
    wipe,                  \* editors: the entry deleted next, or Nil
    astray                 \* per tenant: an entry the signal does not cover

loaderVars == <<lpc, lkey, lgot>>
editorVars == <<epc, edited, pending, wipe>>
ruleVars == <<rule, edits, cache, ttl, loaderVars, editorVars, astray>>

RuleTypeOK ==
    /\ rule \in [Rules -> Row \cup {Nil}] /\ edits \in 0..MaxEdits
    /\ cache \in [Keys -> Listing \cup {Nil}] /\ ttl \in [Keys -> 0..Timeout]
    /\ lpc \in [Loaders -> {"idle", "query", "store"}]
    /\ lkey \in [Loaders -> Keys \cup {Nil}] /\ lgot \in [Loaders -> Listing]
    /\ epc \in [Editors -> {"idle", "autocommit", "atomic", "commit"}]
    /\ edited \in [Editors -> Rules \cup {Nil}]
    /\ pending \in [Editors -> Row \cup {Nil}]
    /\ wipe \in [Editors -> Keys \cup {Nil}]
    /\ astray \in [Keys -> BOOLEAN]

RuleInit ==
    /\ rule = [r \in Rules |-> Nil] /\ edits = 0
    /\ cache = [k \in Keys |-> Nil] /\ ttl = [k \in Keys |-> 0]
    /\ lpc = [l \in Loaders |-> "idle"] /\ lkey = [l \in Loaders |-> Nil]
    /\ lgot = [l \in Loaders |-> {}]
    /\ epc = [e \in Editors |-> "idle"] /\ edited = [e \in Editors |-> Nil]
    /\ pending = [e \in Editors |-> Nil] /\ wipe = [e \in Editors |-> Nil]
    /\ astray = [k \in Keys |-> FALSE]

\* The active rules of k and the global ones, as the query finds them in rows.
Listed(rows, k) ==
    LET found == {r \in Rules : rows[r] # Nil /\ rows[r].active
                                /\ rows[r].tenant \in {k, Global}}
    IN  {<<r, rows[r].version>> : r \in found}

Stale(k) == cache[k] # Nil /\ cache[k] # Listed(rule, k)

\* A search by k applies the cached listing, or loads one.
Applied(k) == IF cache[k] = Nil THEN Listed(rule, k) ELSE cache[k]

Deletes(e, k) ==
    \/ epc[e] \in {"autocommit", "atomic"} /\ wipe[e] = k
    \/ epc[e] \in {"autocommit", "atomic"} /\ wipe[e] # Nil /\ k = Global

\* Some editor whose row is committed has still to delete the entry of k.
WillDelete(k) == \E e \in Editors : epc[e] = "autocommit" /\ Deletes(e, k)

-----------------------------------------------------------------------------
(* Loading.                                                                  *)

\* load_rules found no entry; when it finds one it returns it as it is.
Miss(l, k) ==
    /\ lpc[l] = "idle" /\ cache[k] = Nil
    /\ lpc' = [lpc EXCEPT ![l] = "query"] /\ lkey' = [lkey EXCEPT ![l] = k]
    /\ UNCHANGED <<rule, edits, cache, ttl, lgot, editorVars, astray>>

\* list(qs) sees the committed rows.
Query(l) ==
    /\ lpc[l] = "query"
    /\ lgot' = [lgot EXCEPT ![l] = Listed(rule, lkey[l])]
    /\ lpc' = [lpc EXCEPT ![l] = "store"]
    /\ UNCHANGED <<rule, edits, cache, ttl, lkey, editorVars, astray>>

Loaded(l) ==
    /\ lpc' = [lpc EXCEPT ![l] = "idle"] /\ lkey' = [lkey EXCEPT ![l] = Nil]
    /\ lgot' = [lgot EXCEPT ![l] = {}]

\* cache.set, however old the listing is by now.
Store(l) ==
    LET k == lkey[l] IN
    /\ lpc[l] = "store"
    /\ cache' = [cache EXCEPT ![k] = lgot[l]] /\ ttl' = [ttl EXCEPT ![k] = Timeout]
    /\ astray' = [astray EXCEPT ![k] = lgot[l] # Listed(rule, k) /\ ~WillDelete(k)]
    /\ Loaded(l)
    /\ UNCHANGED <<rule, edits, editorVars>>

-----------------------------------------------------------------------------
(* Editing.                                                                  *)

\* A row lock: the transactions that change one rule come one after another.
Unlocked(r) == \A e \in Editors : edited[e] = r => epc[e] \in {"idle", "autocommit"}

\* The tenant the signal names: the saved rule's, the deleted rule's.
Signalled(r, new) == IF new = Nil THEN rule[r].tenant ELSE new.tenant

\* The entries that change when rows become new, apart from those of covered.
Escapes(new, covered) ==
    [k \in Keys |-> \/ astray[k]
                    \/ /\ cache[k] # Nil /\ k \notin covered
                       /\ Listed(new, k) # Listed(rule, k)]

\* The new rows of r: saved, perhaps for another tenant, or deleted.
Changes(r) ==
    {[tenant |-> k, version |-> edits + 1, active |-> TRUE] : k \in Keys}
    \cup (IF rule[r] = Nil THEN {} ELSE {Nil})

\* Outside a transaction the row is committed, then the signal is sent.
SaveAutocommit(e, r) ==
    \E new \in Changes(r) :
        LET rows == [rule EXCEPT ![r] = new] IN
        /\ epc[e] = "idle" /\ edits < MaxEdits /\ Unlocked(r)
        /\ edits' = edits + 1 /\ rule' = rows
        /\ epc' = [epc EXCEPT ![e] = "autocommit"]
        /\ wipe' = [wipe EXCEPT ![e] = Signalled(r, new)]
        /\ astray' = Escapes(rows, {Signalled(r, new), Global})
        /\ UNCHANGED <<cache, ttl, loaderVars, edited, pending>>

\* In a transaction, as in every change form of the admin, the signal is sent
\* before anyone else sees the row.
SaveAtomic(e, r) ==
    \E new \in Changes(r) :
        /\ epc[e] = "idle" /\ edits < MaxEdits /\ Unlocked(r)
        /\ edits' = edits + 1
        /\ epc' = [epc EXCEPT ![e] = "atomic"]
        /\ edited' = [edited EXCEPT ![e] = r] /\ pending' = [pending EXCEPT ![e] = new]
        /\ wipe' = [wipe EXCEPT ![e] = Signalled(r, new)]
        /\ UNCHANGED <<rule, cache, ttl, loaderVars, astray>>

\* slip: only the entry of the empty tenant is deleted
DeletedGlobally(e) ==
    /\ epc[e] \in {"autocommit", "atomic"}
    /\ cache' = [cache EXCEPT ![Global] = Nil] /\ ttl' = [ttl EXCEPT ![Global] = 0]
    /\ astray' = [astray EXCEPT ![Global] = FALSE]
    /\ wipe' = [wipe EXCEPT ![e] = Nil]
    /\ epc' = [epc EXCEPT ![e] = IF epc[e] = "atomic" THEN "commit" ELSE "idle"]
    /\ UNCHANGED <<rule, edits, loaderVars, edited, pending>>

\* invalidate_rules, one cache.delete: the rule's tenant, then the global one.
\* The entries of the tenants a global rule also applies to are not deleted.
Invalidate(e) ==
    LET k == wipe[e]
        last == k = Global
    IN  /\ epc[e] \in {"autocommit", "atomic"}
        /\ cache' = [cache EXCEPT ![k] = Nil] /\ ttl' = [ttl EXCEPT ![k] = 0]
        /\ astray' = [astray EXCEPT ![k] = FALSE]
        /\ wipe' = [wipe EXCEPT ![e] = IF last THEN Nil ELSE Global]
        /\ epc' = [epc EXCEPT ![e] = IF ~last THEN @
                                     ELSE IF @ = "atomic" THEN "commit" ELSE "idle"]
        /\ UNCHANGED <<rule, edits, loaderVars, edited, pending>>

Left(e) ==
    /\ epc' = [epc EXCEPT ![e] = "idle"] /\ wipe' = [wipe EXCEPT ![e] = Nil]
    /\ edited' = [edited EXCEPT ![e] = Nil] /\ pending' = [pending EXCEPT ![e] = Nil]

\* The row becomes visible; whatever was cached since the signal stays.
Commit(e) ==
    LET rows == [rule EXCEPT ![edited[e]] = pending[e]] IN
    /\ epc[e] = "commit"
    /\ rule' = rows /\ astray' = Escapes(rows, {})
    /\ Left(e)
    /\ UNCHANGED <<edits, cache, ttl, loaderVars>>

\* The transaction is rolled back, or the process dies before the signal has
\* deleted both entries.
Abandon(e) ==
    /\ epc[e] # "idle"
    /\ astray' = [k \in Keys |-> astray[k] \/ (Stale(k) /\ epc[e] = "autocommit"
                                               /\ Deletes(e, k))]
    /\ Left(e)
    /\ UNCHANGED <<rule, edits, cache, ttl, loaderVars>>

\* enable_rules, disable_rules: queryset.update sends no signal.
SetActive(rs, on) ==
    LET rows == [r \in Rules |-> IF r \in rs THEN [rule[r] EXCEPT !.active = on]
                                 ELSE rule[r]]
    IN  /\ rs # {} /\ \A r \in rs : rule[r] # Nil /\ Unlocked(r)
        /\ rule' = rows /\ rule' # rule /\ astray' = Escapes(rows, {})
        /\ UNCHANGED <<edits, cache, ttl, loaderVars, editorVars>>

-----------------------------------------------------------------------------

\* slip: entries without a timeout
Endless(n) == n

Down(n) == IF n = 0 THEN 0 ELSE n - 1

\* Time passes: reading an entry does not renew its timeout.
Tick ==
    /\ \E k \in Keys : ttl[k] > 0
    /\ ttl' = [k \in Keys |-> Down(ttl[k])]
    /\ cache' = [k \in Keys |-> IF ttl'[k] = 0 THEN Nil ELSE cache[k]]
    /\ astray' = [k \in Keys |-> ttl'[k] # 0 /\ astray[k]]
    /\ UNCHANGED <<rule, edits, loaderVars, editorVars>>

Load(l) == Query(l) \/ Store(l)

RuleNext ==
    \/ \E l \in Loaders : Load(l) \/ \E k \in Keys : Miss(l, k)
    \/ \E e \in Editors, r \in Rules : SaveAutocommit(e, r) \/ SaveAtomic(e, r)
    \/ \E e \in Editors : Invalidate(e) \/ Commit(e) \/ Abandon(e)
    \/ \E rs \in SUBSET Rules, on \in BOOLEAN : SetActive(rs, on)
    \/ Tick

RuleSpec == RuleInit /\ [][RuleNext]_ruleVars

\* Loads and edits that began go on, and time passes.
Fairness ==
    /\ \A l \in Loaders : WF_ruleVars(Load(l))
    /\ \A e \in Editors : WF_ruleVars(Invalidate(e) \/ Commit(e))
    /\ WF_ruleVars(Tick)

FairSpec == RuleSpec /\ Fairness

-----------------------------------------------------------------------------
(* Properties.                                                               *)

\* An edit outside a transaction is seen: a cached listing that differs from
\* the rows is about to be deleted by the signal of the edit, unless one of
\* the events the signal does not cover befell this entry since it was made:
\* another tenant's or the global listing changed with it, the rule moved to
\* another tenant, a transaction committed after its signal, a bulk action of
\* the admin, a listing stored after the signal, or a process that died.
RulesSeen == \A k \in Keys : Stale(k) => WillDelete(k) \/ astray[k]

\* Whatever escaped the signal, a stale listing is not applied for ever, once
\* rules are edited no more (the timeout of cache.set).
RulesExpire == \A k \in Keys : Stale(k) ~> Applied(k) = Listed(rule, k)
=============================================================================
