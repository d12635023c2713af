------------------------------ MODULE Debounce ------------------------------
(***************************************************************************)
(* The debounce buffers of automatic indexing (auto_index.py, tasks.py).   *)
(*                                                                         *)
(* After a transaction commits, the post-commit hook of a web process      *)
(* appends the saved document (or the deleted document's id) to a per-     *)
(* index buffer kept in the Django cache, and schedules a Celery task      *)
(* that drains it.  Saves and removals have separate buffers, guard keys   *)
(* and tasks.  Cache calls are atomic one by one; the read-modify-write    *)
(* sequences built from them are not, so every cache call is a step.       *)
(*                                                                         *)
(* The model is of one index (the keys of two indexes never meet) whose    *)
(* SearchIndex row exists throughout.  Time is counted in seconds and kept *)
(* as remaining times: of the cache entries, and of the countdowns.        *)
(***************************************************************************)
EXTENDS Naturals, Sequences, FiniteSets

CONSTANTS Docs,       \* documents, named by primary key
          Writers,    \* web processes that run post-commit hooks
          Flushers,   \* Celery worker processes
          Window,     \* ICV_SEARCH_DEBOUNCE_SECONDS
          MaxBuffer,  \* ICV_SEARCH_DEBOUNCE_MAX_BUFFER_SIZE, 0 disables it
          ChunkSize,  \* ICV_SEARCH_DEBOUNCE_FLUSH_CHUNK_SIZE, 0 disables it
          MaxCommits, \* bound: commits in a behaviour
          MaxFaults,  \* bound: broker, engine and worker failures
          NoOp        \* the operation of a hook that is not running

\* ASSUME the settings are numbers and the window is on (auto_index.py:376).
ASSUME SettingsAssumption ==
    /\ Window \in Nat \ {0}
    /\ MaxBuffer \in Nat
    /\ ChunkSize \in Nat
    /\ MaxCommits \in Nat
    /\ MaxFaults \in Nat

VARIABLES
    db,       \* db[d]: the last committed operation on d
    commits,  \* commits so far; numbers the operations
    engine,   \* engine[d]: the last operation on d the search engine applied
    buffer,   \* buffer[s]: the cached list of side s, empty when absent
    bufTTL,   \* bufTTL[s]: seconds until the list expires
    keyTTL,   \* keyTTL[s]: seconds until the task key expires, 0 when absent
    pending,  \* pending[s][k]: flush tasks of side s due in k seconds
    wpc, wop, wcopy,      \* a hook: control, its operation, its copy of the list
    fpc, fside, fread, ftodo, \* a flush: control, side, list read, still to send
    faults,   \* failures so far
    cause     \* history: the first event that can make the engine diverge

writerVars == <<wpc, wop, wcopy>>
flusherVars == <<fpc, fside, fread, ftodo>>
cacheVars == <<buffer, bufTTL, keyTTL>>
vars == <<db, commits, engine, cacheVars, pending, writerVars, flusherVars,
          faults, cause>>

Sides == {"save", "remove"}
Ver == 0..MaxCommits
Op == [doc : Docs, side : Sides, ver : Ver]
State == [side : Sides, ver : Ver]
Absent == [side |-> "remove", ver |-> 0]
NoTimeout == 0 \* slip: cache.set without a timeout
BufferTTL == 3 * Window
Delays == 0..Window
Causes == {"none", "overlap", "reorder", "expiry", "fallback", "flush_error"}

Content(op) == [side |-> op.side, ver |-> op.ver]

\* The first cause is kept.
Record(c) == cause' = IF cause = "none" THEN c ELSE cause
RecordIf(P, c) == IF P THEN Record(c) ELSE UNCHANGED cause

\* max_buffer_size > 0 and len(buffer) >= max_buffer_size
Full(items) == MaxBuffer > 0 /\ Len(items) >= MaxBuffer
Countdown(items) == IF Full(items) THEN 0 ELSE Window
LongKey(items) == BufferTTL \* slip: the guard gets the buffer's timeout
ShortKey(items) == 1         \* slip: the guard ignores the countdown
KeyTimeout(items) == IF Countdown(items) > 1 THEN Countdown(items) ELSE 1

\* slip: the first operation is kept
FirstPerDoc(items) ==
    {items[i] : i \in {n \in DOMAIN items :
        \A j \in DOMAIN items : items[j].doc = items[n].doc => j >= n}}

\* Deduplication: of the operations on one document the last one is kept.
\* The operations kept concern different documents, so they form a set.
LastPerDoc(items) ==
    {items[i] : i \in {n \in DOMAIN items :
        \A j \in DOMAIN items : items[j].doc = items[n].doc => j <= n}}

\* The requests a flush may send next (tasks._chunked).
Chunks(todo) ==
    IF ChunkSize = 0 \/ Cardinality(todo) <= ChunkSize
      THEN {todo}
      ELSE {c \in SUBSET todo : Cardinality(c) = ChunkSize}

\* index_documents / remove_documents: the engine applies a request.
Apply(ops) ==
    engine' = [d \in Docs |-> IF \E op \in ops : op.doc = d
                                THEN Content(CHOOSE op \in ops : op.doc = d)
                                ELSE engine[d]]
Stale(ops) == \E op \in ops : op.ver < engine[op.doc].ver

Init ==
    /\ db = [d \in Docs |-> Absent]
    /\ commits = 0
    /\ engine = [d \in Docs |-> Absent]
    /\ buffer = [s \in Sides |-> <<>>]
    /\ bufTTL = [s \in Sides |-> 0]
    /\ keyTTL = [s \in Sides |-> 0]
    /\ pending = [s \in Sides |-> [k \in Delays |-> 0]]
    /\ wpc = [w \in Writers |-> "idle"]
    /\ wop = [w \in Writers |-> NoOp]
    /\ wcopy = [w \in Writers |-> <<>>]
    /\ fpc = [f \in Flushers |-> "idle"]
    /\ fside = [f \in Flushers |-> "save"]
    /\ fread = [f \in Flushers |-> <<>>]
    /\ ftodo = [f \in Flushers |-> {}]
    /\ faults = 0
    /\ cause = "none"

-----------------------------------------------------------------------------
(* The post-commit hook of a web process (auto_index.py).                  *)

\* A transaction that saved (removed) d commits; its on_commit hook starts.
Commit(w, d, s) ==
    /\ wpc[w] = "idle"
    /\ commits < MaxCommits
    /\ s = "remove" => db[d].side = "save"
    /\ commits' = commits + 1
    /\ db' = [db EXCEPT ![d] = [side |-> s, ver |-> commits + 1]]
    /\ wop' = [wop EXCEPT ![w] = [doc |-> d, side |-> s, ver |-> commits + 1]]
    /\ wpc' = [wpc EXCEPT ![w] = "get"]
    /\ UNCHANGED <<engine, cacheVars, pending, wcopy, flusherVars, faults, cause>>

\* buffer = cache.get(cache_key, [])
BufferGet(w) ==
    /\ wpc[w] = "get"
    /\ wcopy' = [wcopy EXCEPT ![w] = buffer[wop[w].side]]
    /\ wpc' = [wpc EXCEPT ![w] = "set"]
    /\ UNCHANGED <<db, commits, engine, cacheVars, pending, wop, flusherVars,
                   faults, cause>>

\* buffer.append(item); cache.set(cache_key, buffer, timeout=3 * window).
\* The list written is the one read plus the item, whatever the cache holds now.
BufferSet(w) ==
    LET s == wop[w].side
        items == Append(wcopy[w], wop[w])
    IN /\ wpc[w] = "set"
       /\ buffer' = [buffer EXCEPT ![s] = items]
       /\ bufTTL' = [bufTTL EXCEPT ![s] = BufferTTL]
       /\ wcopy' = [wcopy EXCEPT ![w] = items]
       /\ wpc' = [wpc EXCEPT ![w] = "key"]
       /\ IF buffer[s] # wcopy[w] THEN Record("overlap")
          ELSE RecordIf(\E i \in DOMAIN wcopy[w] :
                            /\ wcopy[w][i].doc = wop[w].doc
                            /\ ~(wcopy[w][i].ver < wop[w].ver), "reorder")
       /\ UNCHANGED <<db, commits, engine, keyTTL, pending, wop, flusherVars, faults>>

\* if already_scheduled and not flush_immediately: return
AlreadyScheduled(w) ==
    /\ wpc[w] = "key"
    /\ keyTTL[wop[w].side] > 0
    /\ ~Full(wcopy[w])
    /\ wpc' = [wpc EXCEPT ![w] = "idle"]
    /\ wop' = [wop EXCEPT ![w] = NoOp]
    /\ wcopy' = [wcopy EXCEPT ![w] = <<>>]
    /\ UNCHANGED <<db, commits, engine, cacheVars, pending, flusherVars, faults, cause>>

MustSchedule(w) ==
    /\ wpc[w] = "key"
    /\ keyTTL[wop[w].side] = 0 \/ Full(wcopy[w])
    /\ wpc' = [wpc EXCEPT ![w] = "schedule"]
    /\ UNCHANGED <<db, commits, engine, cacheVars, pending, wop, wcopy,
                   flusherVars, faults, cause>>

\* flush_task.apply_async(countdown=0 or window)
Schedule(w) ==
    /\ wpc[w] = "schedule"
    /\ pending' = [pending EXCEPT ![wop[w].side][Countdown(wcopy[w])] = @ + 1]
    /\ wpc' = [wpc EXCEPT ![w] = "setkey"]
    /\ UNCHANGED <<db, commits, engine, cacheVars, wop, wcopy, flusherVars,
                   faults, cause>>

\* cache.set(task_key, True, timeout=max(countdown, 1))
SetKey(w) ==
    /\ wpc[w] = "setkey"
    /\ keyTTL' = [keyTTL EXCEPT ![wop[w].side] = KeyTimeout(wcopy[w])]
    /\ wpc' = [wpc EXCEPT ![w] = "idle"]
    /\ wop' = [wop EXCEPT ![w] = NoOp]
    /\ wcopy' = [wcopy EXCEPT ![w] = <<>>]
    /\ UNCHANGED <<db, commits, engine, buffer, bufTTL, pending, flusherVars,
                   faults, cause>>

\* apply_async raises: no broker.
ScheduleFails(w) ==
    /\ wpc[w] = "schedule"
    /\ faults < MaxFaults
    /\ faults' = faults + 1
    /\ wpc' = [wpc EXCEPT ![w] = "drop"]
    /\ UNCHANGED <<db, commits, engine, cacheVars, pending, wop, wcopy,
                   flusherVars, cause>>

\* cache.delete(cache_key): every buffered item goes, not only this hook's.
DropBuffer(w) ==
    LET s == wop[w].side
    IN /\ wpc[w] = "drop"
       /\ buffer' = [buffer EXCEPT ![s] = <<>>]
       /\ bufTTL' = [bufTTL EXCEPT ![s] = 0]
       /\ wpc' = [wpc EXCEPT ![w] = "fallback"]
       /\ RecordIf(\E i \in DOMAIN buffer[s] : buffer[s][i] # wop[w], "fallback")
       /\ UNCHANGED <<db, commits, engine, keyTTL, pending, wop, wcopy,
                      flusherVars, faults>>

\* synchronous_fallback(): the engine applies the item in the web process.
Fallback(w) ==
    /\ wpc[w] = "fallback"
    /\ Apply({wop[w]})
    /\ RecordIf(Stale({wop[w]}), "reorder")
    /\ wpc' = [wpc EXCEPT ![w] = "idle"]
    /\ wop' = [wop EXCEPT ![w] = NoOp]
    /\ wcopy' = [wcopy EXCEPT ![w] = <<>>]
    /\ UNCHANGED <<db, commits, cacheVars, pending, flusherVars, faults>>

\* The fallback fails too: the exception is logged and the item is gone.
FallbackFails(w) ==
    /\ wpc[w] = "fallback"
    /\ faults < MaxFaults
    /\ faults' = faults + 1
    /\ Record("fallback")
    /\ wpc' = [wpc EXCEPT ![w] = "idle"]
    /\ wop' = [wop EXCEPT ![w] = NoOp]
    /\ wcopy' = [wcopy EXCEPT ![w] = <<>>]
    /\ UNCHANGED <<db, commits, engine, cacheVars, pending, flusherVars>>

-----------------------------------------------------------------------------
(* The flush tasks (tasks.py), run by any idle worker once they are due.   *)

FlushStart(f, s) ==
    /\ fpc[f] = "idle"
    /\ pending[s][0] > 0
    /\ pending' = [pending EXCEPT ![s][0] = @ - 1]
    /\ fside' = [fside EXCEPT ![f] = s]
    /\ fpc' = [fpc EXCEPT ![f] = "read"]
    /\ UNCHANGED <<db, commits, engine, cacheVars, writerVars, fread, ftodo,
                   faults, cause>>

\* documents = cache.get(cache_key, []); nothing to do when empty
FlushReadEmpty(f) ==
    /\ fpc[f] = "read"
    /\ buffer[fside[f]] = <<>>
    /\ fpc' = [fpc EXCEPT ![f] = "idle"]
    /\ UNCHANGED <<db, commits, engine, cacheVars, pending, writerVars, fside,
                   fread, ftodo, faults, cause>>

FlushRead(f) ==
    /\ fpc[f] = "read"
    /\ buffer[fside[f]] # <<>>
    /\ fread' = [fread EXCEPT ![f] = buffer[fside[f]]]
    /\ fpc' = [fpc EXCEPT ![f] = "clear"]
    /\ UNCHANGED <<db, commits, engine, cacheVars, pending, writerVars, fside,
                   ftodo, faults, cause>>

\* cache.delete(cache_key), then deduplicate what was read
FlushClear(f) ==
    LET s == fside[f]
    IN /\ fpc[f] = "clear"
       /\ buffer' = [buffer EXCEPT ![s] = <<>>]
       /\ bufTTL' = [bufTTL EXCEPT ![s] = 0]
       /\ ftodo' = [ftodo EXCEPT ![f] = LastPerDoc(fread[f])]
       /\ fread' = [fread EXCEPT ![f] = <<>>]
       /\ fpc' = [fpc EXCEPT ![f] = "send"]
       /\ RecordIf(buffer[s] # fread[f], "overlap")
       /\ UNCHANGED <<db, commits, engine, keyTTL, pending, writerVars, fside, faults>>

\* slip: the task returns after its first request
FlushSendOnce(f) ==
    /\ fpc[f] = "send"
    /\ \E chunk \in Chunks(ftodo[f]) :
          /\ Apply(chunk)
          /\ RecordIf(Stale(chunk), "reorder")
    /\ ftodo' = [ftodo EXCEPT ![f] = {}]
    /\ fpc' = [fpc EXCEPT ![f] = "idle"]
    /\ UNCHANGED <<db, commits, cacheVars, pending, writerVars, fside, fread, faults>>

\* One request to the engine; the task ends with the last one.
FlushSend(f) ==
    /\ fpc[f] = "send"
    /\ \E chunk \in Chunks(ftodo[f]) :
          /\ Apply(chunk)
          /\ RecordIf(Stale(chunk), "reorder")
          /\ ftodo' = [ftodo EXCEPT ![f] = @ \ chunk]
          /\ fpc' = [fpc EXCEPT ![f] = IF ftodo[f] = chunk THEN "idle" ELSE "send"]
    /\ UNCHANGED <<db, commits, cacheVars, pending, writerVars, fside, fread, faults>>

\* The engine raises, or the worker dies: the task is not retried.
FlushFails(f) ==
    /\ fpc[f] # "idle"
    /\ faults < MaxFaults
    /\ faults' = faults + 1
    /\ RecordIf(fpc[f] = "send", "flush_error")
    /\ fpc' = [fpc EXCEPT ![f] = "idle"]
    /\ fread' = [fread EXCEPT ![f] = <<>>]
    /\ ftodo' = [ftodo EXCEPT ![f] = {}]
    /\ UNCHANGED <<db, commits, engine, cacheVars, pending, writerVars, fside>>

-----------------------------------------------------------------------------
(* Time.                                                                   *)

Less(n) == IF n > 0 THEN n - 1 ELSE 0
Expiring(s) == bufTTL[s] = 1
TimersRun ==
    \E s \in Sides : \/ bufTTL[s] > 0
                     \/ keyTTL[s] > 0
                     \/ \E k \in Delays : k > 0 /\ pending[s][k] > 0

\* A second passes.  A task that is due waits for a free worker.
Tick ==
    /\ TimersRun
    /\ bufTTL' = [s \in Sides |-> Less(bufTTL[s])]
    /\ buffer' = [s \in Sides |-> IF Expiring(s) THEN <<>> ELSE buffer[s]]
    /\ keyTTL' = [s \in Sides |-> Less(keyTTL[s])]
    /\ pending' = [s \in Sides |-> [k \in Delays |->
                     (IF k < Window THEN pending[s][k + 1] ELSE 0)
                     + (IF k = 0 THEN pending[s][0] ELSE 0)]]
    /\ RecordIf(\E s \in Sides : Expiring(s), "expiry")
    /\ UNCHANGED <<db, commits, engine, writerVars, flusherVars, faults>>

-----------------------------------------------------------------------------
HookStep(w) ==
    \/ BufferGet(w)
    \/ BufferSet(w)
    \/ AlreadyScheduled(w)
    \/ MustSchedule(w)
    \/ Schedule(w)
    \/ SetKey(w)
    \/ ScheduleFails(w)
    \/ DropBuffer(w)
    \/ Fallback(w)
    \/ FallbackFails(w)

FlushStep(f) ==
    \/ \E s \in Sides : FlushStart(f, s)
    \/ FlushReadEmpty(f)
    \/ FlushRead(f)
    \/ FlushClear(f)
    \/ FlushSend(f)
    \/ FlushFails(f)

Next ==
    \/ \E w \in Writers, d \in Docs, s \in Sides : Commit(w, d, s)
    \/ \E w \in Writers : HookStep(w)
    \/ \E f \in Flushers : FlushStep(f)
    \/ Tick

\* A running hook and a running task go on, a due task is picked up, time passes.
Fairness ==
    /\ \A w \in Writers : WF_vars(HookStep(w))
    /\ \A f \in Flushers : WF_vars(FlushStep(f))
    /\ WF_vars(Tick)

Spec == Init /\ [][Next]_vars
FairSpec == Spec /\ Fairness

-----------------------------------------------------------------------------
(* What is checked.                                                        *)

StoreTypeOK ==
    /\ db \in [Docs -> State]
    /\ commits \in Ver
    /\ engine \in [Docs -> State]
    /\ faults \in 0..MaxFaults
    /\ cause \in Causes
CacheTypeOK ==
    /\ buffer \in [Sides -> Seq(Op)]
    /\ bufTTL \in [Sides -> 0..BufferTTL]
    /\ keyTTL \in [Sides -> Delays]
    /\ pending \in [Sides -> [Delays -> Nat]]
HookTypeOK ==
    /\ wpc \in [Writers -> {"idle", "get", "set", "key", "schedule", "setkey",
                            "drop", "fallback"}]
    /\ wop \in [Writers -> Op \cup {NoOp}]
    /\ wcopy \in [Writers -> Seq(Op)]
    /\ \A w \in Writers : wpc[w] # "idle" => wop[w] \in Op
FlushTypeOK ==
    /\ fpc \in [Flushers -> {"idle", "read", "clear", "send"}]
    /\ fside \in [Flushers -> Sides]
    /\ fread \in [Flushers -> Seq(Op)]
    /\ ftodo \in [Flushers -> SUBSET Op]
    /\ \A f \in Flushers : fpc[f] # "send" => ftodo[f] = {}

\* The type invariant.  It includes that a hook at work has an operation, and
\* that a flush has something left to send only while it is sending.
TypeOK == StoreTypeOK /\ CacheTypeOK /\ HookTypeOK /\ FlushTypeOK

Latest(d) == [doc |-> d, side |-> db[d].side, ver |-> db[d].ver]
Held(op) == \E w \in Writers : wop[w] = op /\ wpc[w] \in {"get", "set", "fallback"}
Buffered(op) == \E i \in DOMAIN buffer[op.side] : buffer[op.side][i] = op
InFlight(op) == \E f \in Flushers : op \in ftodo[f]
Applied(op) == engine[op.doc] = Content(op)
Somewhere(op) == Held(op) \/ Buffered(op) \/ InFlight(op) \/ Applied(op)

\* As long as no two cache sequences overlapped, nothing expired, no flush or
\* scheduling failed and no operations on one document were reordered, the last
\* committed operation on every document is in a hook, in its buffer, in a
\* flush, or applied: no other event makes the two tasks lose an update.
Conservation ==
    cause = "none" =>
        \A d \in Docs : db[d].ver > 0 => Somewhere(Latest(d))

\* Conservation is not inductive.  It rests on two facts about the operations
\* on their way to the engine.  None is newer than what the database holds:
KnownTo(D, op) ==
    /\ op.ver <= D[op.doc].ver
    /\ op.ver = D[op.doc].ver => op.side = D[op.doc].side
DbKnown == \A d \in Docs : db[d].ver <= commits
EngineKnown ==
    \A d \in Docs : /\ engine[d].ver <= db[d].ver
                    /\ engine[d].ver = db[d].ver => engine[d].side = db[d].side
HooksKnown == \A w \in Writers : wpc[w] # "idle" => KnownTo(db, wop[w])
CopiesKnown == \A w \in Writers : \A i \in DOMAIN wcopy[w] : KnownTo(db, wcopy[w][i])
BuffersKnown == \A s \in Sides : \A i \in DOMAIN buffer[s] : KnownTo(db, buffer[s][i])
ReadsKnown == \A f \in Flushers : \A i \in DOMAIN fread[f] : KnownTo(db, fread[f][i])
TodosKnown == \A f \in Flushers : \A op \in ftodo[f] : KnownTo(db, op)
OnePerDoc(ops) == \A op1, op2 \in ops : op1.doc = op2.doc => op1 = op2
TodosOnePerDoc == \A f \in Flushers : OnePerDoc(ftodo[f])
KnownOps ==
    /\ DbKnown /\ EngineKnown /\ HooksKnown /\ CopiesKnown /\ BuffersKnown
    /\ ReadsKnown /\ TodosKnown /\ TodosOnePerDoc

\* and a buffer holds the operations on one document in commit order:
Sorted(items) ==
    \A i, j \in DOMAIN items :
        i < j /\ items[i].doc = items[j].doc => items[i].ver < items[j].ver
SortedBuffers == cause = "none" => \A s \in Sides : Sorted(buffer[s])
IndInv == TypeOK /\ KnownOps /\ SortedBuffers /\ Conservation

Settled ==
    /\ \A w \in Writers : wpc[w] = "idle"
    /\ \A f \in Flushers : fpc[f] = "idle"
    /\ \A s \in Sides : buffer[s] = <<>>

\* When all hooks and flushes are over, the engine holds what the database
\* holds, unless one of the recorded events happened on the way.
Converges == Settled /\ cause = "none" => engine = db

\* A buffered list does not stay in the cache for ever: a flush takes it, or
\* the 3 * window timeout of cache.set drops it.
Drains == \A s \in Sides : buffer[s] # <<>> ~> buffer[s] = <<>>

\* auto_index.py:238-241: the task key "prevents scheduling a second flush for
\* the same buffer while one is already pending".  It does for one process
\* and with the size trigger off: at most one flush waits for its countdown.
OneWaitingFlush ==
    \A s \in Sides : \A k, l \in 1..Window :
        pending[s][k] > 0 /\ pending[s][l] > 0 => k = l /\ pending[s][k] = 1
=============================================================================
