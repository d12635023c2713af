----------------------------- MODULE IndexSync -----------------------------
(***************************************************************************)
(* The settings of an index: the row of SearchIndex that holds them, its   *)
(* flag is_synced, and the pushes that bring them to the engine            *)
(* (services/indexing.py, handlers.py, models/indexes.py, tasks.py).       *)
(*                                                                         *)
(* An editor is a process in create_index or update_index_settings: it     *)
(* works on its own copy of the row, saves the whole copy, runs the        *)
(* post_save handler, and pushes.  A worker is a Celery process that runs  *)
(* sync_index_settings or sync_all_indexes.  Both push with                *)
(* _sync_index_to_engine, a request and then the update of the flag.       *)
(*                                                                         *)
(* One index; settings are a version for each settings key.                *)
(***************************************************************************)
EXTENDS Naturals, FiniteSets

CONSTANTS Keys,      \* settings keys
          Editors,   \* processes that create the index or update its settings
          Workers,   \* Celery worker processes
          MaxEdits,  \* bound: updates of settings in a behaviour
          MaxFaults, \* bound: failed requests and crashes
          Missing    \* the row, or the engine's index, that does not exist

\* ASSUME the bounds are numbers, and a process is an editor or a worker.
ASSUME SettingsAssumption ==
    /\ MaxEdits \in Nat /\ MaxFaults \in Nat
    /\ Editors \cap Workers = {}

VARIABLES
    autoSync, async, \* ICV_SEARCH_AUTO_SYNC, ICV_SEARCH_ASYNC_INDEXING
    upserts, \* update_settings makes a missing index (Meilisearch; not
             \* PostgreSQL, OpenSearch, Solr, Typesense)
    row,     \* the row: its settings and is_synced
    engine,  \* the settings the engine has
    tasks,   \* tasks[n]: sync_index_settings tasks queued for attempt n
    pc,      \* control of a process
    copy,    \* what a process works on: its instance, the settings that was
             \* loaded with, the attempt of a task, create_error of create_index
    edits, faults, \* bounds
    want,    \* history: the last value saved for each key
    overwritten, \* history: a save has undone another's
    spoiled  \* history: an event that can make the flag wrong has happened

config == <<autoSync, async, upserts>>
dbVars == <<row, want, overwritten>>
procVars == <<pc, copy>>
vars == <<config, dbVars, engine, tasks, procVars, edits, faults, spoiled>>

MaxRetries == 3
Procs == Editors \cup Workers
Ver == 0..MaxEdits
Settings == [Keys -> Ver]
Default == [k \in Keys |-> 0]
Row == [settings : Settings, synced : BOOLEAN]
Copy == [settings : Settings, synced : BOOLEAN, loaded : Settings,
         attempt : 0..MaxRetries, failed : BOOLEAN]

\* ASSUME what does not exist is not a row and not settings.
ASSUME MissingAssumption == Missing \notin Row \cup Settings

Instance(r, n) == [settings |-> r.settings, synced |-> r.synced,
                   loaded |-> Default, attempt |-> n, failed |-> FALSE]
NoCopy == Instance([settings |-> Default, synced |-> FALSE], 0)

Goto(p, label) == pc' = [pc EXCEPT ![p] = label]
\* The call or task is over, and its instance gone.
Ends(p) == Goto(p, "idle") /\ copy' = [copy EXCEPT ![p] = NoCopy]
Fault == faults < MaxFaults /\ faults' = faults + 1
SpoiledIf(P) == spoiled' = (spoiled \/ P)

Init ==
    /\ autoSync \in BOOLEAN /\ async \in BOOLEAN /\ upserts \in BOOLEAN
    /\ row = Missing
    /\ engine = Missing
    /\ tasks = [n \in 0..MaxRetries |-> 0]
    /\ pc = [p \in Procs |-> "idle"]
    /\ copy = [p \in Procs |-> NoCopy]
    /\ edits = 0
    /\ faults = 0
    /\ want = Default
    /\ overwritten = FALSE
    /\ spoiled = FALSE

-----------------------------------------------------------------------------
(* create_index and update_index_settings, up to the save.                 *)

Created == IF engine = Missing THEN Default ELSE engine

\* create_index, which resolve_index calls when there is no row: the engine's
\* index comes first, and its failure is kept for later.
Create(e) ==
    /\ pc[e] = "idle"
    /\ row = Missing
    /\ \/ /\ engine' = Created
          /\ UNCHANGED <<copy, faults>>
       \/ /\ Fault
          /\ copy' = [copy EXCEPT ![e].failed = TRUE]
          /\ engine' \in {Created, engine}
    /\ Goto(e, "insert")
    /\ UNCHANGED <<config, dbVars, tasks, edits, spoiled>>

\* slip: no row is saved for an engine's index that was not created
InsertIfCreated(e) ==
    /\ pc[e] = "insert"
    /\ row' = IF copy[e].failed THEN row
              ELSE [settings |-> copy[e].settings, synced |-> FALSE]
    /\ Goto(e, "saved")
    /\ UNCHANGED <<config, want, overwritten, engine, tasks, copy, edits,
                   faults, spoiled>>

\* index.save() of a new row; the row of another creator is in the way of it.
Insert(e) ==
    /\ pc[e] = "insert"
    /\ IF row = Missing
         THEN /\ row' = [settings |-> copy[e].settings, synced |-> FALSE]
              /\ Goto(e, IF autoSync THEN "handler" ELSE "saved")
              /\ UNCHANGED copy
         ELSE Ends(e) /\ UNCHANGED row
    /\ UNCHANGED <<config, want, overwritten, engine, tasks, edits, faults,
                   spoiled>>

\* resolve_index; index.settings.update(settings), on the instance
Load(e, k) ==
    /\ pc[e] = "idle"
    /\ row # Missing
    /\ edits < MaxEdits
    /\ edits' = edits + 1
    /\ copy' = [copy EXCEPT ![e] =
                  [Instance(row, 0) EXCEPT !.settings = [@ EXCEPT ![k] = edits + 1],
                                           !.loaded = row.settings]]
    /\ Goto(e, "save")
    /\ UNCHANGED <<config, dbVars, engine, tasks, faults, spoiled>>

\* slip: an instance loaded before another's save has its settings alone
SaveLoaded(e) ==
    /\ pc[e] = "save"
    /\ row' = [settings |-> copy[e].loaded, synced |-> copy[e].synced]
    /\ want' = [k \in Keys |-> IF copy[e].settings[k] # copy[e].loaded[k]
                                 THEN copy[e].settings[k] ELSE want[k]]
    /\ overwritten' = (overwritten \/ row.settings # copy[e].loaded)
    /\ copy' = [copy EXCEPT ![e].loaded = Default]
    /\ Goto(e, IF autoSync THEN "handler" ELSE "saved")
    /\ UNCHANGED <<config, engine, tasks, edits, faults, spoiled>>

\* index.save() writes every column of the instance, is_synced included.
Save(e) ==
    /\ pc[e] = "save"
    /\ row' = [settings |-> copy[e].settings, synced |-> copy[e].synced]
    /\ want' = [k \in Keys |-> IF copy[e].settings[k] # copy[e].loaded[k]
                                 THEN copy[e].settings[k] ELSE want[k]]
    /\ overwritten' = (overwritten \/ row.settings # copy[e].loaded)
    /\ copy' = [copy EXCEPT ![e].loaded = Default]
    /\ Goto(e, IF autoSync THEN "handler" ELSE "saved")
    /\ UNCHANGED <<config, engine, tasks, edits, faults, spoiled>>

-----------------------------------------------------------------------------
(* on_search_index_save, the post_save handler.                            *)

\* slip: the flag is left as it is
HandlerKeepsFlag(e) ==
    /\ pc[e] = "handler"
    /\ Goto(e, IF async THEN "delay" ELSE "handlerPush")
    /\ UNCHANGED <<config, dbVars, engine, tasks, copy,
                   edits, faults, spoiled>>

\* if instance.is_synced: update(is_synced=False).  The flag of an instance
\* loaded without it is not looked up again.
Handler(e) ==
    /\ pc[e] = "handler"
    /\ row' = IF copy[e].synced THEN [row EXCEPT !.synced = FALSE] ELSE row
    /\ Goto(e, IF async THEN "delay" ELSE "handlerPush")
    /\ UNCHANGED <<config, want, overwritten, engine, tasks, copy, edits,
                   faults, spoiled>>

\* sync_index_settings.delay(pk)
Delay(e) ==
    /\ pc[e] = "delay"
    /\ tasks' = [tasks EXCEPT ![0] = @ + 1]
    /\ Goto(e, "saved")
    /\ UNCHANGED <<config, dbVars, engine, copy, edits,
                   faults, spoiled>>

\* "Celery unavailable": the push is done in this process.
DelayFails(e) ==
    /\ pc[e] = "delay"
    /\ Fault
    /\ Goto(e, "handlerPush")
    /\ UNCHANGED <<config, dbVars, engine, tasks, copy,
                   edits, spoiled>>

\* The save is done.  A creator whose create_index has failed raises now.
Saved(e) ==
    /\ pc[e] = "saved"
    /\ IF copy[e].failed THEN Ends(e) ELSE Goto(e, "push") /\ UNCHANGED copy
    /\ UNCHANGED <<config, dbVars, engine, tasks, edits,
                   faults, spoiled>>

-----------------------------------------------------------------------------
(* Workers: the two tasks.                                                 *)

TaskStart(w, n) ==
    /\ pc[w] = "idle"
    /\ tasks[n] > 0
    /\ tasks' = [tasks EXCEPT ![n] = @ - 1]
    /\ copy' = [copy EXCEPT ![w] = Instance(row, n)]
    /\ Goto(w, "push")
    /\ UNCHANGED <<config, dbVars, engine, edits, faults, spoiled>>

\* slip: the periodic task takes the rows that need none
PeriodicSynced(w) ==
    /\ pc[w] = "idle"
    /\ row # Missing
    /\ row.synced
    /\ copy' = [copy EXCEPT ![w] = Instance(row, MaxRetries)]
    /\ Goto(w, "push")
    /\ UNCHANGED <<config, dbVars, engine, tasks, edits, faults,
                   spoiled>>

\* sync_all_indexes: filter(is_synced=False).  A failed push is not retried, as
\* after the last attempt of a task.
Periodic(w) ==
    /\ pc[w] = "idle"
    /\ row # Missing
    /\ ~row.synced
    /\ copy' = [copy EXCEPT ![w] = Instance(row, MaxRetries)]
    /\ Goto(w, "push")
    /\ UNCHANGED <<config, dbVars, engine, tasks, edits, faults,
                   spoiled>>

-----------------------------------------------------------------------------
(* _sync_index_to_engine, in any process.                                  *)

Pushing(p) == pc[p] \in {"handlerPush", "push"}
Refused == engine = Missing /\ ~upserts
StaleCopy(p) == copy[p].settings # row.settings

\* backend.update_settings(uid, settings)
Push(p) ==
    /\ Pushing(p)
    /\ ~Refused
    /\ engine' = copy[p].settings
    /\ SpoiledIf(StaleCopy(p))
    /\ Goto(p, IF pc[p] = "push" THEN "mark" ELSE "handlerMark")
    /\ UNCHANGED <<config, dbVars, tasks, copy, edits,
                   faults>>

\* An editor raises, but for the creator whose create_index has failed before; a
\* task is queued for its next attempt.
Raises(p) ==
    /\ IF pc[p] = "handlerPush" /\ copy[p].failed
         THEN Goto(p, "saved") /\ UNCHANGED copy
         ELSE Ends(p)
    /\ tasks' = [n \in 0..MaxRetries |->
                   IF p \in Workers /\ n = copy[p].attempt + 1
                     THEN tasks[n] + 1 ELSE tasks[n]]
    /\ UNCHANGED <<config, dbVars, edits>>

\* The request fails, applied or not.
PushFails(p) ==
    /\ Pushing(p)
    /\ ~Refused
    /\ Fault
    /\ \/ /\ engine' = copy[p].settings
          /\ SpoiledIf(StaleCopy(p) \/ (row.synced /\ ~autoSync))
       \/ /\ UNCHANGED engine
          /\ SpoiledIf(row.synced /\ ~autoSync)
    /\ Raises(p)

\* IndexNotFoundError: the engine has no such index, and nothing here makes it.
PushRefused(p) ==
    /\ Pushing(p)
    /\ Refused
    /\ Raises(p)
    /\ UNCHANGED <<engine, faults, spoiled>>

\* index.mark_synced(): whatever the row has become.  (The instance's own flag is
\* set too, and not read again.)
Mark(p) ==
    /\ pc[p] \in {"handlerMark", "mark"}
    /\ row' = [row EXCEPT !.synced = TRUE]
    /\ SpoiledIf(StaleCopy(p))
    /\ IF pc[p] = "mark" THEN Ends(p) ELSE Goto(p, "saved") /\ UNCHANGED copy
    /\ UNCHANGED <<config, want, overwritten, engine, tasks, edits, faults>>

\* The process is killed.  Nobody else knows of a save whose handler or push
\* did not run, if the row says that it is synced.
Crash(p) ==
    /\ pc[p] # "idle"
    /\ Fault
    /\ Ends(p)
    /\ SpoiledIf(p \in Editors /\ row # Missing /\ row.synced /\ pc[p] # "save")
    /\ UNCHANGED <<config, dbVars, engine, tasks, edits>>

-----------------------------------------------------------------------------
EditorStep(e) ==
    \/ Insert(e) \/ Save(e) \/ Handler(e) \/ Delay(e) \/ DelayFails(e) \/ Saved(e)
SyncStep(p) == Push(p) \/ PushFails(p) \/ PushRefused(p) \/ Mark(p)
WorkerStart(w) == Periodic(w) \/ \E n \in 0..MaxRetries : TaskStart(w, n)

Next ==
    \/ \E e \in Editors : Create(e) \/ (\E k \in Keys : Load(e, k)) \/ EditorStep(e)
    \/ \E w \in Workers : WorkerStart(w)
    \/ \E p \in Procs : SyncStep(p) \/ Crash(p)

\* A process at work goes on; an idle worker takes a task when there is one,
\* and sync_all_indexes is scheduled again and again.
Fairness ==
    /\ \A e \in Editors : WF_vars(EditorStep(e) \/ SyncStep(e))
    /\ \A w \in Workers : WF_vars(SyncStep(w)) /\ WF_vars(WorkerStart(w))

Spec == Init /\ [][Next]_vars
FairSpec == Spec /\ Fairness

-----------------------------------------------------------------------------
(* What is checked.                                                        *)

\* The type invariant.
TypeOK ==
    /\ autoSync \in BOOLEAN /\ async \in BOOLEAN /\ upserts \in BOOLEAN
    /\ row \in Row \cup {Missing}
    /\ engine \in Settings \cup {Missing}
    /\ tasks \in [0..MaxRetries -> Nat]
    /\ pc \in [Procs -> {"idle", "insert", "save", "handler", "delay", "saved",
                         "handlerPush", "handlerMark", "push", "mark"}]
    /\ copy \in [Procs -> Copy]
    /\ edits \in 0..MaxEdits /\ faults \in 0..MaxFaults
    /\ want \in Settings
    /\ overwritten \in BOOLEAN
    /\ spoiled \in BOOLEAN
    /\ row = Missing => /\ \A p \in Procs : pc[p] \in {"idle", "insert"}
                        /\ \A n \in 0..MaxRetries : tasks[n] = 0

Quiet == (\A p \in Procs : pc[p] = "idle") /\ \A n \in 0..MaxRetries : tasks[n] = 0
FlagIsTrue == row # Missing /\ row.synced => engine = row.settings

\* When nothing is on its way, is_synced says the truth, unless on the way the
\* flag was set for other settings than the row's, older settings were pushed
\* than the row's, the push of a save failed without AUTO_SYNC, or a save was cut
\* off before its handler had cleared the flag.
FlagIsTrueOrRecorded == Quiet /\ ~spoiled => FlagIsTrue

\* update_index_settings merges: as long as no two updates overlapped, the row
\* has the last value saved for every key.
EditsKept == ~overwritten /\ row # Missing => row.settings = want

\* Neither is inductive.  EditsKept rests on creators having default settings:
CreatorsFresh ==
    /\ \A e \in Editors : pc[e] \in {"idle", "insert"} => copy[e].settings = Default
    /\ row = Missing => want = Default

\* FlagIsTrueOrRecorded rests on the settings to be saved being nobody else's,
NotNewer(settings) == \A k \in Keys : settings[k] <= edits
Numbered ==
    /\ row # Missing => NotNewer(row.settings)
    /\ \A p \in Procs : NotNewer(copy[p].settings)
Unsaved ==
    \A e \in Editors : pc[e] = "save" =>
        /\ ~copy[e].failed
        /\ copy[e].settings \notin {Default, row.settings}
        /\ \A p \in Procs \ {e} : copy[p].settings # copy[e].settings

\* on a row that says synced having had an index at the engine,
Marking(p) == pc[p] \in {"handlerMark", "mark"}
OnceSynced ==
    /\ row # Missing /\ row.synced => engine # Missing
    /\ \A p \in Procs : copy[p].synced \/ Marking(p) => engine # Missing

\* and, unless spoiled, on the flag being set for what has been pushed, and being
\* wrong only while the editor that made it so has still to clear it or to push.
PushedIsMarked ==
    ~spoiled => \A p \in Procs : Marking(p) /\ ~StaleCopy(p) => engine = row.settings
OnDuty(e) ==
    /\ ~StaleCopy(e) /\ ~copy[e].failed
    /\ \/ autoSync /\ pc[e] = "handler" /\ copy[e].synced
       \/ ~autoSync /\ pc[e] \in {"saved", "push"}
SomebodyOnDuty == ~spoiled => FlagIsTrue \/ \E e \in Editors : OnDuty(e)
IndInv ==
    /\ TypeOK /\ CreatorsFresh /\ EditsKept
    /\ Numbered /\ Unsaved /\ OnceSynced /\ PushedIsMarked /\ SomebodyOnDuty

\* sync_all_indexes repairs what failed: in the end the engine has the settings
\* of the row, however often requests failed and processes were killed, unless
\* one of the recorded events has made the flag wrong, or create_index failed and
\* the engine refuses the settings of an index it does not have.
Repaired ==
    <>[](spoiled \/ row = Missing \/ Refused \/ engine = row.settings)
=============================================================================
