-------------------------- MODULE IndexSync_proofs --------------------------
(***************************************************************************)
(* Proofs about IndexSync: the state is well typed; an update is undone    *)
(* only by one that overlapped it; and is_synced is wrong at rest only     *)
(* after one of the events that the model records.                         *)
(***************************************************************************)
EXTENDS IndexSync, TLAPS

(* The first attempt and the last are attempts.                            *)
LEMMA Attempts == 0 \in 0..MaxRetries /\ MaxRetries \in 0..MaxRetries
BY DEF MaxRetries

(* An instance of a row, and no instance, are well typed.                  *)
LEMMA InstanceType ==
    ASSUME NEW r \in Row, NEW n \in 0..MaxRetries
    PROVE  /\ Instance(r, n) \in Copy
           /\ Instance(r, n).settings = r.settings
           /\ Instance(r, n).synced = r.synced
           /\ Instance(r, n).attempt = n
           /\ Instance(r, n).failed = FALSE
BY SettingsAssumption DEF Instance, Row, Copy, Default, Settings, Ver

LEMMA NoCopyType ==
    /\ NoCopy \in Copy
    /\ NoCopy.settings = Default
    /\ NoCopy.synced = FALSE
    /\ NoCopy.failed = FALSE
<1>1. [settings |-> Default, synced |-> FALSE] \in Row
  BY SettingsAssumption DEF Row, Default, Settings, Ver
<1>2. QED
  BY <1>1, Attempts, InstanceType DEF NoCopy

(* Editors and workers are the processes.                                  *)
LEMMA ProcsParts ==
    /\ \A e \in Editors : e \in Procs /\ e \notin Workers
    /\ \A w \in Workers : w \in Procs /\ w \notin Editors
BY SettingsAssumption DEF Procs

(* A row exists, and settings do.                                          *)
LEMMA RowExists == \A r \in Row \cup Settings : r # Missing
BY MissingAssumption

(* The bound on faults is kept.                                            *)
LEMMA FaultType ==
    ASSUME faults \in 0..MaxFaults, Fault
    PROVE  faults' \in 0..MaxFaults
BY SettingsAssumption DEF Fault

(* The fields of an instance.                                              *)
LEMMA CopyFields ==
    ASSUME NEW c \in Copy
    PROVE  /\ c.settings \in Settings /\ c.loaded \in Settings
           /\ c.synced \in BOOLEAN /\ c.failed \in BOOLEAN
           /\ c.attempt \in 0..MaxRetries
           /\ [settings |-> c.settings, synced |-> c.synced] \in Row
           /\ [settings |-> c.settings, synced |-> FALSE] \in Row
           /\ [c EXCEPT !.loaded = Default] \in Copy
           /\ [c EXCEPT !.failed = TRUE] \in Copy
<1>1. Default \in Settings
  BY SettingsAssumption DEF Default, Settings, Ver
<1>2. QED
  BY <1>1 DEF Copy, Row

-----------------------------------------------------------------------------
(* Types, action by action.                                                *)
LEMMA TypeInit == Init => TypeOK
<1> SUFFICES ASSUME Init PROVE TypeOK
  OBVIOUS
<1>1. tasks \in [0..MaxRetries -> Nat] /\ \A n \in 0..MaxRetries : tasks[n] = 0
  BY DEF Init
<1>2. want \in Settings /\ edits \in 0..MaxEdits /\ faults \in 0..MaxFaults
  BY SettingsAssumption DEF Init, Settings, Ver, Default
<1>3. copy \in [Procs -> Copy]
  BY NoCopyType DEF Init
<1>4. pc \in [Procs -> {"idle"}] /\ \A p \in Procs : pc[p] = "idle"
  BY DEF Init
<1>5. QED
  BY <1>1, <1>2, <1>3, <1>4 DEF Init, TypeOK

LEMMA TypeStep == TypeOK /\ [Next]_vars => TypeOK'
<1> SUFFICES ASSUME TypeOK, [Next]_vars PROVE TypeOK'
  OBVIOUS
<1>1. ASSUME NEW e \in Editors, Create(e) PROVE TypeOK'
  <2>1. engine' \in Settings \cup {Missing}
    BY <1>1, SettingsAssumption DEF Create, Created, TypeOK, Settings, Default, Ver
  <2>2. copy' \in [Procs -> Copy]
    <3>1. [copy[e] EXCEPT !.failed = TRUE] \in Copy
      BY CopyFields, ProcsParts DEF TypeOK
    <3>2. QED
      BY <1>1, <3>1 DEF Create, TypeOK
  <2>3. faults' \in 0..MaxFaults
    BY <1>1, FaultType DEF Create, TypeOK
  <2>4. QED
    BY <1>1, <2>1, <2>2, <2>3, ProcsParts DEF Create, TypeOK, Goto, config, dbVars
<1>2. ASSUME NEW e \in Editors, Insert(e) PROVE TypeOK'
  <2>1. row' \in Row /\ row' # Missing
    BY <1>2, CopyFields, RowExists, ProcsParts DEF Insert, TypeOK
  <2>2. copy' \in [Procs -> Copy]
    BY <1>2, NoCopyType DEF Insert, Ends, TypeOK
  <2>3. QED
    BY <1>2, <2>1, <2>2, ProcsParts DEF Insert, TypeOK, Goto, Ends, config
<1>3. ASSUME NEW e \in Editors, NEW k \in Keys, Load(e, k) PROVE TypeOK'
  <2>1. row \in Row /\ edits + 1 \in Ver /\ edits + 1 \in 0..MaxEdits
    BY <1>3, SettingsAssumption DEF Load, TypeOK, Ver
  <2>2. Instance(row, 0) \in Copy
    BY <2>1, Attempts, InstanceType
  <2>3. copy'[e] \in Copy /\ copy' \in [Procs -> Copy]
    BY <1>3, <2>1, <2>2, ProcsParts DEF Load, TypeOK, Copy, Row, Settings
  <2>4. QED
    BY <1>3, <2>1, <2>3, ProcsParts DEF Load, TypeOK, Goto, config, dbVars
<1>4. ASSUME NEW e \in Editors, Save(e) PROVE TypeOK'
  <2>1. copy[e].settings \in Settings /\ copy[e].loaded \in Settings
    BY CopyFields, ProcsParts DEF TypeOK
  <2>2. want' \in Settings
    BY <1>4, <2>1 DEF Save, TypeOK, Settings
  <2>3. row' \in Row /\ row' # Missing
    BY <1>4, CopyFields, RowExists, ProcsParts DEF Save, TypeOK
  <2>4. copy' \in [Procs -> Copy]
    BY <1>4, CopyFields, ProcsParts DEF Save, TypeOK
  <2>5. overwritten' \in BOOLEAN
    BY <1>4 DEF Save, TypeOK
  <2>6. QED
    BY <1>4, <2>2, <2>3, <2>4, <2>5, ProcsParts DEF Save, TypeOK, Goto, config
<1>5. ASSUME NEW e \in Editors, Handler(e) PROVE TypeOK'
  <2>1. row # Missing /\ row' \in Row /\ row' # Missing
    BY <1>5, RowExists, ProcsParts DEF Handler, TypeOK, Row
  <2>2. QED
    BY <1>5, <2>1, ProcsParts DEF Handler, TypeOK, Goto, config
<1>6. ASSUME NEW e \in Editors, Delay(e) \/ DelayFails(e) \/ Saved(e) PROVE TypeOK'
  <2>1. row # Missing
    BY <1>6, ProcsParts DEF Delay, DelayFails, Saved, TypeOK
  <2>2. tasks' \in [0..MaxRetries -> Nat]
    BY <1>6, Attempts DEF Delay, DelayFails, Saved, TypeOK
  <2>3. copy' \in [Procs -> Copy]
    BY <1>6, NoCopyType DEF Delay, DelayFails, Saved, Ends, TypeOK
  <2>4. faults' \in 0..MaxFaults
    BY <1>6, FaultType DEF Delay, DelayFails, Saved, TypeOK
  <2>5. pc' \in [Procs -> {"idle", "insert", "save", "handler", "delay", "saved",
                           "handlerPush", "handlerMark", "push", "mark"}]
    BY <1>6 DEF Delay, DelayFails, Saved, Ends, Goto, TypeOK
  <2>6. UNCHANGED <<config, dbVars, engine, edits, spoiled>>
    BY <1>6 DEF Delay, DelayFails, Saved, Goto, Ends, Fault
  <2>7. QED
    BY <2>1, <2>2, <2>3, <2>4, <2>5, <2>6 DEF TypeOK, config, dbVars
<1>7. ASSUME NEW w \in Workers, Periodic(w) PROVE TypeOK'
  <2>1. Instance(row, MaxRetries) \in Copy
    BY <1>7, Attempts, InstanceType DEF Periodic, TypeOK
  <2>2. QED
    BY <1>7, <2>1, ProcsParts DEF Periodic, TypeOK, Goto, config, dbVars
<1>8. ASSUME NEW w \in Workers, NEW n \in 0..MaxRetries, TaskStart(w, n) PROVE TypeOK'
  <2>1. row # Missing
    BY <1>8 DEF TaskStart, TypeOK
  <2>2. Instance(row, n) \in Copy
    BY <2>1, InstanceType DEF TypeOK
  <2>3. tasks' \in [0..MaxRetries -> Nat]
    BY <1>8 DEF TaskStart, TypeOK
  <2>4. QED
    BY <1>8, <2>1, <2>2, <2>3, ProcsParts DEF TaskStart, TypeOK, Goto, config, dbVars
<1>9. ASSUME NEW p \in Procs, Push(p) PROVE TypeOK'
  BY <1>9 DEF Push, Pushing, SpoiledIf, TypeOK, Goto, config, dbVars, Copy
<1>10. ASSUME NEW p \in Procs, PushFails(p) \/ PushRefused(p) PROVE TypeOK'
  <2>1. row # Missing
    BY <1>10 DEF PushFails, PushRefused, Pushing, TypeOK
  <2>2. copy' \in [Procs -> Copy]
    BY <1>10, NoCopyType DEF PushFails, PushRefused, Raises, Ends, TypeOK
  <2>3. tasks' \in [0..MaxRetries -> Nat]
    BY <1>10 DEF PushFails, PushRefused, Raises, TypeOK
  <2>4. engine' \in Settings \cup {Missing}
    BY <1>10, CopyFields DEF PushFails, PushRefused, TypeOK
  <2>5. spoiled' \in BOOLEAN /\ faults' \in 0..MaxFaults
    BY <1>10, FaultType DEF PushFails, PushRefused, SpoiledIf, TypeOK
  <2>6. pc' \in [Procs -> {"idle", "insert", "save", "handler", "delay", "saved",
                           "handlerPush", "handlerMark", "push", "mark"}]
    BY <1>10 DEF PushFails, PushRefused, Raises, Ends, Goto, TypeOK
  <2>7. QED
    BY <1>10, <2>1, <2>2, <2>3, <2>4, <2>5, <2>6
       DEF PushFails, PushRefused, Raises, TypeOK, config, dbVars
<1>11. ASSUME NEW p \in Procs, Mark(p) PROVE TypeOK'
  <2>1. row # Missing /\ row' \in Row /\ row' # Missing
    BY <1>11, RowExists DEF Mark, TypeOK, Row
  <2>2. copy' \in [Procs -> Copy]
    BY <1>11, NoCopyType DEF Mark, Ends, TypeOK
  <2>3. spoiled' \in BOOLEAN
    BY <1>11 DEF Mark, SpoiledIf, TypeOK
  <2>4. QED
    BY <1>11, <2>1, <2>2, <2>3 DEF Mark, Ends, TypeOK, Goto, config
<1>12. ASSUME NEW p \in Procs, Crash(p) PROVE TypeOK'
  <2>1. copy' \in [Procs -> Copy]
    BY <1>12, NoCopyType DEF Crash, Ends, TypeOK
  <2>2. spoiled' \in BOOLEAN /\ faults' \in 0..MaxFaults
    BY <1>12, FaultType DEF Crash, SpoiledIf, TypeOK
  <2>3. QED
    BY <1>12, <2>1, <2>2 DEF Crash, Ends, TypeOK, Goto, config, dbVars
<1>13. CASE UNCHANGED vars
  BY <1>13 DEF vars, config, dbVars, procVars, TypeOK
<1>14. QED
  BY <1>1, <1>2, <1>3, <1>4, <1>5, <1>6, <1>7, <1>8, <1>9, <1>10, <1>11, <1>12, <1>13
     DEF Next, EditorStep, SyncStep, WorkerStart

(* The state is well typed, and nothing is on its way before there is a    *)
(* row.                                                                    *)
THEOREM TypeCorrect == Spec => []TypeOK
BY TypeInit, TypeStep, PTL DEF Spec
-----------------------------------------------------------------------------
(* EditsKept, with CreatorsFresh.                                          *)
LEMMA KeptInit == Init => CreatorsFresh /\ EditsKept
BY NoCopyType, ProcsParts DEF Init, CreatorsFresh, EditsKept

LEMMA KeptStep ==
    TypeOK /\ CreatorsFresh /\ EditsKept /\ [Next]_vars => CreatorsFresh' /\ EditsKept'
<1> SUFFICES ASSUME TypeOK, CreatorsFresh, EditsKept, [Next]_vars
             PROVE  CreatorsFresh' /\ EditsKept'
  OBVIOUS
<1>1. ASSUME NEW e \in Editors, Create(e) PROVE CreatorsFresh' /\ EditsKept'
  BY <1>1, ProcsParts DEF Create, Goto, dbVars, CreatorsFresh, EditsKept, TypeOK, Copy
<1>2. ASSUME NEW e \in Editors, Insert(e) PROVE CreatorsFresh' /\ EditsKept'
  <2>1. CASE row = Missing
    <3>1. copy[e].settings = Default /\ want = Default
      BY <1>2, <2>1 DEF Insert, CreatorsFresh
    <3>2. row'.settings = want' /\ row' # Missing
      <4>1. copy[e] \in Copy
        BY ProcsParts DEF TypeOK
      <4>2. row' \in Row
        BY <1>2, <2>1, <4>1, CopyFields DEF Insert
      <4>3. QED
        BY <1>2, <2>1, <3>1, <4>2, RowExists DEF Insert
    <3>3. QED
      BY <1>2, <2>1, <3>2, ProcsParts DEF Insert, Goto, CreatorsFresh, EditsKept, TypeOK
  <2>2. CASE row # Missing
    BY <1>2, <2>2, NoCopyType, ProcsParts
       DEF Insert, Ends, Goto, CreatorsFresh, EditsKept, TypeOK
  <2>3. QED
    BY <2>1, <2>2
<1>3. ASSUME NEW e \in Editors, NEW k \in Keys, Load(e, k)
      PROVE  CreatorsFresh' /\ EditsKept'
  BY <1>3, ProcsParts DEF Load, Goto, dbVars, CreatorsFresh, EditsKept, TypeOK
<1>4. ASSUME NEW e \in Editors, Save(e) PROVE CreatorsFresh' /\ EditsKept'
  <2>1. copy[e].settings \in Settings /\ copy[e].loaded \in Settings /\ row # Missing
    BY <1>4, CopyFields, ProcsParts DEF Save, TypeOK
  <2>2. EditsKept'
    <3>1. ASSUME ~overwritten' PROVE want' = copy[e].settings
      <4>1. want = copy[e].loaded
        BY <1>4, <2>1, <3>1 DEF Save, EditsKept
      <4>2. QED
        BY <1>4, <2>1, <4>1 DEF Save, Settings
    <3>2. QED
      BY <1>4, <3>1 DEF Save, EditsKept
  <2>3. CreatorsFresh'
    <3>1. row' # Missing
      BY <1>4, <2>1, CopyFields, RowExists, ProcsParts DEF Save, TypeOK
    <3>2. QED
      BY <1>4, <3>1, ProcsParts DEF Save, Goto, CreatorsFresh, TypeOK
  <2>4. QED
    BY <2>2, <2>3
<1>5. ASSUME NEW e \in Editors, Handler(e) PROVE CreatorsFresh' /\ EditsKept'
  <2>1. row # Missing /\ row' \in Row /\ row' # Missing
        /\ row'.settings = row.settings
    BY <1>5, RowExists, ProcsParts DEF Handler, TypeOK, Row
  <2>2. QED
    BY <1>5, <2>1, ProcsParts DEF Handler, Goto, CreatorsFresh, EditsKept, TypeOK
<1>6. ASSUME NEW e \in Editors, Delay(e) \/ DelayFails(e) \/ Saved(e)
      PROVE  CreatorsFresh' /\ EditsKept'
  BY <1>6, NoCopyType, ProcsParts
     DEF Delay, DelayFails, Saved, Ends, Goto, dbVars, CreatorsFresh, EditsKept, TypeOK
<1>7. ASSUME NEW w \in Workers, WorkerStart(w) PROVE CreatorsFresh' /\ EditsKept'
  BY <1>7, ProcsParts
     DEF WorkerStart, TaskStart, Periodic, Goto, dbVars, CreatorsFresh, EditsKept, TypeOK
<1>8. ASSUME NEW p \in Procs, Push(p) PROVE CreatorsFresh' /\ EditsKept'
  BY <1>8, ProcsParts DEF Push, Goto, dbVars, CreatorsFresh, EditsKept, TypeOK
<1>9. ASSUME NEW p \in Procs, Raises(p) PROVE CreatorsFresh' /\ EditsKept'
  BY <1>9, NoCopyType, ProcsParts
     DEF Raises, Ends, Goto, dbVars, CreatorsFresh, EditsKept, TypeOK
<1>10. ASSUME NEW p \in Procs, Mark(p) PROVE CreatorsFresh' /\ EditsKept'
  <2>1. row # Missing /\ row' \in Row /\ row' # Missing
        /\ row'.settings = row.settings
    BY <1>10, RowExists DEF Mark, TypeOK, Row
  <2>2. QED
    BY <1>10, <2>1, NoCopyType, ProcsParts
       DEF Mark, Ends, Goto, CreatorsFresh, EditsKept, TypeOK
<1>11. ASSUME NEW p \in Procs, Crash(p) PROVE CreatorsFresh' /\ EditsKept'
  BY <1>11, NoCopyType, ProcsParts
     DEF Crash, Ends, Goto, dbVars, CreatorsFresh, EditsKept, TypeOK
<1>12. CASE UNCHANGED vars
  BY <1>12 DEF vars, dbVars, procVars, CreatorsFresh, EditsKept
<1>13. QED
  BY <1>1, <1>2, <1>3, <1>4, <1>5, <1>6, <1>7, <1>8, <1>9, <1>10, <1>11, <1>12
     DEF Next, EditorStep, SyncStep, PushFails, PushRefused

(* Every update of settings that overlapped no other is in the row (the    *)
(* merge of services/indexing.py and the save of the whole instance).      *)
THEOREM NoEditIsLost == Spec => []EditsKept
<1>1. Init => TypeOK /\ CreatorsFresh /\ EditsKept
  BY TypeInit, KeptInit
<1>2. TypeOK /\ CreatorsFresh /\ EditsKept /\ [Next]_vars
      => (TypeOK /\ CreatorsFresh /\ EditsKept)'
  BY TypeStep, KeptStep
<1>3. QED
  BY <1>1, <1>2, PTL DEF Spec
-----------------------------------------------------------------------------
(* Numbered and Unsaved.  Only Load makes new settings: after any other    *)
(* step those of the row and of a process are some from before it, and     *)
(* what was not saved is still with its editor alone.                      *)
RowInherits ==
    row' # Missing =>
      \/ row # Missing /\ row'.settings = row.settings
      \/ \E e \in Editors : /\ pc[e] \in {"insert", "save"} /\ pc'[e] # "save"
                            /\ row'.settings = copy[e].settings
CopyInherits(p) ==
    \/ /\ copy'[p].settings = copy[p].settings /\ copy'[p].failed = copy[p].failed
       /\ pc'[p] = "save" => pc[p] = "save"
    \/ copy'[p].settings = Default /\ pc'[p] # "save"
    \/ row # Missing /\ copy'[p].settings = row.settings /\ pc'[p] # "save"
Inherits == edits' = edits /\ RowInherits /\ \A p \in Procs : CopyInherits(p)

LEMMA Unloaded ==
    ASSUME TypeOK, CreatorsFresh, [Next]_vars,
           \A e \in Editors : \A k \in Keys : ~Load(e, k)
    PROVE  Inherits
<1> USE DEF Inherits, RowInherits, CopyInherits
<1>1. ASSUME NEW e \in Editors, Create(e) PROVE Inherits
  BY <1>1, ProcsParts DEF Create, Goto, dbVars, TypeOK, Copy, CreatorsFresh
<1>2. ASSUME NEW e \in Editors, Insert(e) PROVE Inherits
  <2>1. edits' = edits /\ \A p \in Procs : CopyInherits(p)
    BY <1>2, NoCopyType, ProcsParts DEF Insert, Ends, Goto, TypeOK
  <2>2. RowInherits
    BY <1>2, ProcsParts DEF Insert, Ends, Goto, TypeOK
  <2>3. QED
    BY <2>1, <2>2
<1>3. ASSUME NEW e \in Editors, Save(e) PROVE Inherits
  <2>1. edits' = edits /\ \A p \in Procs : CopyInherits(p)
    BY <1>3, ProcsParts DEF Save, Goto, TypeOK, Copy
  <2>2. RowInherits
    BY <1>3, ProcsParts DEF Save, Goto, TypeOK
  <2>3. QED
    BY <2>1, <2>2
<1>4. ASSUME NEW e \in Editors, Handler(e) PROVE Inherits
  <2>1. row # Missing /\ row'.settings = row.settings
    BY <1>4, ProcsParts DEF Handler, TypeOK, Row
  <2>2. QED
    BY <1>4, <2>1, ProcsParts DEF Handler, Goto, TypeOK
<1>5. ASSUME NEW e \in Editors, Delay(e) \/ DelayFails(e) \/ Saved(e) PROVE Inherits
  BY <1>5, NoCopyType, ProcsParts
     DEF Delay, DelayFails, Saved, Ends, Goto, dbVars, TypeOK
<1>6. ASSUME NEW w \in Workers, Periodic(w) PROVE Inherits
  <2>1. row # Missing /\ Instance(row, MaxRetries).settings = row.settings
    BY <1>6, Attempts, InstanceType DEF Periodic, TypeOK
  <2>2. QED
    BY <1>6, <2>1, ProcsParts DEF Periodic, Goto, dbVars, TypeOK
<1>7. ASSUME NEW w \in Workers, NEW n \in 0..MaxRetries, TaskStart(w, n) PROVE Inherits
  <2>1. row # Missing
    BY <1>7 DEF TaskStart, TypeOK
  <2>2. QED
    BY <1>7, <2>1, InstanceType, ProcsParts DEF TaskStart, Goto, dbVars, TypeOK
<1>8. ASSUME NEW p \in Procs, Push(p) PROVE Inherits
  BY <1>8 DEF Push, Goto, dbVars, TypeOK
<1>9. ASSUME NEW p \in Procs, Raises(p) PROVE Inherits
  BY <1>9, NoCopyType DEF Raises, Ends, Goto, dbVars, TypeOK
<1>10. ASSUME NEW p \in Procs, Mark(p) PROVE Inherits
  <2>1. row # Missing /\ row'.settings = row.settings
    BY <1>10 DEF Mark, TypeOK, Row
  <2>2. QED
    BY <1>10, <2>1, NoCopyType DEF Mark, Ends, Goto, TypeOK
<1>11. ASSUME NEW p \in Procs, Crash(p) PROVE Inherits
  BY <1>11, NoCopyType DEF Crash, Ends, Goto, dbVars, TypeOK
<1>12. CASE UNCHANGED vars
  BY <1>12 DEF vars, dbVars, procVars
<1>13. QED
  BY <1>1, <1>2, <1>3, <1>4, <1>5, <1>6, <1>7, <1>8, <1>9, <1>10, <1>11, <1>12
     DEF Next, EditorStep, SyncStep, WorkerStart, PushFails, PushRefused

(* The settings that Load makes are later than all others.                 *)
LEMMA NumbersOf ==
    ASSUME NEW s \in Settings
    PROVE  \A k \in Keys : s[k] \in Nat
BY SettingsAssumption DEF Settings, Ver

LEMMA Loaded ==
    ASSUME TypeOK, NEW e \in Editors, NEW k \in Keys, Load(e, k)
    PROVE  /\ edits' = edits + 1 /\ edits \in Nat
           /\ row \in Row /\ row' = row /\ row # Missing
           /\ pc'[e] = "save" /\ ~copy'[e].failed
           /\ copy'[e].settings = [row.settings EXCEPT ![k] = edits + 1]
           /\ copy'[e].synced = row.synced
           /\ \A p \in Procs \ {e} : copy'[p] = copy[p] /\ pc'[p] = pc[p]
<1>1. row # Missing /\ row \in Row /\ edits \in Nat
  BY SettingsAssumption DEF Load, TypeOK
<1> DEFINE i == Instance(row, 0)
           loaded == [i EXCEPT !.settings = [@ EXCEPT ![k] = edits + 1],
                               !.loaded = row.settings]
<1>2. i \in Copy /\ i.settings = row.settings /\ i.synced = row.synced /\ ~i.failed
  BY <1>1, Attempts, InstanceType
<1>3. /\ loaded.settings = [row.settings EXCEPT ![k] = edits + 1]
      /\ loaded.synced = row.synced /\ ~loaded.failed
  BY <1>2 DEF Copy
<1>4. copy' = [copy EXCEPT ![e] = loaded]
  BY DEF Load
<1>5. copy'[e] = loaded /\ \A p \in Procs \ {e} : copy'[p] = copy[p]
  BY <1>4, ProcsParts DEF TypeOK
<1>6. pc'[e] = "save" /\ \A p \in Procs \ {e} : pc'[p] = pc[p]
  BY ProcsParts DEF Load, Goto, TypeOK
<1>7. QED
  BY <1>1, <1>3, <1>5, <1>6 DEF Load, dbVars

LEMMA NumberedStep ==
    TypeOK /\ CreatorsFresh /\ Numbered /\ [Next]_vars => Numbered'
<1> SUFFICES ASSUME TypeOK, CreatorsFresh, Numbered, [Next]_vars PROVE Numbered'
  OBVIOUS
<1>1. ASSUME NEW e \in Editors, NEW k \in Keys, Load(e, k) PROVE Numbered'
  <2>1. row.settings \in Settings
    BY <1>1, Loaded DEF TypeOK, Row
  <2>2. \A j \in Keys : row.settings[j] \in Nat
    BY <2>1, NumbersOf
  <2>3. \A p \in Procs : copy[p].settings \in Settings
    BY CopyFields DEF TypeOK
  <2>4. \A p \in Procs : \A j \in Keys : copy[p].settings[j] \in Nat
    BY <2>3, NumbersOf
  <2>5. edits' = edits + 1 /\ edits \in Nat /\ row' = row /\ row # Missing
    BY <1>1, Loaded
  <2>6. ASSUME NEW j \in Keys PROVE copy'[e].settings[j] <= edits'
    <3>1. copy'[e].settings = [row.settings EXCEPT ![k] = edits + 1]
      BY <1>1, Loaded
    <3>2. row.settings[j] <= edits
      BY <2>5 DEF Numbered, NotNewer
    <3>3. QED
      BY <2>1, <2>2, <2>5, <3>1, <3>2 DEF Settings
  <2>7. ASSUME NEW p \in Procs \ {e}, NEW j \in Keys PROVE copy'[p].settings[j] <= edits'
    <3>1. copy'[p] = copy[p]
      BY <1>1, Loaded
    <3>2. QED
      BY <2>4, <2>5, <3>1 DEF Numbered, NotNewer
  <2>8. \A j \in Keys : row.settings[j] <= edits'
    BY <2>2, <2>5 DEF Numbered, NotNewer
  <2>9. QED
    BY <2>5, <2>6, <2>7, <2>8 DEF Numbered, NotNewer
<1>2. CASE \A e \in Editors : \A k \in Keys : ~Load(e, k)
  <2>1. Inherits
    BY <1>2, Unloaded
  <2>2. NotNewer(Default)
    BY SettingsAssumption DEF NotNewer, Default, TypeOK
  <2>3. QED
    BY <2>1, <2>2, ProcsParts
       DEF Inherits, RowInherits, CopyInherits, Numbered, NotNewer
<1>3. QED
  BY <1>1, <1>2

LEMMA UnsavedStep ==
    TypeOK /\ CreatorsFresh /\ Numbered /\ Unsaved /\ [Next]_vars => Unsaved'
<1> SUFFICES ASSUME TypeOK, CreatorsFresh, Numbered, Unsaved, [Next]_vars PROVE Unsaved'
  OBVIOUS
<1>1. ASSUME NEW e \in Editors, NEW k \in Keys, Load(e, k) PROVE Unsaved'
  <2>1. copy'[e].settings[k] = edits + 1 /\ edits \in Nat
    <3>1. copy'[e].settings = [row.settings EXCEPT ![k] = edits + 1]
          /\ row.settings \in Settings /\ edits \in Nat
      BY <1>1, Loaded DEF Row
    <3>2. QED
      BY <3>1 DEF Settings
  <2>2. ASSUME NEW s \in Settings, NotNewer(s) PROVE copy'[e].settings # s
    BY <2>1, <2>2, NumbersOf DEF NotNewer
  <2>3. NotNewer(Default) /\ Default \in Settings
    BY <2>1, SettingsAssumption DEF NotNewer, Default, Settings, Ver
  <2>4. NotNewer(row.settings) /\ row.settings \in Settings
    BY <1>1, Loaded DEF Numbered, TypeOK, Row
  <2>5. \A p \in Procs : NotNewer(copy[p].settings) /\ copy[p].settings \in Settings
    BY CopyFields DEF Numbered, TypeOK
  <2>6. copy'[e].settings \notin {Default, row.settings}
        /\ \A p \in Procs : copy[p].settings # copy'[e].settings
    BY <2>2, <2>3, <2>4, <2>5
  <2>7. /\ row' = row /\ ~copy'[e].failed
        /\ \A p \in Procs \ {e} : copy'[p] = copy[p] /\ pc'[p] = pc[p]
    BY <1>1, Loaded
  <2>8. QED
    BY <2>6, <2>7, ProcsParts DEF Unsaved
<1>2. CASE \A e \in Editors : \A k \in Keys : ~Load(e, k)
  <2>1. Inherits
    BY <1>2, Unloaded
  <2>2. SUFFICES ASSUME NEW e \in Editors, pc'[e] = "save"
                 PROVE  /\ ~copy'[e].failed
                        /\ copy'[e].settings \notin {Default, row'.settings}
                        /\ \A p \in Procs \ {e} : copy'[p].settings # copy'[e].settings
    BY DEF Unsaved
  <2>3. pc[e] = "save" /\ copy'[e].settings = copy[e].settings /\ ~copy'[e].failed
    BY <2>1, <2>2, ProcsParts DEF Inherits, CopyInherits, Unsaved
  <2>4. copy[e].settings \notin {Default, row.settings}
        /\ \A p \in Procs \ {e} : copy[p].settings # copy[e].settings
    BY <2>3 DEF Unsaved
  <2>5. \A p \in Procs \ {e} : copy'[p].settings # copy'[e].settings
    BY <2>1, <2>3, <2>4 DEF Inherits, CopyInherits
  <2>6. row' # Missing
    BY <2>2, TypeStep, ProcsParts DEF TypeOK
  <2>7. row'.settings # copy'[e].settings
    BY <2>1, <2>2, <2>3, <2>4, <2>6, ProcsParts DEF Inherits, RowInherits
  <2>8. QED
    BY <2>3, <2>4, <2>5, <2>7
<1>3. QED
  BY <1>1, <1>2
-----------------------------------------------------------------------------
(* OnceSynced.  The engine's index is not deleted, and the flag is set     *)
(* after a push that had one.                                              *)
LEMMA OnceSyncedStep == TypeOK /\ OnceSynced /\ [Next]_vars => OnceSynced'
<1> SUFFICES ASSUME TypeOK, OnceSynced, [Next]_vars PROVE OnceSynced'
  OBVIOUS
<1>1. engine # Missing => engine' # Missing
  <2>1. \A p \in Procs : copy[p].settings # Missing
    BY CopyFields, RowExists DEF TypeOK
  <2>2. QED
    BY <2>1, ProcsParts
       DEF Next, Create, Created, Insert, Load, EditorStep, Save, Handler, Delay,
           DelayFails, Saved, WorkerStart, TaskStart, Periodic, SyncStep, Push,
           PushFails, PushRefused, Mark, Crash, vars
<1>2. ASSUME NEW e \in Editors, Create(e) PROVE OnceSynced'
  <2>1. row' = row /\ row = Missing
        /\ \A p \in Procs : copy'[p].synced = copy[p].synced
    BY <1>2, ProcsParts DEF Create, dbVars, TypeOK, Copy
  <2>2. QED
    BY <1>1, <1>2, <2>1, ProcsParts DEF Create, Goto, OnceSynced, Marking, TypeOK
<1>3. ASSUME NEW e \in Editors, Insert(e) PROVE OnceSynced'
  BY <1>1, <1>3, NoCopyType, ProcsParts
     DEF Insert, Ends, Goto, OnceSynced, Marking, TypeOK
<1>4. ASSUME NEW e \in Editors, NEW k \in Keys, Load(e, k) PROVE OnceSynced'
  BY <1>1, <1>4, Loaded, ProcsParts DEF OnceSynced, Marking
<1>5. ASSUME NEW e \in Editors, Save(e) PROVE OnceSynced'
  <2>1. row'.synced = copy[e].synced
    BY <1>5 DEF Save
  <2>2. \A p \in Procs : copy'[p].synced = copy[p].synced
    BY <1>5, ProcsParts DEF Save, TypeOK, Copy
  <2>3. \A p \in Procs : Marking(p)' => Marking(p)
    BY <1>5, ProcsParts DEF Save, Goto, Marking, TypeOK
  <2>4. QED
    BY <1>1, <2>1, <2>2, <2>3, ProcsParts DEF OnceSynced
<1>6. ASSUME NEW e \in Editors, Handler(e) PROVE OnceSynced'
  <2>1. row # Missing /\ (row'.synced => row.synced)
    BY <1>6, ProcsParts DEF Handler, TypeOK, Row
  <2>2. QED
    BY <1>1, <1>6, <2>1, ProcsParts DEF Handler, Goto, OnceSynced, Marking, TypeOK
<1>7. ASSUME NEW e \in Editors, Delay(e) \/ DelayFails(e) \/ Saved(e) PROVE OnceSynced'
  BY <1>1, <1>7, NoCopyType, ProcsParts
     DEF Delay, DelayFails, Saved, Ends, Goto, dbVars, OnceSynced, Marking, TypeOK
<1>8. ASSUME NEW w \in Workers, WorkerStart(w) PROVE OnceSynced'
  <2>1. row # Missing /\ row \in Row /\ row' = row
    BY <1>8 DEF WorkerStart, Periodic, TaskStart, TypeOK, dbVars
  <2>2. \A p \in Procs : copy'[p].synced \in {copy[p].synced, row.synced}
    <3>1. \A n \in 0..MaxRetries : Instance(row, n).synced = row.synced
      BY <2>1, InstanceType
    <3>2. QED
      BY <1>8, <3>1, Attempts, ProcsParts DEF WorkerStart, Periodic, TaskStart, TypeOK
  <2>3. \A p \in Procs : Marking(p)' => Marking(p)
    BY <1>8, ProcsParts DEF WorkerStart, Periodic, TaskStart, Goto, Marking, TypeOK
  <2>4. QED
    BY <1>1, <2>1, <2>2, <2>3 DEF OnceSynced
<1>9. ASSUME NEW p \in Procs, Push(p) PROVE OnceSynced'
  <2>1. engine' # Missing
    BY <1>9, CopyFields, RowExists DEF Push, TypeOK
  <2>2. QED
    BY <2>1 DEF OnceSynced
<1>10. ASSUME NEW p \in Procs, Raises(p) PROVE OnceSynced'
  BY <1>1, <1>10, NoCopyType DEF Raises, Ends, Goto, dbVars, OnceSynced, Marking, TypeOK
<1>11. ASSUME NEW p \in Procs, Mark(p) PROVE OnceSynced'
  <2>1. engine # Missing
    BY <1>11 DEF Mark, OnceSynced, Marking
  <2>2. QED
    BY <1>1, <2>1 DEF OnceSynced
<1>12. ASSUME NEW p \in Procs, Crash(p) PROVE OnceSynced'
  BY <1>1, <1>12, NoCopyType DEF Crash, Ends, Goto, dbVars, OnceSynced, Marking, TypeOK
<1>13. CASE UNCHANGED vars
  BY <1>13 DEF vars, dbVars, procVars, OnceSynced, Marking
<1>14. QED
  BY <1>2, <1>3, <1>4, <1>5, <1>6, <1>7, <1>8, <1>9, <1>10, <1>11, <1>12, <1>13
     DEF Next, EditorStep, SyncStep, PushFails, PushRefused
-----------------------------------------------------------------------------
(* PushedIsMarked.  A push of older settings than the row's spoils; those  *)
(* of a save are nobody else's, so that nobody is marking them.            *)
LEMMA SpoiledStays ==
    ASSUME TypeOK, [Next]_vars, ~spoiled'
    PROVE  ~spoiled
BY DEF TypeOK, Next, Create, Insert, Load, EditorStep, Save, Handler, Delay, DelayFails,
       Saved, WorkerStart, TaskStart, Periodic, SyncStep, Push, PushFails, PushRefused,
       Mark, Crash, SpoiledIf, vars

LEMMA PushedStep ==
    TypeOK /\ OnceSynced /\ Unsaved /\ PushedIsMarked /\ [Next]_vars => PushedIsMarked'
<1> SUFFICES ASSUME TypeOK, OnceSynced, Unsaved, PushedIsMarked, [Next]_vars,
                    ~spoiled', NEW p \in Procs, Marking(p)', ~StaleCopy(p)'
             PROVE  engine' = row'.settings
  BY DEF PushedIsMarked
<1> USE DEF StaleCopy
<1>a. ~spoiled /\ (Marking(p) /\ ~StaleCopy(p) => engine = row.settings)
  BY SpoiledStays DEF PushedIsMarked
<1>1. ASSUME NEW e \in Editors, Create(e) PROVE engine' = row'.settings
  BY <1>1, ProcsParts DEF Create, Goto, Marking, TypeOK
<1>2. ASSUME NEW e \in Editors, Insert(e) PROVE engine' = row'.settings
  <2>1. p # e
    BY <1>2, ProcsParts DEF Insert, Ends, Goto, Marking, TypeOK
  <2>2. Marking(p) /\ copy'[p] = copy[p]
    BY <1>2, <2>1, ProcsParts DEF Insert, Ends, Goto, Marking, TypeOK
  <2>3. row # Missing
    BY <2>2 DEF Marking, TypeOK
  <2>4. QED
    BY <1>a, <1>2, <2>2, <2>3 DEF Insert
<1>3. ASSUME NEW e \in Editors, NEW k \in Keys, Load(e, k) PROVE engine' = row'.settings
  BY <1>a, <1>3, Loaded DEF Marking, Load
<1>4. ASSUME NEW e \in Editors, Save(e) PROVE engine' = row'.settings
  <2>1. p # e /\ copy'[p] = copy[p]
    BY <1>4, ProcsParts DEF Save, Goto, Marking, TypeOK
  <2>2. copy[p].settings # copy[e].settings
    BY <1>4, <2>1, ProcsParts DEF Unsaved, Save
  <2>3. QED
    BY <1>4, <2>1, <2>2 DEF Save
<1>5. ASSUME NEW e \in Editors, Handler(e) PROVE engine' = row'.settings
  <2>1. row # Missing /\ row'.settings = row.settings /\ Marking(p) /\ copy' = copy
        /\ engine' = engine
    BY <1>5, ProcsParts DEF Handler, Goto, Marking, TypeOK, Row
  <2>2. QED
    BY <1>a, <2>1
<1>6. ASSUME NEW e \in Editors, Delay(e) \/ DelayFails(e) \/ Saved(e)
      PROVE  engine' = row'.settings
  <2>1. row' = row /\ engine' = engine /\ Marking(p) /\ copy'[p] = copy[p]
    BY <1>6, ProcsParts
       DEF Delay, DelayFails, Saved, Ends, Goto, dbVars, Marking, TypeOK
  <2>2. QED
    BY <1>a, <2>1
<1>7. ASSUME NEW w \in Workers, WorkerStart(w) PROVE engine' = row'.settings
  <2>1. row' = row /\ engine' = engine /\ Marking(p) /\ copy'[p] = copy[p]
    BY <1>7, ProcsParts
       DEF WorkerStart, Periodic, TaskStart, Goto, dbVars, Marking, TypeOK
  <2>2. QED
    BY <1>a, <2>1
<1>8. ASSUME NEW q \in Procs, Push(q) PROVE engine' = row'.settings
  BY <1>8 DEF Push, SpoiledIf, dbVars
<1>9. ASSUME NEW q \in Procs, PushFails(q) \/ PushRefused(q)
      PROVE  engine' = row'.settings
  <2>1. row' = row /\ Marking(p) /\ copy'[p] = copy[p]
    BY <1>9 DEF PushFails, PushRefused, Raises, Ends, Goto, dbVars, Marking, TypeOK
  <2>2. engine' = engine \/ engine' = row.settings
    BY <1>9 DEF PushFails, PushRefused, SpoiledIf
  <2>3. QED
    BY <1>a, <2>1, <2>2
<1>10. ASSUME NEW q \in Procs, Mark(q) PROVE engine' = row'.settings
  <2>1. row'.settings = row.settings /\ engine' = engine
    BY <1>10 DEF Mark, TypeOK, Row
  <2>2. engine = row.settings
    BY <1>10, SpoiledStays DEF Mark, SpoiledIf, Marking, PushedIsMarked
  <2>3. QED
    BY <2>1, <2>2
<1>11. ASSUME NEW q \in Procs, Crash(q) PROVE engine' = row'.settings
  <2>1. row' = row /\ engine' = engine /\ Marking(p) /\ copy'[p] = copy[p]
    BY <1>11 DEF Crash, Ends, Goto, dbVars, Marking, TypeOK
  <2>2. QED
    BY <1>a, <2>1
<1>12. CASE UNCHANGED vars
  BY <1>a, <1>12 DEF vars, dbVars, procVars, Marking
<1>13. QED
  BY <1>1, <1>2, <1>3, <1>4, <1>5, <1>6, <1>7, <1>8, <1>9, <1>10, <1>11, <1>12
     DEF Next, EditorStep, SyncStep

-----------------------------------------------------------------------------
(* SomebodyOnDuty.  A step either leaves the truth of the flag and who is  *)
(* on duty, or makes the flag true, or hands the duty on, or spoils.       *)
LEMMA DutyStep ==
    IndInv /\ [Next]_vars => SomebodyOnDuty'
<1> SUFFICES ASSUME IndInv, [Next]_vars, ~spoiled'
             PROVE  FlagIsTrue' \/ \E e \in Editors : OnDuty(e)'
  BY DEF SomebodyOnDuty
<1> DEFINE Goal == FlagIsTrue' \/ \E e \in Editors : OnDuty(e)'
<1> USE DEF StaleCopy
<1>a. /\ TypeOK /\ OnceSynced /\ Unsaved /\ PushedIsMarked /\ ~spoiled
      /\ FlagIsTrue \/ \E e \in Editors : OnDuty(e)
  BY SpoiledStays DEF IndInv, SomebodyOnDuty
\* The steps that leave row, engine and everybody on duty.
<1>b. ASSUME UNCHANGED <<row, engine, autoSync>>,
             \A e \in Editors : OnDuty(e) => copy'[e] = copy[e] /\ pc'[e] = pc[e]
      PROVE  Goal
  BY <1>a, <1>b DEF FlagIsTrue, OnDuty
\* The steps after which the engine has the settings of the row.
<1>c. ASSUME engine' = row'.settings PROVE Goal
  BY <1>c DEF FlagIsTrue
<1>1. ASSUME NEW e \in Editors, Create(e) PROVE Goal
  BY <1>1 DEF Create, FlagIsTrue, dbVars
<1>2. ASSUME NEW e \in Editors, Insert(e) PROVE Goal
  <2>1. CASE row = Missing
    BY <1>2, <2>1 DEF Insert, FlagIsTrue
  <2>2. CASE row # Missing
    BY <1>a, <1>b, <1>2, <2>2, ProcsParts
       DEF Insert, Ends, Goto, OnDuty, config, TypeOK
  <2>3. QED
    BY <2>1, <2>2
<1>3. ASSUME NEW e \in Editors, NEW k \in Keys, Load(e, k) PROVE Goal
  <2>1. \A d \in Editors : OnDuty(d) => d # e
    BY <1>3 DEF Load, OnDuty
  <2>2. QED
    BY <1>a, <1>b, <1>3, <2>1, Loaded, ProcsParts DEF Load, config, dbVars
<1>4. ASSUME NEW e \in Editors, Save(e) PROVE Goal
  <2>1. /\ row'.settings = copy[e].settings /\ row'.synced = copy[e].synced
        /\ autoSync' = autoSync /\ ~copy[e].failed
    BY <1>a, <1>4 DEF Save, config, Unsaved
  <2>2. /\ copy'[e].settings = copy[e].settings /\ copy'[e].synced = copy[e].synced
        /\ copy'[e].failed = copy[e].failed
        /\ pc'[e] = IF autoSync THEN "handler" ELSE "saved"
    BY <1>a, <1>4, ProcsParts DEF Save, Goto, TypeOK, Copy
  <2>3. row'.synced => OnDuty(e)'
    BY <1>a, <2>1, <2>2 DEF OnDuty, TypeOK
  <2>4. QED
    BY <2>3 DEF FlagIsTrue
<1>5. ASSUME NEW e \in Editors, Handler(e) PROVE Goal
  <2>1. CASE copy[e].synced
    <3>1. row # Missing /\ row'.synced = FALSE
      BY <1>a, <1>5, <2>1, ProcsParts DEF Handler, TypeOK, Row
    <3>2. QED
      BY <3>1 DEF FlagIsTrue
  <2>2. CASE ~copy[e].synced
    <3>1. \A d \in Editors : OnDuty(d) => d # e
      BY <1>5, <2>2 DEF Handler, OnDuty
    <3>2. QED
      BY <1>a, <1>b, <1>5, <2>2, <3>1, ProcsParts DEF Handler, Goto, config, TypeOK
  <2>3. QED
    BY <2>1, <2>2
<1>6. ASSUME NEW e \in Editors, Delay(e) \/ DelayFails(e) PROVE Goal
  BY <1>a, <1>b, <1>6, ProcsParts
     DEF Delay, DelayFails, Goto, OnDuty, config, dbVars, TypeOK
<1>7. ASSUME NEW e \in Editors, Saved(e) PROVE Goal
  <2>1. UNCHANGED <<row, engine, autoSync>>
        /\ \A d \in Editors \ {e} : copy'[d] = copy[d] /\ pc'[d] = pc[d]
    BY <1>a, <1>7, ProcsParts DEF Saved, Ends, Goto, config, dbVars, TypeOK
  <2>2. OnDuty(e) => OnDuty(e)'
    BY <1>a, <1>7, <2>1, ProcsParts DEF Saved, Goto, OnDuty, TypeOK
  <2>3. QED
    BY <1>a, <2>1, <2>2 DEF FlagIsTrue, OnDuty
<1>8. ASSUME NEW w \in Workers, WorkerStart(w) PROVE Goal
  BY <1>a, <1>b, <1>8, ProcsParts
     DEF WorkerStart, Periodic, TaskStart, Goto, config, dbVars, TypeOK
<1>9. ASSUME NEW p \in Procs, Push(p) PROVE Goal
  BY <1>c, <1>9 DEF Push, SpoiledIf, dbVars
<1>10. ASSUME NEW p \in Procs, PushFails(p) \/ PushRefused(p) PROVE Goal
  <2>1. UNCHANGED <<row, autoSync>>
        /\ \A q \in Procs \ {p} : copy'[q] = copy[q] /\ pc'[q] = pc[q]
    BY <1>a, <1>10 DEF PushFails, PushRefused, Raises, Ends, Goto, config, dbVars, TypeOK
  <2>2. CASE engine' = row.settings
    BY <1>c, <2>1, <2>2
  <2>3. CASE engine' # row.settings
    <3>1. engine' = engine
      BY <1>10, <2>3 DEF PushFails, PushRefused, SpoiledIf
    <3>2. p \in Editors /\ OnDuty(p) => row = Missing \/ ~row.synced
      BY <1>a, <1>10
         DEF PushFails, PushRefused, SpoiledIf, Pushing, Refused, OnDuty, OnceSynced
    <3>3. QED
      BY <1>a, <1>b, <2>1, <3>1, <3>2, ProcsParts DEF FlagIsTrue
  <2>4. QED
    BY <2>2, <2>3
<1>11. ASSUME NEW p \in Procs, Mark(p) PROVE Goal
  <2>1. row'.settings = row.settings /\ engine' = engine
    BY <1>a, <1>11 DEF Mark, TypeOK, Row
  <2>2. engine = row.settings
    BY <1>a, <1>11 DEF Mark, SpoiledIf, Marking, PushedIsMarked
  <2>3. QED
    BY <1>c, <2>1, <2>2
<1>12. ASSUME NEW p \in Procs, Crash(p) PROVE Goal
  <2>1. UNCHANGED <<row, engine, autoSync>>
        /\ \A q \in Procs \ {p} : copy'[q] = copy[q] /\ pc'[q] = pc[q]
    BY <1>a, <1>12 DEF Crash, Ends, Goto, config, dbVars, TypeOK
  <2>2. p \in Editors /\ OnDuty(p) => row = Missing \/ ~row.synced
    BY <1>12 DEF Crash, SpoiledIf, OnDuty
  <2>3. QED
    BY <1>a, <1>b, <2>1, <2>2, ProcsParts DEF FlagIsTrue
<1>13. CASE UNCHANGED vars
  BY <1>b, <1>13 DEF vars, config, dbVars, procVars
<1>14. QED
  BY <1>1, <1>2, <1>3, <1>4, <1>5, <1>6, <1>7, <1>8, <1>9, <1>10, <1>11, <1>12, <1>13
     DEF Next, EditorStep, SyncStep

-----------------------------------------------------------------------------
(* At rest, is_synced is true of the engine unless one of the recorded     *)
(* events has happened (mark_synced, the handler's reset of the flag and   *)
(* the save of the whole instance in models/indexes.py, handlers.py).      *)
THEOREM FlagHolds == Spec => []FlagIsTrueOrRecorded
<1>1. Init => IndInv
  <2> SUFFICES ASSUME Init PROVE IndInv
    OBVIOUS
  <2>1. TypeOK /\ CreatorsFresh /\ EditsKept
    BY TypeInit, KeptInit
  <2>2. Numbered
    BY NoCopyType, SettingsAssumption DEF Init, Numbered, NotNewer, Default
  <2>3. Unsaved /\ OnceSynced /\ PushedIsMarked /\ SomebodyOnDuty
    BY NoCopyType, ProcsParts
       DEF Init, Unsaved, OnceSynced, PushedIsMarked, Marking, SomebodyOnDuty, FlagIsTrue
  <2>4. QED
    BY <2>1, <2>2, <2>3 DEF IndInv
<1>2. IndInv /\ [Next]_vars => IndInv'
  BY TypeStep, KeptStep, NumberedStep, UnsavedStep, OnceSyncedStep, PushedStep, DutyStep
     DEF IndInv
<1>3. IndInv => FlagIsTrueOrRecorded
  BY ProcsParts DEF IndInv, FlagIsTrueOrRecorded, SomebodyOnDuty, OnDuty, Quiet
<1>4. QED
  BY <1>1, <1>2, <1>3, PTL DEF Spec
=============================================================================
