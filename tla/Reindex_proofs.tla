--------------------------- MODULE Reindex_proofs ---------------------------
(***************************************************************************)
(* Proofs about Reindex: the state is well typed; log rows are completed;  *)
(* no half-built index is ever live; and a reindex that reports success    *)
(* has rebuilt the index.                                                  *)
(***************************************************************************)
EXTENDS Reindex, FiniteSetTheorems, TLAPS

Engines == {e \in [{"live", "temp"} -> Index] : e["live"] # NoIndex}

(* Indexes.                                                                *)
LEMMA FilledIsIndex ==
    ASSUME NEW f \in [Docs -> Ver]
    PROVE  f \in Index /\ f # NoIndex /\ Existing(f) = f
<1>1. f \in [Docs -> Nat]
  BY SettingsAssumption DEF Ver
<1>2. QED
  BY <1>1, MissingAssumption DEF Index, Existing

LEMMA ExistingType ==
    ASSUME NEW index \in Index
    PROVE  Existing(index) \in [Docs -> Ver]
<1>1. Empty \in [Docs -> Ver]
  BY SettingsAssumption DEF Empty, Ver
<1>2. QED
  BY <1>1 DEF Index, Existing

LEMMA EmptyType == Empty \in [Docs -> Ver] /\ Empty \in Index /\ Empty # NoIndex
<1>1. Empty \in [Docs -> Ver]
  BY SettingsAssumption DEF Empty, Ver
<1>2. QED
  BY <1>1, FilledIsIndex

(* What an index holds after operations were applied to it.                *)
LEMMA WithAt ==
    ASSUME NEW index \in Index, NEW ops \in SUBSET Content, NEW d \in Docs
    PROVE  \/ \E op \in ops : op.doc = d /\ With(index, ops)[d] = op.ver
           \/ /\ \A op \in ops : op.doc # d
              /\ With(index, ops)[d] = Existing(index)[d]
<1>1. CASE \E op \in ops : op.doc = d
  <2>1. With(index, ops)[d] = (CHOOSE op \in ops : op.doc = d).ver
    BY <1>1 DEF With
  <2>2. /\ (CHOOSE op \in ops : op.doc = d) \in ops
        /\ (CHOOSE op \in ops : op.doc = d).doc = d
    BY <1>1
  <2>3. QED
    BY <2>1, <2>2
<1>2. CASE \A op \in ops : op.doc # d
  BY <1>2 DEF With
<1>3. QED
  BY <1>1, <1>2

LEMMA WithType ==
    ASSUME NEW index \in Index, NEW ops \in SUBSET Content
    PROVE  /\ With(index, ops) \in [Docs -> Ver]
           /\ With(index, ops) \in Index /\ With(index, ops) # NoIndex
           /\ Existing(With(index, ops)) = With(index, ops)
<1>1. ASSUME NEW d \in Docs
      PROVE  With(index, ops)[d] \in Ver
  <2>1. \A op \in ops : op.ver \in Ver
    BY DEF Content
  <2>2. Existing(index)[d] \in Ver
    BY ExistingType
  <2>3. QED
    BY <2>1, <2>2, WithAt
<1>2. With(index, ops) \in [Docs -> Ver]
  BY <1>1 DEF With
<1>3. QED
  BY <1>2, FilledIsIndex

(* The parts of a batch are parts of what is left to send.                 *)
LEMMA BatchType == \A ops : \A b \in BatchesOf(ops) : b \in SUBSET ops
BY DEF BatchesOf

(* The rows that are there.                                                *)
LEMMA QuerysetType ==
    ASSUME rows \in [Docs -> Ver]
    PROVE  /\ Queryset \in SUBSET Content
           /\ \A op \in Queryset : op.doc \in Docs /\ op.ver = rows[op.doc]
           /\ \A d \in Docs : rows[d] # 0 => \E op \in Queryset : op.doc = d
<1>1. \A d \in Docs : Row(d) \in Content /\ Row(d).doc = d /\ Row(d).ver = rows[d]
  BY DEF Row, Content
<1>2. \A d \in Docs : rows[d] # 0 => rows[d] > 0
  BY SettingsAssumption DEF Ver
<1>3. QED
  BY <1>1, <1>2 DEF Queryset

(* Indexes that are put in place.                                          *)
LEMMA EngineUpdate ==
    ASSUME NEW e \in Engines
    PROVE  /\ \A f \in Index : /\ [e EXCEPT !["temp"] = f] \in Engines
                               /\ [e EXCEPT !["temp"] = f]["temp"] = f
                               /\ [e EXCEPT !["temp"] = f]["live"] = e["live"]
           /\ \A f \in Index : f # NoIndex =>
                /\ [e EXCEPT !["live"] = f] \in Engines
                /\ [e EXCEPT !["live"] = f]["live"] = f
                /\ [e EXCEPT !["live"] = f]["temp"] = e["temp"]
BY DEF Engines

LEMMA SwappedType ==
    ASSUME engine \in Engines
    PROVE  /\ Swapped \in Engines
           /\ Swapped["live"] = Existing(engine["temp"])
           /\ Swapped["temp"] = engine["live"]
<1>1. engine["live"] \in Index /\ engine["temp"] \in Index
  BY DEF Engines
<1>2. Existing(engine["temp"]) \in Index /\ Existing(engine["temp"]) # NoIndex
  BY <1>1, ExistingType, FilledIsIndex
<1>3. Swapped \in [{"live", "temp"} -> Index]
  BY <1>1, <1>2 DEF Swapped
<1>4. /\ Swapped["live"] = Existing(engine["temp"])
      /\ Swapped["temp"] = engine["live"]
  BY DEF Swapped
<1>5. QED
  BY <1>2, <1>3, <1>4 DEF Engines

LEMMA CreatedType ==
    ASSUME engine \in Engines
    PROVE  /\ Created \in Engines
           /\ Created["live"] = engine["live"]
           /\ Created["temp"] = IF backend.create = "empty" THEN Empty
                                ELSE Existing(engine["temp"])
<1>1. Existing(engine["temp"]) \in Index
  BY ExistingType, FilledIsIndex DEF Engines
<1>2. QED
  BY <1>1, EmptyType, EngineUpdate DEF Created

(* The bound on faults is kept.                                            *)
LEMMA FaultType ==
    ASSUME faults \in 0..MaxFaults, Fault
    PROVE  faults' \in 0..MaxFaults
BY SettingsAssumption DEF Fault

LEMMA DeleteTempType ==
    ASSUME engine \in Engines, faults \in 0..MaxFaults, DeleteTemp
    PROVE  /\ engine' \in Engines /\ faults' \in 0..MaxFaults
           /\ engine'["live"] = engine["live"]
           /\ engine'["temp"] \in {engine["temp"], NoIndex}
<1>1. NoIndex \in Index
  BY DEF Index
<1>2. CASE engine' = [engine EXCEPT !["temp"] = NoIndex] /\ UNCHANGED faults
  BY <1>1, <1>2, EngineUpdate
<1>3. CASE Fault /\ UNCHANGED engine
  BY <1>3, FaultType DEF Engines
<1>4. QED
  BY <1>2, <1>3 DEF DeleteTemp

-----------------------------------------------------------------------------
(* Types, action by action.                                                *)
Labels == {"idle", "create", "query", "populate", "swap", "drop", "cleanup",
           "undo", "clear", "queryall", "index"}

(* Where an exception leaves reindex_all.                                  *)
LEMMA LeavesType ==
    ASSUME StateOK, NEW r \in Runners, Leaves(r)
    PROVE  /\ pc' \in [Runners -> Labels]
           /\ outcome' \in [Runners -> {"none", "running", "success", "failed"}]
           /\ outcome' \in {outcome, [outcome EXCEPT ![r] = "failed"]}
           /\ pc'[r] = IF inner[r] THEN "cleanup" ELSE "idle"
           /\ \A q \in Runners \ {r} : pc'[q] = pc[q]
<1>1. CASE inner[r]
  BY <1>1 DEF StateOK, Leaves, Goto, Labels
<1>2. CASE ~inner[r]
  BY <1>2 DEF StateOK, Leaves, Goto, Labels
<1>3. QED
  BY <1>1, <1>2

LEMMA StateInit == Init => StateOK
<1> SUFFICES ASSUME Init PROVE StateOK
  OBVIOUS
<1>1. rows \in [Docs -> Ver] /\ commits \in Ver
  BY SettingsAssumption DEF Init, Ver
<1>2. rows \in Index /\ rows # NoIndex
  BY <1>1, FilledIsIndex
<1>3. engine \in [{"live", "temp"} -> Index] /\ engine["live"] # NoIndex
  BY <1>2 DEF Init, Index
<1>4. runs \in 0..MaxRuns /\ faults \in 0..MaxFaults
  BY SettingsAssumption DEF Init
<1>5. QED
  BY <1>1, <1>3, <1>4 DEF Init, StateOK

LEMMA StateStep == StateOK /\ [Next]_vars => StateOK'
<1> SUFFICES ASSUME StateOK, [Next]_vars
             PROVE  StateOK'
  OBVIOUS
<1>0. engine \in Engines /\ engine["live"] \in Index /\ engine["temp"] \in Index
  BY DEF StateOK, Engines
<1>1. ASSUME NEW w \in Writers, NEW d \in Docs, NEW v \in Ver, Commit(w, d, v)
      PROVE  StateOK'
  <2>1. commits' \in Ver
    BY <1>1, SettingsAssumption DEF StateOK, Commit, Ver
  <2>2. rows' \in [Docs -> Ver] /\ changed' \in SUBSET Docs
    BY <1>1 DEF StateOK, Commit
  <2>3. writing' \in [Writers -> Content \cup {Nothing}]
    <3>1. [doc |-> d, ver |-> v] \in Content
      BY DEF Content
    <3>2. QED
      BY <1>1, <3>1 DEF StateOK, Commit
  <2>4. touched' \in [Runners -> SUBSET Docs]
    BY <1>1 DEF StateOK, Commit
  <2>5. QED
    BY <1>1, <2>1, <2>2, <2>3, <2>4 DEF StateOK, Commit, reindexVars, boundVars
<1>2. ASSUME NEW w \in Writers, Write(w)
      PROVE  StateOK'
  <2>1. {writing[w]} \in SUBSET Content
    BY <1>2 DEF StateOK, Write
  <2>2. engine' \in Engines /\ faults' \in 0..MaxFaults
    <3>1. CASE engine' = [engine EXCEPT !["live"] = With(@, {writing[w]})]
               /\ UNCHANGED faults
      BY <1>0, <2>1, <3>1, WithType, EngineUpdate DEF StateOK
    <3>2. CASE Fault /\ UNCHANGED engine
      BY <1>0, <3>2, FaultType DEF StateOK
    <3>3. QED
      BY <1>2, <3>1, <3>2 DEF Write
  <2>3. writing' \in [Writers -> Content \cup {Nothing}]
    BY <1>2 DEF StateOK, Write
  <2>4. QED
    BY <1>2, <2>2, <2>3 DEF StateOK, Engines, Write, reindexVars
<1>3. ASSUME NEW r \in Runners, NEW label \in Labels, Start(r, label)
      PROVE  StateOK'
  <2>1. runs' \in 0..MaxRuns
    BY <1>3, SettingsAssumption DEF StateOK, Start
  <2>2. overlap' \in BOOLEAN
    BY <1>3 DEF StateOK, Start
  <2>3. QED
    BY <1>3, <2>1, <2>2 DEF StateOK, Start, Goto, Labels
<1>4. ASSUME NEW r \in Runners, Create(r)
      PROVE  StateOK'
  <2>1. engine' \in Engines
    BY <1>0, <1>4, CreatedType DEF Create
  <2>2. pc' \in [Runners -> Labels] /\ fresh' \in [Runners -> BOOLEAN]
    BY <1>4 DEF StateOK, Create, Goto, Labels
  <2>3. QED
    BY <1>4, <2>1, <2>2 DEF StateOK, Engines, Labels, Create, boundVars
<1>5. ASSUME NEW r \in Runners, Query(r)
      PROVE  StateOK'
  <2>1. Queryset \in SUBSET Content
    BY QuerysetType DEF StateOK
  <2>2. BeingWritten \in SUBSET Docs
    BY DEF StateOK, BeingWritten, Content
  <2>3. /\ todo' \in [Runners -> SUBSET Content]
        /\ touched' \in [Runners -> SUBSET Docs]
    BY <1>5, <2>1, <2>2 DEF StateOK, Query
  <2>4. pc' \in [Runners -> Labels]
    BY <1>5 DEF StateOK, Query, Goto, Labels
  <2>5. QED
    BY <1>5, <2>3, <2>4 DEF StateOK, Labels, Query, boundVars
<1>6. ASSUME NEW r \in Runners, Populate(r)
      PROVE  StateOK'
  <2>1. PICK b \in BatchesOf(todo[r]) :
          /\ engine' = [engine EXCEPT !["temp"] = With(@, b)]
          /\ todo' = [todo EXCEPT ![r] = @ \ b]
          /\ Goto(r, IF todo[r] = b THEN "swap" ELSE "populate")
    BY <1>6 DEF Populate
  <2>2. b \in SUBSET Content
    BY BatchType DEF StateOK
  <2>3. engine' \in Engines
    BY <1>0, <2>1, <2>2, WithType, EngineUpdate
  <2>4. pc' \in [Runners -> Labels] /\ todo' \in [Runners -> SUBSET Content]
    BY <2>1 DEF StateOK, Goto, Labels
  <2>5. QED
    BY <1>6, <2>3, <2>4 DEF StateOK, Engines, Labels, Populate, boundVars
<1>7. ASSUME NEW r \in Runners, Swap(r)
      PROVE  StateOK'
  <2>1. engine' \in Engines
    BY <1>0, <1>7, SwappedType DEF Swap
  <2>2. pc' \in [Runners -> Labels]
    BY <1>7 DEF StateOK, Swap, Goto, Labels
  <2>3. QED
    BY <1>7, <2>1, <2>2 DEF StateOK, Engines, Labels, Swap, boundVars
<1>8. ASSUME NEW r \in Runners, NEW result \in {"success", "failed"}, Ends(r, result)
      PROVE  /\ pc' \in [Runners -> Labels]
             /\ outcome' \in [Runners -> {"none", "running", "success", "failed"}]
  BY <1>8 DEF StateOK, Ends, Goto, Labels
<1>9. ASSUME NEW r \in Runners, Drop(r) \/ Cleanup(r)
      PROVE  StateOK'
  <2>1. engine' \in Engines /\ faults' \in 0..MaxFaults
    BY <1>0, <1>9, DeleteTempType DEF StateOK, Drop, Cleanup
  <2>2. /\ pc' \in [Runners -> Labels]
        /\ outcome' \in [Runners -> {"none", "running", "success", "failed"}]
    BY <1>8, <1>9 DEF Drop, Cleanup
  <2>3. QED
    BY <1>9, <2>1, <2>2 DEF StateOK, Engines, Labels, Drop, Cleanup
<1>10. ASSUME NEW r \in Runners, Fails(r)
       PROVE  StateOK'
  <2>1. engine' \in Engines
    <3>1. ASSUME NEW b \in BatchesOf(todo[r]),
                 engine' = [engine EXCEPT !["temp"] = With(@, b)]
          PROVE  engine' \in Engines
      <4>1. b \in SUBSET Content
        BY BatchType DEF StateOK
      <4>2. QED
        BY <1>0, <3>1, <4>1, WithType, EngineUpdate
    <3>2. CASE engine' \in {engine, Created, Swapped}
      BY <1>0, <3>2, CreatedType, SwappedType
    <3>3. QED
      BY <1>10, <3>1, <3>2 DEF Fails
  <2>2. /\ pc' \in [Runners -> Labels] /\ todo' \in [Runners -> SUBSET Content]
        /\ faults' \in 0..MaxFaults
    BY <1>10, FaultType DEF StateOK, Fails, Goto, Labels
  <2>3. QED
    BY <1>10, <2>1, <2>2 DEF StateOK, Engines, Labels, Fails
<1>11. ASSUME NEW r \in Runners, Undo(r)
       PROVE  StateOK'
  <2>1. engine' \in Engines /\ faults' \in 0..MaxFaults
    BY <1>0, <1>11, DeleteTempType DEF StateOK, Undo
  <2>2. pc' \in [Runners -> Labels] /\ inner' \in [Runners -> BOOLEAN]
    BY <1>11 DEF StateOK, Undo, Goto, Labels
  <2>3. QED
    BY <1>11, <2>1, <2>2 DEF StateOK, Engines, Labels, Undo
<1>12. ASSUME NEW r \in Runners, Clear(r)
       PROVE  StateOK'
  <2>1. engine' \in Engines
    BY <1>0, <1>12, EmptyType, EngineUpdate DEF Clear
  <2>2. faults' \in 0..MaxFaults
    BY <1>12, FaultType DEF StateOK, Clear
  <2>3. fresh' \in [Runners -> BOOLEAN]
    BY <1>12 DEF StateOK, Clear
  <2>4. BeingWritten \in SUBSET Docs
    BY DEF StateOK, BeingWritten, Content
  <2>5. touched' \in [Runners -> SUBSET Docs] /\ pc' \in [Runners -> Labels]
    BY <1>12, <2>4 DEF StateOK, Clear, Goto, Labels
  <2>6. QED
    BY <1>12, <2>1, <2>2, <2>3, <2>5 DEF StateOK, Engines, Labels, Clear
<1>13. ASSUME NEW r \in Runners, QueryAll(r)
       PROVE  StateOK'
  <2>1. Queryset \in SUBSET Content
    BY QuerysetType DEF StateOK
  <2>2. todo' \in [Runners -> SUBSET Content] /\ pc' \in [Runners -> Labels]
    BY <1>13, <2>1 DEF StateOK, QueryAll, Goto, Labels
  <2>3. QED
    BY <1>13, <2>2 DEF StateOK, Labels, QueryAll, boundVars
<1>14. ASSUME NEW r \in Runners, NEW b \in BatchesOf(todo[r]),
              engine' = [engine EXCEPT !["live"] = With(@, b)]
       PROVE  engine' \in Engines
  <2>1. b \in SUBSET Content
    BY BatchType DEF StateOK
  <2>2. QED
    BY <1>0, <1>14, <2>1, WithType, EngineUpdate
<1>15. ASSUME NEW r \in Runners, IndexBatch(r)
       PROVE  StateOK'
  <2>1. engine' \in Engines
    BY <1>14, <1>15 DEF IndexBatch
  <2>2. todo' \in [Runners -> SUBSET Content]
    BY <1>15 DEF StateOK, IndexBatch
  <2>3. QED
    BY <1>15, <2>1, <2>2 DEF StateOK, Engines, IndexBatch, boundVars
<1>16. ASSUME NEW r \in Runners, FinishAll(r)
       PROVE  StateOK'
  BY <1>8, <1>16 DEF StateOK, Labels, FinishAll, boundVars
<1>17. ASSUME NEW r \in Runners, IndexFails(r)
       PROVE  StateOK'
  <2>1. engine' \in Engines
    BY <1>0, <1>14, <1>17 DEF IndexFails
  <2>2. todo' \in [Runners -> SUBSET Content] /\ faults' \in 0..MaxFaults
    BY <1>17, FaultType DEF StateOK, IndexFails
  <2>3. /\ pc' \in [Runners -> Labels]
        /\ outcome' \in [Runners -> {"none", "running", "success", "failed"}]
    BY <1>17, LeavesType DEF IndexFails
  <2>4. QED
    BY <1>17, <2>1, <2>2, <2>3 DEF StateOK, Engines, Labels, IndexFails
<1>18. ASSUME NEW r \in Runners, Crash(r)
       PROVE  StateOK'
  <2>1. faults' \in 0..MaxFaults
    BY <1>18, FaultType DEF StateOK, Crash
  <2>2. QED
    BY <1>18, <2>1 DEF StateOK, Crash, Goto
<1>19. CASE UNCHANGED vars
  BY <1>19 DEF StateOK, vars, reindexVars, boundVars
<1>20. ASSUME NEW r \in Runners, MarkFails(r)
       PROVE  StateOK'
  <2>1. NoIndex \in Index
    BY DEF Index
  <2>2. engine' \in Engines /\ faults' \in 0..MaxFaults
    BY <1>0, <1>20, <2>1, EngineUpdate, FaultType DEF StateOK, MarkFails
  <2>3. /\ pc' \in [Runners -> Labels]
        /\ outcome' \in [Runners -> {"none", "running", "success", "failed"}]
    BY <1>20 DEF StateOK, MarkFails, Goto, Labels
  <2>4. QED
    BY <1>20, <2>2, <2>3 DEF StateOK, Engines, Labels, MarkFails
<1>21. ASSUME NEW r \in Runners, ClearRaises(r)
       PROVE  StateOK'
  <2>1. engine' \in Engines /\ faults' \in 0..MaxFaults
    BY <1>0, <1>21, EmptyType, EngineUpdate, FaultType DEF StateOK, ClearRaises
  <2>2. /\ pc' \in [Runners -> Labels]
        /\ outcome' \in [Runners -> {"none", "running", "success", "failed"}]
    BY <1>21, LeavesType DEF ClearRaises
  <2>3. QED
    BY <1>21, <2>1, <2>2 DEF StateOK, Engines, Labels, ClearRaises
<1>22. ASSUME NEW r \in Runners, AllRaises(r)
       PROVE  StateOK'
  <2>1. engine' \in Engines
    BY <1>0, <1>14, <1>22 DEF AllRaises
  <2>2. todo' \in [Runners -> SUBSET Content] /\ faults' \in 0..MaxFaults
    BY <1>22, FaultType DEF StateOK, AllRaises
  <2>3. /\ pc' \in [Runners -> Labels]
        /\ outcome' \in [Runners -> {"none", "running", "success", "failed"}]
    BY <1>22, LeavesType DEF AllRaises
  <2>4. QED
    BY <1>22, <2>1, <2>2, <2>3 DEF StateOK, Engines, Labels, AllRaises
<1>23. ASSUME NEW r \in Runners, ZeroDowntimeStep(r)
       PROVE  StateOK'
  BY <1>3, <1>4, <1>5, <1>6, <1>7, <1>9, <1>10, <1>11, <1>23, <1>20
     DEF ZeroDowntimeStep, StartZeroDowntime, Labels
<1>24. ASSUME NEW r \in Runners, AllStep(r)
       PROVE  StateOK'
  BY <1>3, <1>12, <1>13, <1>15, <1>16, <1>17, <1>24, <1>21, <1>22
     DEF AllStep, StartAll, Labels
<1>25. QED
  BY <1>1, <1>2, <1>18, <1>19, <1>23, <1>24 DEF Next

-----------------------------------------------------------------------------
(* What is left to send.                                                   *)

(* Sending ops brings index to db, on the documents of S.                  *)
Completes(ops, index, db, S) ==
    \A d \in S :
        /\ \A op \in ops : op.doc = d => op.ver = db[d]
        /\ (\E op \in ops : op.doc = d) \/ index[d] = db[d]

LEMMA CompletesLess ==
    ASSUME NEW ops, NEW index, NEW new, NEW db, NEW rs, NEW S, NEW T \in SUBSET S,
           Completes(ops, index, db, S),
           \A d \in T : rs[d] = db[d] /\ new[d] = index[d]
    PROVE  Completes(ops, new, rs, T)
BY DEF Completes

(* A batch that was sent need not be sent again.                           *)
LEMMA CompletesSent ==
    ASSUME NEW index \in Index, NEW ops \in SUBSET Content, NEW b \in SUBSET ops,
           NEW db, NEW S \in SUBSET Docs, Completes(ops, Existing(index), db, S)
    PROVE  Completes(ops \ b, With(index, b), db, S)
<1> SUFFICES ASSUME NEW d \in S,
                    ~ \E op \in ops \ b : op.doc = d
             PROVE  With(index, b)[d] = db[d]
  BY DEF Completes
<1>1. b \in SUBSET Content
  OBVIOUS
<1>2. CASE \E op \in b : op.doc = d /\ With(index, b)[d] = op.ver
  BY <1>2 DEF Completes
<1>3. CASE /\ \A op \in b : op.doc # d
           /\ With(index, b)[d] = Existing(index)[d]
  BY <1>3 DEF Completes
<1>4. QED
  BY <1>1, <1>2, <1>3, WithAt

(* The rows complete an index that has nothing else.                       *)
LEMMA CompletesQueryset ==
    ASSUME rows \in [Docs -> Ver], NEW index, NEW S \in SUBSET Docs,
           \A d \in S : index[d] \in {0, rows[d]}
    PROVE  Completes(Queryset, index, rows, S)
BY QuerysetType DEF Completes

(* While reindexes have not overlapped, one runs at a time.                *)
Alone == ~overlap => \A q, r \in Runners : pc[q] # "idle" /\ pc[r] # "idle" => q = r

(* What runs goes to swap when everything was sent.                        *)
AllSent == \A r \in Runners : pc[r] = "swap" => todo[r] = {}

(* A step of a reindex that is running.                                    *)
Running(r) ==
    \/ Create(r) \/ Query(r) \/ Populate(r) \/ Swap(r) \/ Drop(r) \/ Fails(r)
    \/ Cleanup(r) \/ MarkFails(r) \/ Undo(r) \/ Clear(r) \/ ClearRaises(r)
    \/ QueryAll(r) \/ IndexBatch(r) \/ FinishAll(r) \/ IndexFails(r) \/ AllRaises(r)
    \/ Crash(r)

LEMMA RunningStep ==
    ASSUME StateOK, NEW r \in Runners, Running(r)
    PROVE  /\ pc[r] # "idle" /\ overlap' = overlap
           /\ \A q \in Runners \ {r} : pc'[q] = pc[q]
<1>1. /\ Create(r) \/ Query(r) \/ Swap(r) \/ Undo(r) \/ Clear(r) \/ QueryAll(r)
           \/ IndexBatch(r) \/ Fails(r) \/ Crash(r)
      => /\ pc[r] # "idle" /\ overlap' = overlap
         /\ \A q \in Runners \ {r} : pc'[q] = pc[q]
  BY DEF StateOK, Create, Query, Swap, Undo, Clear, QueryAll, IndexBatch, Fails, Crash,
         Goto
<1>2. Populate(r) \/ Drop(r) \/ Cleanup(r) \/ MarkFails(r) \/ FinishAll(r)
      => /\ pc[r] # "idle" /\ overlap' = overlap
         /\ \A q \in Runners \ {r} : pc'[q] = pc[q]
  BY DEF StateOK, Populate, Drop, Cleanup, MarkFails, FinishAll, Ends, Goto
<1>3. ClearRaises(r) \/ IndexFails(r) \/ AllRaises(r)
      => /\ pc[r] # "idle" /\ overlap' = overlap
         /\ \A q \in Runners \ {r} : pc'[q] = pc[q]
  BY LeavesType DEF ClearRaises, IndexFails, AllRaises
<1>4. QED
  BY <1>1, <1>2, <1>3 DEF Running

LEMMA NextCases ==
    [Next]_vars <=>
        \/ \E w \in Writers, d \in Docs, v \in Ver : Commit(w, d, v)
        \/ \E w \in Writers : Write(w)
        \/ \E r \in Runners : StartZeroDowntime(r) \/ StartAll(r) \/ Running(r)
        \/ UNCHANGED vars
BY DEF Next, ZeroDowntimeStep, AllStep, Running

LEMMA StartStep ==
    ASSUME StateOK, NEW r \in Runners, StartZeroDowntime(r) \/ StartAll(r)
    PROVE  /\ pc'[r] \in {"create", "clear"}
           /\ \A q \in Runners \ {r} : pc'[q] = pc[q]
           /\ overlap' = (overlap \/ \E q \in Runners : pc[q] # "idle")
           /\ UNCHANGED <<backend, rows, commits, engine, writing, todo, fresh, faults,
                          changed, touched, cleared, lossVars>>
BY DEF StateOK, StartZeroDowntime, StartAll, Start, Goto

LEMMA AloneStep == StateOK /\ Alone /\ [Next]_vars => Alone'
<1> SUFFICES ASSUME StateOK, Alone, [Next]_vars
             PROVE  Alone'
  OBVIOUS
<1>1. ASSUME NEW r \in Runners, Running(r)
      PROVE  Alone'
  BY <1>1, RunningStep DEF Alone
<1>2. ASSUME NEW r \in Runners, StartZeroDowntime(r) \/ StartAll(r)
      PROVE  Alone'
  BY <1>2, StartStep DEF Alone
<1>3. ASSUME UNCHANGED <<pc, overlap>>
      PROVE  Alone'
  BY <1>3 DEF Alone
<1>4. QED
  BY <1>1, <1>2, <1>3, NextCases DEF Commit, Write, vars, reindexVars

(* While a reindex runs alone, the others are idle.                        *)
LEMMA OthersIdle ==
    ASSUME StateOK, Alone, ~overlap', NEW r \in Runners, Running(r)
    PROVE  \A q \in Runners \ {r} : pc'[q] = "idle"
BY RunningStep DEF Alone

LEMMA AllSentStep == StateOK /\ AllSent /\ [Next]_vars => AllSent'
<1> SUFFICES ASSUME StateOK, AllSent, [Next]_vars
             PROVE  AllSent'
  OBVIOUS
<1>1. ASSUME NEW r \in Runners, Query(r)
      PROVE  AllSent'
  BY <1>1 DEF StateOK, AllSent, Query, Goto
<1>2. ASSUME NEW r \in Runners, Populate(r)
      PROVE  AllSent'
  <2>1. PICK b \in BatchesOf(todo[r]) :
          /\ todo' = [todo EXCEPT ![r] = @ \ b]
          /\ Goto(r, IF todo[r] = b THEN "swap" ELSE "populate")
    BY <1>2 DEF Populate
  <2>2. pc'[r] = "swap" => todo'[r] = {}
    BY <2>1 DEF StateOK, Goto
  <2>3. \A q \in Runners \ {r} : pc'[q] = pc[q] /\ todo'[q] = todo[q]
    BY <2>1 DEF StateOK, Goto
  <2>4. QED
    BY <2>2, <2>3 DEF AllSent
<1>3. ASSUME NEW r \in Runners,
             \/ Create(r) \/ Swap(r) \/ Drop(r) \/ Cleanup(r) \/ MarkFails(r)
             \/ Undo(r) \/ Clear(r) \/ ClearRaises(r) \/ FinishAll(r)
      PROVE  AllSent'
  <2>1. ~ClearRaises(r) => todo' = todo /\ pc'[r] # "swap"
    BY <1>3 DEF StateOK, Create, Swap, Drop, Cleanup, MarkFails, Undo, Clear,
       FinishAll, Ends, Goto
  <2>2. ClearRaises(r) => todo' = todo /\ pc'[r] # "swap"
    BY LeavesType DEF ClearRaises
  <2>3. todo' = todo /\ pc'[r] # "swap"
    BY <2>1, <2>2
  <2>4. QED
    BY <1>3, <2>3, RunningStep DEF AllSent, Running
<1>4. ASSUME NEW r \in Runners,
             \/ Fails(r) \/ QueryAll(r) \/ IndexBatch(r) \/ IndexFails(r)
             \/ AllRaises(r) \/ Crash(r)
      PROVE  AllSent'
  <2>1. \A q \in Runners \ {r} : todo'[q] = todo[q]
    BY <1>4 DEF StateOK, Fails, QueryAll, IndexBatch, IndexFails, AllRaises, Crash
  <2>2. Fails(r) \/ QueryAll(r) \/ IndexBatch(r) \/ Crash(r) => pc'[r] # "swap"
    BY DEF StateOK, Fails, QueryAll, IndexBatch, Crash, Goto
  <2>3. IndexFails(r) \/ AllRaises(r) => pc'[r] # "swap"
    BY LeavesType DEF IndexFails, AllRaises
  <2>4. QED
    BY <1>4, <2>1, <2>2, <2>3, RunningStep DEF AllSent, Running
<1>5. ASSUME NEW r \in Runners, StartZeroDowntime(r) \/ StartAll(r)
      PROVE  AllSent'
  BY <1>5, StartStep DEF AllSent
<1>6. ASSUME UNCHANGED <<pc, todo>>
      PROVE  AllSent'
  BY <1>6 DEF AllSent
<1>7. QED
  BY <1>1, <1>2, <1>3, <1>4, <1>5, <1>6, NextCases
     DEF Running, Commit, Write, vars, reindexVars

-----------------------------------------------------------------------------
(* No half-built index is ever live.                                       *)
Unchanged == Docs \ changed

(* What is being written has been changed.                                 *)
WritesChanged == \A w \in Writers : writing[w] # Nothing => writing[w].doc \in changed

(* Who writes to the live index has emptied it.                            *)
LiveFilled ==
    ~cleared => \A r \in Runners : pc[r] \notin {"queryall", "index"}

(* A left-over temporary index may lack documents, but has no others.      *)
TempLags ==
    ~cleared /\ ~overlap =>
        \A d \in Unchanged : Existing(engine["temp"])[d] \in {0, rows[d]}

(* What is still to be sent completes the temporary index.                 *)
TempFills ==
    ~cleared /\ ~overlap =>
        \A r \in Runners : pc[r] \in {"populate", "swap"} =>
            Completes(todo[r], Existing(engine["temp"]), rows, Unchanged)

DowntimeInv ==
    /\ StateOK /\ Alone /\ AllSent /\ WritesChanged /\ LiveFilled
    /\ TempLags /\ TempFills /\ ZeroDowntime

LEMMA WritesChangedStep == StateOK /\ WritesChanged /\ [Next]_vars => WritesChanged'
<1> SUFFICES ASSUME StateOK, WritesChanged, [Next]_vars
             PROVE  WritesChanged'
  OBVIOUS
<1>1. ASSUME NEW w \in Writers, NEW d \in Docs, NEW v \in Ver, Commit(w, d, v)
      PROVE  WritesChanged'
  BY <1>1 DEF StateOK, WritesChanged, Commit
<1>2. ASSUME NEW w \in Writers, Write(w)
      PROVE  WritesChanged'
  BY <1>2 DEF StateOK, WritesChanged, Write
<1>3. ASSUME UNCHANGED <<writing, changed>>
      PROVE  WritesChanged'
  BY <1>3 DEF WritesChanged
<1>4. ASSUME NEW r \in Runners, Running(r)
      PROVE  UNCHANGED <<writing, changed>>
  BY <1>4 DEF Running, Create, Query, Populate, Swap, Drop, Fails, Cleanup, MarkFails,
     Undo, Clear, ClearRaises, QueryAll, IndexBatch, FinishAll, IndexFails, AllRaises,
     Crash
<1>5. QED
  BY <1>1, <1>2, <1>3, <1>4, StartStep, NextCases DEF vars

LEMMA LiveFilledStep == StateOK /\ LiveFilled /\ [Next]_vars => LiveFilled'
<1> SUFFICES ASSUME StateOK, LiveFilled, [Next]_vars
             PROVE  LiveFilled'
  OBVIOUS
<1>1. ASSUME NEW r \in Runners, Running(r), ~cleared'
      PROVE  ~cleared /\ pc'[r] \notin {"queryall", "index"}
  <2>1. ~cleared /\ ~Clear(r) /\ ~ClearRaises(r)
    BY <1>1 DEF Running, Create, Query, Populate, Swap, Drop, Fails, Cleanup, MarkFails,
       Undo, Clear, ClearRaises, QueryAll, IndexBatch, FinishAll, IndexFails, AllRaises,
       Crash
  <2>2. ~QueryAll(r) /\ ~IndexBatch(r) /\ ~FinishAll(r) /\ ~IndexFails(r)
        /\ ~AllRaises(r)
    BY <2>1 DEF LiveFilled, QueryAll, IndexBatch, FinishAll, IndexFails, AllRaises
  <2>3. QED
    BY <1>1, <2>1, <2>2 DEF StateOK, Running, Create, Query, Populate, Swap, Drop, Fails,
       Cleanup, MarkFails, Undo, Crash, Ends, Goto
<1>2. ASSUME NEW r \in Runners, Running(r)
      PROVE  LiveFilled'
  BY <1>1, <1>2, RunningStep DEF LiveFilled
<1>3. ASSUME NEW r \in Runners, StartZeroDowntime(r) \/ StartAll(r)
      PROVE  LiveFilled'
  BY <1>3, StartStep DEF LiveFilled
<1>4. ASSUME UNCHANGED <<pc, cleared>>
      PROVE  LiveFilled'
  BY <1>4 DEF LiveFilled
<1>5. QED
  BY <1>2, <1>3, <1>4, NextCases DEF Commit, Write, vars, reindexVars

(* A reindex that has emptied nothing changes only the temporary index, if  *)
(* it does not swap.                                                        *)
LEMMA DowntimeStep ==
    DowntimeInv /\ [Next]_vars => TempLags' /\ TempFills' /\ ZeroDowntime'
<1> SUFFICES ASSUME DowntimeInv, [Next]_vars, ~cleared', ~overlap'
             PROVE  /\ \A d \in Unchanged' : /\ Existing(engine'["temp"])[d] \in {0, rows'[d]}
                                             /\ engine'["live"][d] = rows'[d]
                    /\ \A r \in Runners : pc'[r] \in {"populate", "swap"} =>
                         Completes(todo'[r], Existing(engine'["temp"]), rows', Unchanged')
  BY DEF TempLags, TempFills, ZeroDowntime, Unchanged, Existing, Empty
<1> DEFINE Lags(e, rs, S) == \A d \in S : /\ Existing(e["temp"])[d] \in {0, rs[d]}
                                          /\ e["live"][d] = rs[d]
           Fills(p, t, e, rs, S) ==
               \A r \in Runners : p[r] \in {"populate", "swap"} =>
                   Completes(t[r], Existing(e["temp"]), rs, S)
<1> USE DEF DowntimeInv
<1> SUFFICES Lags(engine', rows', Unchanged') /\ Fills(pc', todo', engine', rows', Unchanged')
  OBVIOUS
<1>1. ~cleared /\ ~overlap => /\ Lags(engine, rows, Unchanged)
                              /\ Fills(pc, todo, engine, rows, Unchanged)
  BY DEF TempLags, TempFills, ZeroDowntime, Unchanged
<1>2. /\ engine \in Engines /\ engine["live"] \in Index /\ engine["temp"] \in Index
      /\ Unchanged \in SUBSET Docs
  BY DEF StateOK, Engines, Unchanged
<1> HIDE DEF Lags, Fills
<1>3. ASSUME NEW w \in Writers, NEW d \in Docs, NEW v \in Ver, Commit(w, d, v)
      PROVE  Lags(engine', rows', Unchanged') /\ Fills(pc', todo', engine', rows', Unchanged')
  <2>1. UNCHANGED <<engine, pc, todo, cleared, overlap>>
    BY <1>3 DEF Commit, reindexVars
  <2>2. /\ Unchanged' \in SUBSET Unchanged
        /\ \A c \in Unchanged' : rows'[c] = rows[c]
    BY <1>3 DEF StateOK, Commit, Unchanged
  <2>3. Lags(engine', rows', Unchanged')
    BY <1>1, <2>1, <2>2 DEF Lags
  <2>4. Fills(pc', todo', engine', rows', Unchanged')
    BY <1>1, <2>1, <2>2, CompletesLess DEF Fills
  <2>5. QED
    BY <2>3, <2>4
<1>4. ASSUME NEW w \in Writers, Write(w)
      PROVE  Lags(engine', rows', Unchanged') /\ Fills(pc', todo', engine', rows', Unchanged')
  <2>1. UNCHANGED <<rows, changed, pc, todo, cleared, overlap>>
    BY <1>4 DEF Write, reindexVars
  <2>2. {writing[w]} \in SUBSET Content /\ writing[w].doc \in changed
    BY <1>4 DEF StateOK, WritesChanged, Write
  <2>3. /\ engine'["temp"] = engine["temp"]
        /\ \A d \in Unchanged : engine'["live"][d] = engine["live"][d]
    <3>1. CASE engine' = [engine EXCEPT !["live"] = With(@, {writing[w]})]
      <4>1. /\ engine'["temp"] = engine["temp"]
            /\ engine'["live"] = With(engine["live"], {writing[w]})
        BY <1>2, <2>2, <3>1, WithType, EngineUpdate
      <4>2. Existing(engine["live"]) = engine["live"]
        BY <1>2 DEF Engines, Existing
      <4>3. ASSUME NEW d \in Unchanged
            PROVE  With(engine["live"], {writing[w]})[d] = engine["live"][d]
        BY <1>2, <2>2, <4>2, WithAt DEF Unchanged
      <4>4. QED
        BY <4>1, <4>3
    <3>2. CASE UNCHANGED engine
      BY <3>2
    <3>3. QED
      BY <1>4, <3>1, <3>2 DEF Write
  <2>4. QED
    BY <1>1, <2>1, <2>3 DEF Lags, Fills, Unchanged
<1>5. ASSUME NEW r \in Runners, StartZeroDowntime(r) \/ StartAll(r)
      PROVE  Lags(engine', rows', Unchanged') /\ Fills(pc', todo', engine', rows', Unchanged')
  <2>1. /\ UNCHANGED <<rows, changed, engine, todo>> /\ ~cleared /\ ~overlap
        /\ \A q \in Runners : pc'[q] \in {"populate", "swap"} =>
             pc[q] \in {"populate", "swap"}
    BY <1>5, StartStep
  <2>2. QED
    BY <1>1, <2>1 DEF Lags, Fills, Unchanged
<1>6. ASSUME NEW r \in Runners, Running(r)
      PROVE  /\ ~cleared /\ ~overlap /\ UNCHANGED <<rows, changed>>
             /\ Lags(engine, rows, Unchanged)
             /\ Fills(pc, todo, engine, rows, Unchanged)
             /\ \A q \in Runners \ {r} : pc'[q] = "idle"
             /\ pc[r] \notin {"queryall", "index"} /\ ~Clear(r) /\ ~ClearRaises(r)
  <2>1. /\ ~cleared /\ ~Clear(r) /\ ~ClearRaises(r)
        /\ UNCHANGED <<rows, changed>>
    BY <1>6 DEF Running, Create, Query, Populate, Swap, Drop, Fails, Cleanup, MarkFails,
       Undo, Clear, ClearRaises, QueryAll, IndexBatch, FinishAll, IndexFails, AllRaises,
       Crash
  <2>2. ~overlap /\ \A q \in Runners \ {r} : pc'[q] = "idle"
    BY <1>6, OthersIdle, RunningStep
  <2>3. pc[r] \notin {"queryall", "index"}
    BY <2>1 DEF LiveFilled
  <2>4. QED
    BY <1>1, <2>1, <2>2, <2>3
<1>7. ASSUME NEW r \in Runners, Running(r), Lags(engine', rows, Unchanged),
             pc'[r] \in {"populate", "swap"} =>
                 Completes(todo'[r], Existing(engine'["temp"]), rows, Unchanged)
      PROVE  Lags(engine', rows', Unchanged') /\ Fills(pc', todo', engine', rows', Unchanged')
  BY <1>6, <1>7 DEF Fills, Unchanged
<1>8. \A d \in Docs : Empty[d] = 0
  BY DEF Empty
<1>9. ASSUME NEW r \in Runners, Running(r), engine' = Created
      PROVE  Lags(engine', rows, Unchanged)
  <2>1. engine'["live"] = engine["live"]
    BY <1>2, <1>9, CreatedType
  <2>2. Existing(engine'["temp"]) \in {Empty, Existing(engine["temp"])}
    BY <1>2, <1>9, CreatedType, EmptyType, FilledIsIndex, ExistingType
  <2>3. QED
    BY <1>2, <1>6, <1>8, <1>9, <2>1, <2>2 DEF Lags
<1>10. ASSUME NEW r \in Runners, Running(r), pc[r] = "swap", engine' = Swapped
       PROVE  Lags(engine', rows, Unchanged)
  <2>1. Completes({}, Existing(engine["temp"]), rows, Unchanged)
    BY <1>6, <1>10 DEF AllSent, Fills
  <2>2. \A d \in Unchanged : Existing(engine["temp"])[d] = rows[d]
    BY <2>1 DEF Completes
  <2>3. /\ engine'["live"] = Existing(engine["temp"])
        /\ Existing(engine'["temp"]) = engine["live"]
    BY <1>2, <1>10, SwappedType DEF Engines, Existing
  <2>4. QED
    BY <1>6, <1>10, <2>2, <2>3 DEF Lags
<1>11. ASSUME NEW r \in Runners, Running(r), pc[r] = "populate",
              NEW b \in BatchesOf(todo[r]),
              engine' = [engine EXCEPT !["temp"] = With(@, b)]
       PROVE  /\ Lags(engine', rows, Unchanged)
              /\ Completes(todo[r] \ b, Existing(engine'["temp"]), rows, Unchanged)
  <2>1. /\ todo[r] \in SUBSET Content /\ b \in SUBSET todo[r] /\ b \in SUBSET Content
        /\ Completes(todo[r], Existing(engine["temp"]), rows, Unchanged)
    BY <1>6, <1>11, BatchType DEF StateOK, Fills
  <2>2. /\ engine'["live"] = engine["live"]
        /\ Existing(engine'["temp"]) = With(engine["temp"], b)
    BY <1>2, <1>11, <2>1, WithType, EngineUpdate
  <2>3. ASSUME NEW d \in Unchanged
        PROVE  With(engine["temp"], b)[d] \in {0, rows[d]}
    <3>1. CASE \E op \in b : op.doc = d /\ With(engine["temp"], b)[d] = op.ver
      BY <2>1, <3>1 DEF Completes
    <3>2. CASE With(engine["temp"], b)[d] = Existing(engine["temp"])[d]
      BY <1>6, <1>11, <3>2 DEF Lags
    <3>3. QED
      BY <1>2, <2>1, <3>1, <3>2, WithAt
  <2>4. QED
    BY <1>2, <1>6, <1>11, <2>1, <2>2, <2>3, CompletesSent DEF Lags
<1>12. ASSUME NEW r \in Runners, DeleteTemp, Running(r)
       PROVE  Lags(engine', rows, Unchanged)
  <2>1. /\ engine'["live"] = engine["live"]
        /\ Existing(engine'["temp"]) \in {Existing(engine["temp"]), Empty}
    BY <1>2, <1>12, DeleteTempType DEF StateOK, Existing
  <2>2. QED
    BY <1>2, <1>6, <1>8, <1>12, <2>1 DEF Lags
<1>13. ASSUME NEW r \in Runners, Create(r)
       PROVE  Lags(engine', rows', Unchanged') /\ Fills(pc', todo', engine', rows', Unchanged')
  <2>1. Running(r) /\ pc'[r] \notin {"populate", "swap"}
    BY <1>13 DEF StateOK, Running, Create, Goto
  <2>2. engine' \in {engine, Created}
    BY <1>13 DEF Create
  <2>3. QED
    BY <1>6, <1>7, <1>9, <2>1, <2>2
<1>14. ASSUME NEW r \in Runners, Query(r)
       PROVE  Lags(engine', rows', Unchanged') /\ Fills(pc', todo', engine', rows', Unchanged')
  <2>1. Running(r) /\ engine' = engine /\ todo'[r] = Queryset
    BY <1>14 DEF StateOK, Running, Query
  <2>2. Completes(Queryset, Existing(engine["temp"]), rows, Unchanged)
    BY <1>2, <1>6, <2>1, CompletesQueryset DEF Lags, StateOK
  <2>3. QED
    BY <1>6, <1>7, <2>1, <2>2
<1>15. ASSUME NEW r \in Runners, Populate(r)
       PROVE  Lags(engine', rows', Unchanged') /\ Fills(pc', todo', engine', rows', Unchanged')
  <2>1. PICK b \in BatchesOf(todo[r]) :
          /\ engine' = [engine EXCEPT !["temp"] = With(@, b)]
          /\ todo' = [todo EXCEPT ![r] = @ \ b]
    BY <1>15 DEF Populate
  <2>2. Running(r) /\ pc[r] = "populate" /\ todo'[r] = todo[r] \ b
    BY <1>15, <2>1 DEF StateOK, Running, Populate
  <2>3. QED
    BY <1>7, <1>11, <2>1, <2>2
<1>16. ASSUME NEW r \in Runners, Swap(r)
       PROVE  Lags(engine', rows', Unchanged') /\ Fills(pc', todo', engine', rows', Unchanged')
  <2>1. Running(r) /\ pc[r] = "swap" /\ pc'[r] \notin {"populate", "swap"}
    BY <1>16 DEF StateOK, Running, Swap, Goto
  <2>2. engine' \in {engine, Swapped}
    BY <1>16 DEF Swap
  <2>3. QED
    BY <1>6, <1>7, <1>10, <2>1, <2>2
<1>17. ASSUME NEW r \in Runners, Drop(r) \/ Cleanup(r) \/ Undo(r)
       PROVE  Lags(engine', rows', Unchanged') /\ Fills(pc', todo', engine', rows', Unchanged')
  <2>1. Running(r) /\ DeleteTemp /\ pc'[r] \notin {"populate", "swap"}
    BY <1>17 DEF StateOK, Running, Drop, Cleanup, Undo, Ends, Goto
  <2>2. QED
    BY <1>7, <1>12, <2>1
<1>18. ASSUME NEW r \in Runners, MarkFails(r)
       PROVE  Lags(engine', rows', Unchanged') /\ Fills(pc', todo', engine', rows', Unchanged')
  <2>1. Running(r) /\ pc'[r] \notin {"populate", "swap"}
    BY <1>18 DEF StateOK, Running, MarkFails, Goto
  <2>2. engine' \in {engine, [engine EXCEPT !["temp"] = NoIndex]}
    BY <1>18 DEF MarkFails
  <2>3. CASE engine' = engine
    BY <1>6, <1>7, <2>1, <2>3
  <2>4. CASE engine' = [engine EXCEPT !["temp"] = NoIndex]
    <3>1. NoIndex \in Index
      BY DEF Index
    <3>2. /\ engine'["live"] = engine["live"]
          /\ Existing(engine'["temp"]) = Empty
      BY <1>2, <2>4, <3>1, EngineUpdate DEF Existing
    <3>3. Lags(engine', rows, Unchanged)
      BY <1>2, <1>6, <1>8, <2>1, <3>2 DEF Lags
    <3>4. QED
      BY <1>7, <2>1, <3>3
  <2>5. QED
    BY <2>2, <2>3, <2>4
<1>19. ASSUME NEW r \in Runners, Fails(r)
       PROVE  Lags(engine', rows', Unchanged') /\ Fills(pc', todo', engine', rows', Unchanged')
  <2>1. Running(r) /\ pc'[r] \notin {"populate", "swap"}
    BY <1>19 DEF StateOK, Running, Fails, Goto
  <2>2. \/ engine' = engine
        \/ engine' = Created
        \/ pc[r] = "swap" /\ engine' = Swapped
        \/ /\ pc[r] = "populate"
           /\ \E b \in BatchesOf(todo[r]) :
                engine' = [engine EXCEPT !["temp"] = With(@, b)]
    BY <1>19 DEF Fails
  <2>3. Lags(engine', rows, Unchanged)
    BY <1>6, <1>9, <1>10, <1>11, <2>1, <2>2
  <2>4. QED
    BY <1>7, <2>1, <2>3
<1>20. ASSUME NEW r \in Runners, Crash(r)
       PROVE  Lags(engine', rows', Unchanged') /\ Fills(pc', todo', engine', rows', Unchanged')
  <2>1. Running(r) /\ engine' = engine /\ pc'[r] = "idle"
    BY <1>20 DEF StateOK, Running, Crash, Goto
  <2>2. QED
    BY <1>6, <1>7, <2>1
<1>21. ASSUME UNCHANGED vars
       PROVE  Lags(engine', rows', Unchanged') /\ Fills(pc', todo', engine', rows', Unchanged')
  BY <1>1, <1>21 DEF vars, reindexVars, Unchanged
<1>22. ASSUME NEW r \in Runners, Running(r)
       PROVE  Lags(engine', rows', Unchanged') /\ Fills(pc', todo', engine', rows', Unchanged')
  <2>1. /\ ~QueryAll(r) /\ ~IndexBatch(r) /\ ~FinishAll(r) /\ ~IndexFails(r)
        /\ ~AllRaises(r) /\ ~Clear(r) /\ ~ClearRaises(r)
    BY <1>6, <1>22 DEF QueryAll, IndexBatch, FinishAll, IndexFails, AllRaises
  <2>2. QED
    BY <1>13, <1>14, <1>15, <1>16, <1>17, <1>19, <1>20, <1>22, <1>18, <2>1 DEF Running
<1>23. QED
  BY <1>3, <1>4, <1>5, <1>21, <1>22, NextCases

(* ZeroDowntime: whatever fails and whoever is killed, no document that    *)
(* nobody changed is missing from the live index (reindex_zero_downtime).  *)
THEOREM NeverHalfBuilt == Spec => []ZeroDowntime
<1>1. Init => DowntimeInv
  <2> SUFFICES ASSUME Init PROVE DowntimeInv
    OBVIOUS
  <2>1. StateOK
    BY StateInit
  <2>2. \A d \in Docs : Existing(engine["temp"])[d] = 0 /\ engine["live"][d] = rows[d]
    BY DEF Init, Existing, Empty
  <2>3. QED
    BY <2>1, <2>2 DEF Init, DowntimeInv, Alone, AllSent, WritesChanged, LiveFilled,
       TempLags, TempFills, ZeroDowntime, Unchanged
<1>2. DowntimeInv /\ [Next]_vars => DowntimeInv'
  BY StateStep, AloneStep, AllSentStep, WritesChangedStep, LiveFilledStep, DowntimeStep
     DEF DowntimeInv
<1>3. DowntimeInv => ZeroDowntime
  BY DEF DowntimeInv
<1>4. QED
  BY <1>1, <1>2, <1>3, PTL DEF Spec

-----------------------------------------------------------------------------
(* A reindex that reports success has rebuilt the index.                   *)
Untouched(r) == Docs \ touched[r]

(* What is being written was touched since the reindex read the rows.      *)
WritesTouched ==
    \A r \in Runners : pc[r] \in {"populate", "swap", "drop", "queryall", "index"} =>
        \A w \in Writers : writing[w] # Nothing => writing[w].doc \in touched[r]

(* A fresh index holds what was sent to it of what was read; after the     *)
(* swap the live index does.                                               *)
OnTrack(r) ==
    /\ pc[r] = "query" => Existing(engine["temp"]) = Empty
    /\ pc[r] \in {"populate", "swap"} =>
         Completes(todo[r], Existing(engine["temp"]), rows, Untouched(r))
    /\ pc[r] = "drop" /\ backend.swap # "alias" =>
         Completes({}, engine["live"], rows, Untouched(r))
    /\ pc[r] = "queryall" => \A d \in Untouched(r) : engine["live"][d] = 0
    /\ pc[r] = "index" => Completes(todo[r], engine["live"], rows, Untouched(r))

Rebuilding == ~overlap => \A r \in Runners : fresh[r] => OnTrack(r)

RebuildInv == StateOK /\ Alone /\ AllSent /\ WritesTouched /\ Rebuilding

LEMMA WritesTouchedStep == StateOK /\ WritesTouched /\ [Next]_vars => WritesTouched'
<1> SUFFICES ASSUME StateOK, WritesTouched, [Next]_vars
             PROVE  WritesTouched'
  OBVIOUS
<1> DEFINE Late == {"populate", "swap", "drop", "queryall", "index"}
<1>1. ASSUME NEW w \in Writers, NEW d \in Docs, NEW v \in Ver, Commit(w, d, v)
      PROVE  WritesTouched'
  <2>1. /\ pc' = pc /\ writing' = [writing EXCEPT ![w] = [doc |-> d, ver |-> v]]
        /\ touched' = [r \in Runners |-> touched[r] \cup {d}]
    BY <1>1 DEF Commit, reindexVars
  <2>2. QED
    BY <2>1 DEF StateOK, WritesTouched
<1>2. ASSUME NEW w \in Writers, Write(w)
      PROVE  WritesTouched'
  BY <1>2 DEF StateOK, WritesTouched, Write, reindexVars
<1>3. ASSUME NEW r \in Runners, Query(r) \/ Clear(r)
      PROVE  WritesTouched'
  <2>1. touched' = [touched EXCEPT ![r] = BeingWritten] /\ writing' = writing
    BY <1>3 DEF Query, Clear
  <2>2. \A w \in Writers : writing[w] # Nothing => writing[w].doc \in BeingWritten
    BY DEF BeingWritten
  <2>3. \A q \in Runners \ {r} : pc'[q] = pc[q]
    BY <1>3, RunningStep DEF Running
  <2>4. QED
    BY <2>1, <2>2, <2>3 DEF StateOK, WritesTouched
<1>4. ASSUME NEW r \in Runners, Running(r), ~Query(r), ~Clear(r)
      PROVE  UNCHANGED <<writing, touched>> /\ (pc'[r] \in Late => pc[r] \in Late)
  <2>1. UNCHANGED <<writing, touched>>
    BY <1>4 DEF Running, Create, Populate, Swap, Drop, Fails, Cleanup, MarkFails, Undo,
       ClearRaises, QueryAll, IndexBatch, FinishAll, IndexFails, AllRaises, Crash
  <2>2. Create(r) \/ Drop(r) \/ Fails(r) \/ Cleanup(r) \/ MarkFails(r) \/ Undo(r)
        \/ FinishAll(r) \/ Crash(r) => pc'[r] \notin Late
    BY DEF StateOK, Create, Drop, Fails, Cleanup, MarkFails, Undo, FinishAll, Crash, Ends,
       Goto
  <2>3. ClearRaises(r) \/ IndexFails(r) \/ AllRaises(r) => pc'[r] \notin Late
    BY LeavesType DEF ClearRaises, IndexFails, AllRaises
  <2>4. Populate(r) \/ Swap(r) \/ QueryAll(r) \/ IndexBatch(r) => pc[r] \in Late
    BY DEF Populate, Swap, QueryAll, IndexBatch
  <2>5. QED
    BY <1>4, <2>1, <2>2, <2>4, <2>3 DEF Running
<1>5. ASSUME NEW r \in Runners, Running(r), ~Query(r), ~Clear(r)
      PROVE  WritesTouched'
  BY <1>4, <1>5, RunningStep DEF WritesTouched
<1>6. ASSUME NEW r \in Runners, StartZeroDowntime(r) \/ StartAll(r)
      PROVE  WritesTouched'
  BY <1>6, StartStep DEF WritesTouched
<1>7. CASE UNCHANGED vars
  BY <1>7 DEF WritesTouched, vars, reindexVars
<1>8. QED
  BY <1>1, <1>2, <1>3, <1>5, <1>6, <1>7, NextCases

(* An operation on a document that S does not have leaves S alone.         *)
LEMMA WriteElsewhere ==
    ASSUME NEW index \in Index, index # NoIndex, NEW op \in Content,
           NEW S \in SUBSET Docs, op.doc \notin S
    PROVE  \A d \in S : With(index, {op})[d] = index[d]
BY WithAt DEF Existing

LEMMA RebuildingStep == RebuildInv /\ [Next]_vars => Rebuilding'
<1> SUFFICES ASSUME RebuildInv, [Next]_vars, ~overlap', NEW r \in Runners, fresh'[r]
             PROVE  OnTrack(r)'
  BY DEF Rebuilding
<1> USE DEF RebuildInv
<1>1. /\ engine \in Engines /\ engine["live"] \in Index /\ engine["temp"] \in Index
      /\ engine["live"] # NoIndex /\ Existing(engine["live"]) = engine["live"]
      /\ Untouched(r) \in SUBSET Docs /\ rows \in [Docs -> Ver]
  BY DEF StateOK, Engines, Existing, Untouched
<1>2. ASSUME NEW w \in Writers, NEW d \in Docs, NEW v \in Ver, Commit(w, d, v)
      PROVE  OnTrack(r)'
  <2>1. /\ UNCHANGED <<engine, backend, pc, todo, fresh, overlap>>
        /\ rows' = [rows EXCEPT ![d] = v]
        /\ touched' = [q \in Runners |-> touched[q] \cup {d}]
    BY <1>2 DEF Commit, reindexVars
  <2>2. Untouched(r)' \in SUBSET Untouched(r) /\ d \notin Untouched(r)'
    BY <2>1 DEF Untouched
  <2>3. \A c \in Untouched(r)' : rows'[c] = rows[c]
    BY <2>1, <2>2 DEF StateOK, Untouched
  <2>4. \A ops, index : Completes(ops, index, rows, Untouched(r))
                        => Completes(ops, index, rows', Untouched(r)')
    BY <2>2, <2>3, CompletesLess
  <2>5. OnTrack(r)
    BY <2>1 DEF Rebuilding
  <2>6. QED
    BY <2>1, <2>2, <2>4, <2>5 DEF OnTrack
<1>3. ASSUME NEW w \in Writers, Write(w)
      PROVE  OnTrack(r)'
  <2>1. /\ UNCHANGED <<rows, backend, touched, pc, todo, fresh, overlap>>
        /\ writing[w] \in Content
    BY <1>3 DEF StateOK, Write, reindexVars
  <2>2. OnTrack(r) /\ Untouched(r)' = Untouched(r)
    BY <2>1 DEF Rebuilding, Untouched
  <2>3. /\ engine'["temp"] = engine["temp"]
        /\ pc[r] \in {"drop", "queryall", "index"} =>
             \A d \in Untouched(r) : engine'["live"][d] = engine["live"][d]
    <3>1. CASE engine' = [engine EXCEPT !["live"] = With(@, {writing[w]})]
      <4>1. /\ engine'["temp"] = engine["temp"]
            /\ engine'["live"] = With(engine["live"], {writing[w]})
        BY <1>1, <2>1, <3>1, WithType, EngineUpdate
      <4>2. pc[r] \in {"drop", "queryall", "index"} => writing[w].doc \notin Untouched(r)
        BY <1>3 DEF WritesTouched, Untouched, Write
      <4>3. QED
        BY <1>1, <2>1, <4>1, <4>2, WriteElsewhere
    <3>2. CASE UNCHANGED engine
      BY <3>2
    <3>3. QED
      BY <1>3, <3>1, <3>2 DEF Write
  <2>4. \A ops : pc[r] \in {"drop", "queryall", "index"}
                 /\ Completes(ops, engine["live"], rows, Untouched(r))
                 => Completes(ops, engine'["live"], rows, Untouched(r))
    BY <2>3, CompletesLess
  <2>5. QED
    BY <2>1, <2>2, <2>3, <2>4 DEF OnTrack
<1>4. ASSUME NEW q \in Runners, StartZeroDowntime(q) \/ StartAll(q)
      PROVE  OnTrack(r)'
  <2>1. pc'[r] \in {"idle", "create", "clear"}
    BY <1>4, StartStep
  <2>2. QED
    BY <2>1 DEF OnTrack
<1>5. ASSUME NEW q \in Runners, q # r, Running(q)
      PROVE  OnTrack(r)'
  <2>1. pc'[r] = "idle"
    BY <1>5, OthersIdle
  <2>2. QED
    BY <2>1 DEF OnTrack
<1>6. ASSUME Running(r)
      PROVE  /\ ~overlap /\ rows' = rows /\ backend' = backend
             /\ fresh[r] => OnTrack(r)
  <2>1. rows' = rows /\ backend' = backend
    BY <1>6 DEF Running, Create, Query, Populate, Swap, Drop, Fails, Cleanup, MarkFails,
       Undo, Clear, ClearRaises, QueryAll, IndexBatch, FinishAll, IndexFails, AllRaises,
       Crash
  <2>2. QED
    BY <1>6, <2>1, RunningStep DEF Rebuilding
<1>7. CASE Create(r)
  <2>1. CASE Refused
    <3>1. pc'[r] = "cleanup"
      BY <1>7, <2>1 DEF StateOK, Create, Goto
    <3>2. QED
      BY <3>1 DEF OnTrack
  <2>2. CASE ~Refused
    <3>1. /\ pc'[r] = "query" /\ engine' = Created
          /\ engine["temp"] = NoIndex \/ backend.create = "empty"
      BY <1>7, <2>2 DEF StateOK, Create, Goto
    <3>2. engine'["temp"] = Empty
      BY <1>1, <3>1, CreatedType DEF Existing
    <3>3. QED
      BY <3>1, <3>2, EmptyType, FilledIsIndex DEF OnTrack
  <2>3. QED
    BY <2>1, <2>2
<1>8. CASE Query(r)
  <2>1. /\ Running(r) /\ pc[r] = "query" /\ fresh' = fresh /\ engine' = engine
        /\ todo'[r] = Queryset /\ pc'[r] \in {"populate", "swap"}
    BY <1>8 DEF StateOK, Running, Query, Goto
  <2>2. Existing(engine["temp"]) = Empty
    BY <1>6, <2>1 DEF OnTrack
  <2>3. Untouched(r)' \in SUBSET Docs
    BY DEF Untouched
  <2>4. Completes(Queryset, Empty, rows, Untouched(r)')
    BY <1>1, <2>3, CompletesQueryset DEF Empty
  <2>5. QED
    BY <1>6, <2>1, <2>2, <2>4 DEF OnTrack
<1>9. CASE Populate(r)
  <2>1. PICK b \in BatchesOf(todo[r]) :
          /\ engine' = [engine EXCEPT !["temp"] = With(@, b)]
          /\ todo' = [todo EXCEPT ![r] = @ \ b]
    BY <1>9 DEF Populate
  <2>2. /\ Running(r) /\ pc[r] = "populate" /\ pc'[r] \in {"populate", "swap"}
        /\ fresh' = fresh /\ touched' = touched /\ todo'[r] = todo[r] \ b
    BY <1>9, <2>1 DEF StateOK, Running, Populate, Goto
  <2>3. /\ todo[r] \in SUBSET Content /\ b \in SUBSET todo[r] /\ b \in SUBSET Content
        /\ Completes(todo[r], Existing(engine["temp"]), rows, Untouched(r))
    BY <1>6, <2>2, BatchType DEF StateOK, OnTrack
  <2>4. Existing(engine'["temp"]) = With(engine["temp"], b)
    BY <1>1, <2>1, <2>3, WithType, EngineUpdate
  <2>5. Completes(todo'[r], Existing(engine'["temp"]), rows, Untouched(r))
    BY <1>1, <2>2, <2>3, <2>4, CompletesSent
  <2>6. QED
    BY <1>6, <2>2, <2>5 DEF OnTrack, Untouched
<1>10. CASE Swap(r)
  <2>1. CASE backend.swap = "exchange"
    <3>1. /\ Running(r) /\ pc[r] = "swap" /\ pc'[r] = "drop" /\ engine' = Swapped
          /\ fresh' = fresh /\ touched' = touched
      BY <1>10, <2>1 DEF StateOK, Running, Swap, Goto
    <3>2. Completes({}, Existing(engine["temp"]), rows, Untouched(r))
      BY <1>6, <3>1 DEF AllSent, OnTrack
    <3>3. engine'["live"] = Existing(engine["temp"])
      BY <1>1, <3>1, SwappedType
    <3>4. QED
      BY <1>6, <3>1, <3>2, <3>3 DEF OnTrack, Untouched
  <2>2. CASE backend.swap # "exchange"
    <3>1. /\ pc'[r] \in {"drop", "undo"} /\ backend' = backend
          /\ pc'[r] = "drop" => backend.swap = "alias"
      BY <1>10, <2>2 DEF StateOK, Swap, Goto
    <3>2. QED
      BY <3>1 DEF OnTrack
  <2>3. QED
    BY <2>1, <2>2
<1>11. CASE \/ Drop(r) \/ Fails(r) \/ Cleanup(r) \/ MarkFails(r) \/ Undo(r)
            \/ FinishAll(r) \/ Crash(r)
            \/ ClearRaises(r) \/ IndexFails(r) \/ AllRaises(r)
  <2>1. \/ Drop(r) \/ Fails(r) \/ Cleanup(r) \/ MarkFails(r) \/ Undo(r)
        \/ FinishAll(r) \/ Crash(r)
        => pc'[r] \in {"idle", "cleanup", "clear"}
    BY DEF StateOK, Drop, Fails, Cleanup, MarkFails, Undo, FinishAll, Crash, Ends, Goto
  <2>2. ClearRaises(r) \/ IndexFails(r) \/ AllRaises(r)
        => pc'[r] \in {"idle", "cleanup", "clear"}
    BY LeavesType DEF ClearRaises, IndexFails, AllRaises
  <2>3. pc'[r] \in {"idle", "cleanup", "clear"}
    BY <1>11, <2>1, <2>2
  <2>4. QED
    BY <2>3 DEF OnTrack
<1>12. CASE Clear(r)
  <2>1. pc'[r] = "queryall" /\ engine' = [engine EXCEPT !["live"] = Empty]
    BY <1>12 DEF StateOK, Clear, Goto
  <2>2. engine'["live"] = Empty
    BY <1>1, <2>1, EmptyType, EngineUpdate
  <2>3. QED
    BY <2>1, <2>2 DEF OnTrack, Untouched, Empty
<1>13. CASE QueryAll(r)
  <2>1. /\ Running(r) /\ pc[r] = "queryall" /\ pc'[r] = "index" /\ fresh' = fresh
        /\ engine' = engine /\ todo'[r] = Queryset /\ touched' = touched
    BY <1>13 DEF StateOK, Running, QueryAll, Goto
  <2>2. \A d \in Untouched(r) : engine["live"][d] = 0
    BY <1>6, <2>1 DEF OnTrack
  <2>3. Completes(Queryset, engine["live"], rows, Untouched(r))
    BY <1>1, <2>2, CompletesQueryset
  <2>4. QED
    BY <1>6, <2>1, <2>3 DEF OnTrack, Untouched
<1>14. CASE IndexBatch(r)
  <2>1. PICK b \in BatchesOf(todo[r]) :
          /\ engine' = [engine EXCEPT !["live"] = With(@, b)]
          /\ todo' = [todo EXCEPT ![r] = @ \ b]
    BY <1>14 DEF IndexBatch
  <2>2. /\ Running(r) /\ pc[r] = "index" /\ pc' = pc
        /\ fresh' = fresh /\ touched' = touched /\ todo'[r] = todo[r] \ b
    BY <1>14, <2>1 DEF StateOK, Running, IndexBatch
  <2>3. /\ todo[r] \in SUBSET Content /\ b \in SUBSET todo[r] /\ b \in SUBSET Content
        /\ Completes(todo[r], Existing(engine["live"]), rows, Untouched(r))
    BY <1>1, <1>6, <2>2, BatchType DEF StateOK, OnTrack
  <2>4. engine'["live"] = With(engine["live"], b)
    BY <1>1, <2>1, <2>3, WithType, EngineUpdate
  <2>5. Completes(todo'[r], engine'["live"], rows, Untouched(r))
    BY <1>1, <2>2, <2>3, <2>4, CompletesSent
  <2>6. QED
    BY <1>6, <2>2, <2>5 DEF OnTrack, Untouched
<1>15. CASE UNCHANGED vars
  BY <1>15 DEF Rebuilding, OnTrack, Untouched, vars, reindexVars
<1>16. CASE Running(r)
  BY <1>7, <1>8, <1>9, <1>10, <1>11, <1>12, <1>13, <1>14, <1>16 DEF Running
<1>17. QED
  BY <1>2, <1>3, <1>4, <1>5, <1>15, <1>16, NextCases

(* The step that reports success finds the index rebuilt.                  *)
LEMMA SuccessStep ==
    ASSUME RebuildInv, [Next]_vars, NEW r \in Runners, Succeeds(r), fresh[r], ~overlap,
           backend.swap # "alias"
    PROVE  Rebuilt(r)
<1> USE DEF RebuildInv
<1>1. outcome'[r] = "success" /\ outcome[r] # "success"
  BY DEF Succeeds
<1>2. ASSUME NEW q \in Runners, Running(q)
      PROVE  q = r /\ (Drop(r) \/ FinishAll(r))
  <2>1. \A p \in Runners : outcome'[p] = "success" /\ outcome[p] # "success"
                           => p = q /\ (Drop(q) \/ FinishAll(q))
    <3>1. Drop(q) \/ FinishAll(q) => \A p \in Runners \ {q} : outcome'[p] = outcome[p]
      BY DEF StateOK, Drop, FinishAll, Ends
    <3>2. Create(q) \/ Query(q) \/ Populate(q) \/ Swap(q) \/ Fails(q) \/ Undo(q)
          \/ Clear(q) \/ QueryAll(q) \/ IndexBatch(q) => outcome' = outcome
      BY DEF Create, Query, Populate, Swap, Fails, Undo, Clear, QueryAll, IndexBatch
    <3>3. Cleanup(q) \/ MarkFails(q) \/ Crash(q)
          => outcome' \in {outcome, [outcome EXCEPT ![q] = "failed"]}
      BY DEF Cleanup, MarkFails, Crash, Ends
    <3>4. ClearRaises(q) \/ IndexFails(q) \/ AllRaises(q)
          => outcome' \in {outcome, [outcome EXCEPT ![q] = "failed"]}
      BY LeavesType DEF ClearRaises, IndexFails, AllRaises
    <3>5. \A p \in Runners : outcome' \in {outcome, [outcome EXCEPT ![q] = "failed"]}
                             => outcome'[p] \in {outcome[p], "failed"}
      BY DEF StateOK
    <3>6. QED
      BY <1>2, <3>1, <3>2, <3>4, <3>5, <3>3 DEF Running
  <2>2. QED
    BY <1>1, <2>1
<1>3. Drop(r) \/ FinishAll(r)
  <2>1. ASSUME NEW q \in Runners, StartZeroDowntime(q) \/ StartAll(q)
        PROVE  outcome'[r] \in {outcome[r], "running"}
    BY <2>1 DEF StateOK, StartZeroDowntime, StartAll, Start
  <2>2. (\E w \in Writers, d \in Docs, v \in Ver : Commit(w, d, v))
        \/ (\E w \in Writers : Write(w)) \/ UNCHANGED vars => outcome' = outcome
    BY DEF Commit, Write, vars, reindexVars
  <2>3. QED
    BY <1>1, <1>2, <2>1, <2>2, NextCases
<1>4. OnTrack(r)
  BY DEF Rebuilding
<1>5. Completes({}, engine["live"], rows, Untouched(r)) /\ engine'["live"] = engine["live"]
  <2>1. CASE Drop(r)
    <3>1. engine'["live"] = engine["live"]
      BY <2>1, DeleteTempType DEF Drop, StateOK, Engines
    <3>2. QED
      BY <1>4, <2>1, <3>1 DEF OnTrack, Drop
  <2>2. CASE FinishAll(r)
    BY <1>4, <2>2 DEF OnTrack, FinishAll
  <2>3. QED
    BY <1>3, <2>1, <2>2
<1>6. QED
  BY <1>5 DEF Completes, Untouched, Rebuilt

(* SuccessMeansRebuilt: what a reindex reports as success is the database  *)
(* of the moment it read it, but for what was written since.               *)
THEOREM SuccessIsRebuilt == Spec => SuccessMeansRebuilt
<1>1. Init => RebuildInv
  <2> SUFFICES ASSUME Init PROVE RebuildInv
    OBVIOUS
  <2>1. StateOK
    BY StateInit
  <2>2. \A r \in Runners : pc[r] = "idle" /\ ~fresh[r]
    BY DEF Init
  <2>3. QED
    BY <2>1, <2>2 DEF RebuildInv, Alone, AllSent, WritesTouched, Rebuilding
<1>2. RebuildInv /\ [Next]_vars => RebuildInv'
  BY StateStep, AloneStep, AllSentStep, WritesTouchedStep, RebuildingStep DEF RebuildInv
<1>3. RebuildInv /\ [Next]_vars =>
        [\A r \in Runners :
            Succeeds(r) /\ fresh[r] /\ ~overlap /\ backend.swap # "alias"
              => Rebuilt(r)]_vars
  BY SuccessStep
<1>4. QED
  BY <1>1, <1>2, <1>3, PTL DEF Spec, SuccessMeansRebuilt

-----------------------------------------------------------------------------
(* Log rows are completed.  A row of a reindex that runs is one of these.  *)
OpenRows == {x \in Runners \X {1, 2} : x[2] <= OpenLogs(x[1])}

(* A fallback needs a backend that does not swap.                          *)
FallsBack ==
    backend.swap # "none" =>
        \A r \in Runners : pc[r] # "undo" /\ (pc[r] # "idle" => ~inner[r])

(* The rows that failures have left pending.                               *)
Left == lostLogs + escapedLogs + unmarkedLogs

(* What is pending is open, left by a failure, or left by a fallback.      *)
RowsCounted ==
    /\ pendingLogs \in Nat /\ lostLogs \in Nat /\ strayLogs \in Nat
    /\ escapedLogs \in Nat /\ unmarkedLogs \in Nat
    /\ pendingLogs = Left + strayLogs + Cardinality(OpenRows)
    /\ backend.swap # "none" => strayLogs = 0

(* What failures leave, and what only reindex_all leaves.                  *)
LossInv ==
    /\ Left <= 2 * faults
    /\ ~cleared => strayLogs = 0 /\ escapedLogs = 0

LogsInv == StateOK /\ FallsBack /\ RowsCounted /\ LiveFilled /\ LossInv

Early == {"create", "query", "populate", "swap", "drop", "cleanup", "undo"}

(* How many rows are open at each label.                                   *)
LEMMA OpenNow ==
    ASSUME NEW r \in Runners
    PROVE  /\ pc[r] \in Early => OpenLogs(r) = 1
           /\ pc[r] = "idle" => OpenLogs(r) = 0
           /\ pc[r] = "clear" => OpenLogs(r) = IF inner[r] THEN 1 ELSE 0
           /\ pc[r] \in {"queryall", "index"} => OpenLogs(r) = IF inner[r] THEN 2 ELSE 1
BY DEF OpenLogs, Early

LEMMA OpenThen ==
    ASSUME NEW r \in Runners
    PROVE  /\ pc'[r] \in Early => OpenLogs(r)' = 1
           /\ pc'[r] = "idle" => OpenLogs(r)' = 0
           /\ pc'[r] = "clear" => OpenLogs(r)' = IF inner'[r] THEN 1 ELSE 0
           /\ pc'[r] \in {"queryall", "index"}
              => OpenLogs(r)' = IF inner'[r] THEN 2 ELSE 1
BY DEF OpenLogs, Early

LEMMA OpenRange ==
    ASSUME StateOK, NEW r \in Runners
    PROVE  OpenLogs(r) \in {0, 1, 2}
BY OpenNow DEF StateOK, Early

(* The rows of one reindex.                                                *)
LEMMA OwnRows ==
    ASSUME NEW r \in Runners, NEW n \in {0, 1, 2}
    PROVE  /\ IsFiniteSet({x \in {r} \X {1, 2} : x[2] <= n})
           /\ Cardinality({x \in {r} \X {1, 2} : x[2] <= n}) = n
<1> DEFINE Own == {x \in {r} \X {1, 2} : x[2] <= n}
<1>1. CASE n = 0
  <2>1. Own = {}
    BY <1>1
  <2>2. QED
    BY <1>1, <2>1, FS_EmptySet
<1>2. CASE n = 1
  <2>1. Own = {<<r, 1>>}
    BY <1>2
  <2>2. QED
    BY <1>2, <2>1, FS_Singleton
<1>3. CASE n = 2
  <2>1. Own = {<<r, 1>>} \cup {<<r, 2>>}
    BY <1>3
  <2>2. <<r, 2>> \notin {<<r, 1>>}
    OBVIOUS
  <2>3. IsFiniteSet({<<r, 1>>}) /\ Cardinality({<<r, 1>>}) = 1
    BY FS_Singleton
  <2>4. /\ IsFiniteSet({<<r, 1>>} \cup {<<r, 2>>})
        /\ Cardinality({<<r, 1>>} \cup {<<r, 2>>}) = 1 + 1
    BY <2>2, <2>3, FS_AddElement, Zenon
  <2>5. IsFiniteSet(Own) /\ Cardinality(Own) = 2
    BY <2>1, <2>4
  <2>6. QED
    BY <1>3, <2>5
<1>4. QED
  BY <1>1, <1>2, <1>3

(* The number of open rows is that of one reindex and that of the others.  *)
LEMMA CountRows ==
    ASSUME NEW r \in Runners, NEW f \in [Runners -> {0, 1, 2}],
           NEW g \in [Runners -> {0, 1, 2}], \A q \in Runners \ {r} : g[q] = f[q]
    PROVE  \E c \in Nat :
             /\ Cardinality({x \in Runners \X {1, 2} : x[2] <= f[x[1]]}) = c + f[r]
             /\ Cardinality({x \in Runners \X {1, 2} : x[2] <= g[x[1]]}) = c + g[r]
<1> DEFINE Rest == {x \in (Runners \ {r}) \X {1, 2} : x[2] <= f[x[1]]}
           Own(n) == {x \in {r} \X {1, 2} : x[2] <= n}
           All(h) == {x \in Runners \X {1, 2} : x[2] <= h[x[1]]}
<1>1. IsFiniteSet(Rest) /\ Cardinality(Rest) \in Nat
  <2>1. IsFiniteSet({1} \cup {2})
    BY FS_Singleton, FS_AddElement
  <2>2. {1} \cup {2} = {1, 2}
    OBVIOUS
  <2>3. IsFiniteSet(Runners \X {1, 2})
    BY <2>1, <2>2, FS_Product, SettingsAssumption
  <2>4. Rest \in SUBSET (Runners \X {1, 2})
    OBVIOUS
  <2>5. QED
    BY <2>3, <2>4, FS_Subset, FS_CardinalityType
<1>2. All(f) = Rest \cup Own(f[r]) /\ All(g) = Rest \cup Own(g[r])
  OBVIOUS
<1>3. ASSUME NEW n \in {0, 1, 2}
      PROVE  Cardinality(Rest \cup Own(n)) = Cardinality(Rest) + n
  <2>1. Rest \cap Own(n) = {}
    OBVIOUS
  <2>2. IsFiniteSet(Own(n)) /\ Cardinality(Own(n)) = n
    BY OwnRows
  <2>3. Cardinality(Rest \cup Own(n)) = Cardinality(Rest) + n - 0
    BY <1>1, <2>1, <2>2, FS_Union, FS_EmptySet
  <2>4. QED
    BY <1>1, <2>3
<1>4. f[r] \in {0, 1, 2} /\ g[r] \in {0, 1, 2}
  OBVIOUS
<1>5. QED
  BY <1>1, <1>2, <1>3, <1>4

LEMMA OpenRowsChange ==
    ASSUME StateOK, StateOK', NEW r \in Runners,
           \A q \in Runners \ {r} : OpenLogs(q)' = OpenLogs(q)
    PROVE  \E c \in Nat : /\ Cardinality(OpenRows) = c + OpenLogs(r)
                          /\ Cardinality(OpenRows)' = c + OpenLogs(r)'
<1> DEFINE f == [q \in Runners |-> OpenLogs(q)]
           g == [q \in Runners |-> OpenLogs(q)']
<1>1. \A q \in Runners : OpenLogs(q)' \in {0, 1, 2}
  BY OpenThen DEF StateOK, Early
<1>2. f \in [Runners -> {0, 1, 2}] /\ g \in [Runners -> {0, 1, 2}]
  BY <1>1, OpenRange
<1>3. /\ OpenRows = {x \in Runners \X {1, 2} : x[2] <= f[x[1]]}
      /\ OpenRows' = {x \in Runners \X {1, 2} : x[2] <= g[x[1]]}
  BY DEF OpenRows
<1>4. /\ f[r] = OpenLogs(r) /\ g[r] = OpenLogs(r)'
      /\ \A q \in Runners \ {r} : g[q] = f[q]
  OBVIOUS
<1> HIDE DEF f, g
<1>5. QED
  BY <1>2, <1>3, <1>4, CountRows

LEMMA FallsBackStep == StateOK /\ FallsBack /\ [Next]_vars => FallsBack'
<1> SUFFICES ASSUME StateOK, FallsBack, [Next]_vars
             PROVE  FallsBack'
  OBVIOUS
<1>1. ASSUME NEW r \in Runners, Running(r), backend.swap # "none"
      PROVE  pc'[r] # "undo" /\ (pc'[r] # "idle" => ~inner'[r])
  <2>1. pc[r] # "idle"
    BY <1>1, RunningStep
  <2>2. pc[r] # "undo" /\ ~inner[r] /\ ~Undo(r)
    BY <1>1, <2>1 DEF FallsBack, Undo
  <2>3. inner' = inner
    BY <1>1, <2>2 DEF Running, Create, Query, Populate, Swap, Drop, Fails, Cleanup,
       MarkFails, Clear, ClearRaises, QueryAll, IndexBatch, FinishAll, IndexFails,
       AllRaises, Crash
  <2>4. ~ClearRaises(r) /\ ~IndexFails(r) /\ ~AllRaises(r) => pc'[r] # "undo"
    BY <1>1, <2>2 DEF StateOK, Running, Create, Query, Populate, Swap, Drop, Fails,
       Cleanup, MarkFails, Clear, QueryAll, IndexBatch, FinishAll, Crash, Ends, Goto
  <2>5. ClearRaises(r) \/ IndexFails(r) \/ AllRaises(r) => pc'[r] # "undo"
    BY LeavesType DEF ClearRaises, IndexFails, AllRaises
  <2>6. QED
    BY <2>2, <2>3, <2>4, <2>5
<1>2. ASSUME NEW r \in Runners, Running(r)
      PROVE  FallsBack'
  <2>1. backend' = backend /\ \A q \in Runners \ {r} : inner'[q] = inner[q]
    BY <1>2 DEF StateOK, Running, Create, Query, Populate, Swap, Drop, Fails, Cleanup,
       MarkFails, Undo, Clear, ClearRaises, QueryAll, IndexBatch, FinishAll, IndexFails,
       AllRaises, Crash
  <2>2. QED
    BY <1>1, <1>2, <2>1, RunningStep DEF FallsBack
<1>3. ASSUME NEW r \in Runners, StartZeroDowntime(r) \/ StartAll(r)
      PROVE  FallsBack'
  <2>1. /\ inner'[r] = FALSE
        /\ \A q \in Runners \ {r} : inner'[q] = inner[q]
    BY <1>3 DEF StateOK, StartZeroDowntime, StartAll, Start
  <2>2. QED
    BY <1>3, <2>1, StartStep DEF FallsBack
<1>4. ASSUME UNCHANGED <<backend, pc, inner>>
      PROVE  FallsBack'
  BY <1>4 DEF FallsBack
<1>5. QED
  BY <1>2, <1>3, <1>4, NextCases DEF Commit, Write, vars, reindexVars

(* How a step moves rows between the counts.                               *)
LEMMA RowsMove ==
    ASSUME LogsInv, StateOK', NEW r \in Runners, backend' = backend,
           \A q \in Runners \ {r} : pc'[q] = pc[q] /\ inner'[q] = inner[q],
           lostLogs' \in Nat, strayLogs' \in Nat, escapedLogs' \in Nat,
           unmarkedLogs' \in Nat,
           backend.swap # "none" => strayLogs' = strayLogs,
           pendingLogs' + (Left + strayLogs + OpenLogs(r))
             = pendingLogs + (Left' + strayLogs' + OpenLogs(r)'),
           pendingLogs' \in Int
    PROVE  RowsCounted'
<1>1. \A q \in Runners \ {r} : OpenLogs(q)' = OpenLogs(q)
  BY DEF OpenLogs
<1>2. PICK c \in Nat : /\ Cardinality(OpenRows) = c + OpenLogs(r)
                       /\ Cardinality(OpenRows)' = c + OpenLogs(r)'
  BY <1>1, OpenRowsChange DEF LogsInv
<1>3. OpenLogs(r) \in {0, 1, 2} /\ OpenLogs(r)' \in {0, 1, 2}
  BY OpenRange, OpenThen DEF LogsInv, StateOK, Early
<1>4. /\ pendingLogs \in Nat /\ Left \in Nat /\ strayLogs \in Nat
      /\ pendingLogs = Left + strayLogs + (c + OpenLogs(r))
      /\ backend.swap # "none" => strayLogs = 0
  BY <1>2 DEF LogsInv, RowsCounted, Left
<1>5. Left' \in Nat
  BY DEF Left
<1>6. pendingLogs' = Left' + strayLogs' + (c + OpenLogs(r)')
  BY <1>3, <1>4, <1>5
<1>7. pendingLogs' \in Nat
  BY <1>3, <1>5, <1>6
<1>8. QED
  BY <1>2, <1>4, <1>6, <1>7 DEF RowsCounted

(* What is open of a reindex, and what it leaves, before and after a step. *)
Moves(r, pending, open, left) ==
    /\ pendingLogs' = pendingLogs + pending
    /\ OpenLogs(r)' = OpenLogs(r) + open
    /\ \/ left = 0 /\ UNCHANGED <<lostLogs, escapedLogs, unmarkedLogs>>
       \/ left \in {0, 1, 2} /\ lostLogs' = lostLogs + left
          /\ UNCHANGED <<escapedLogs, unmarkedLogs>>
       \/ left = 1 /\ escapedLogs' = escapedLogs + 1 /\ UNCHANGED <<lostLogs, unmarkedLogs>>
       \/ left = 1 /\ unmarkedLogs' = unmarkedLogs + 1 /\ UNCHANGED <<lostLogs, escapedLogs>>

LEMMA RowsKept ==
    ASSUME LogsInv, StateOK', NEW r \in Runners, backend' = backend,
           \A q \in Runners \ {r} : pc'[q] = pc[q] /\ inner'[q] = inner[q],
           strayLogs' = strayLogs,
           NEW pending \in Int, NEW open \in Int, NEW left \in {0, 1, 2},
           Moves(r, pending, open, left), pending = open + left
    PROVE  RowsCounted'
<1>1. /\ lostLogs \in Nat /\ strayLogs \in Nat /\ escapedLogs \in Nat
      /\ unmarkedLogs \in Nat /\ pendingLogs \in Nat
  BY DEF LogsInv, RowsCounted
<1>2. lostLogs' \in Nat /\ escapedLogs' \in Nat /\ unmarkedLogs' \in Nat
  BY <1>1 DEF Moves
<1>3. Left' = Left + left /\ Left \in Nat
  BY <1>1 DEF Moves, Left
<1>4. OpenLogs(r) \in {0, 1, 2}
  BY OpenRange DEF LogsInv
<1>5. /\ pendingLogs' = pendingLogs + pending
      /\ OpenLogs(r)' = OpenLogs(r) + open
  BY DEF Moves
<1>6. pendingLogs' + (Left + strayLogs + OpenLogs(r))
        = pendingLogs + (Left' + strayLogs' + OpenLogs(r)')
  BY <1>1, <1>3, <1>4, <1>5
<1>7. pendingLogs' \in Int
  BY <1>1, <1>5
<1>8. QED
  BY <1>1, <1>2, <1>6, <1>7, RowsMove

LEMMA RowsStep == LogsInv /\ StateOK' /\ [Next]_vars => RowsCounted'
<1> SUFFICES ASSUME LogsInv, StateOK', [Next]_vars
             PROVE  RowsCounted'
  OBVIOUS
<1> USE DEF LogsInv, lossVars
<1>0. /\ pendingLogs \in Nat /\ lostLogs \in Nat /\ strayLogs \in Nat
      /\ escapedLogs \in Nat /\ unmarkedLogs \in Nat
  BY DEF RowsCounted
<1>1. ASSUME UNCHANGED <<backend, pc, inner, pendingLogs, lossVars>>
      PROVE  RowsCounted'
  BY <1>1 DEF RowsCounted, Left, OpenRows, OpenLogs
<1>2. ASSUME NEW r \in Runners, StartZeroDowntime(r) \/ StartAll(r)
      PROVE  RowsCounted'
  <2>1. /\ pc[r] = "idle" /\ backend' = backend /\ UNCHANGED lossVars
        /\ inner'[r] = FALSE
        /\ \A q \in Runners \ {r} : pc'[q] = pc[q] /\ inner'[q] = inner[q]
        /\ \/ pc'[r] = "create" /\ pendingLogs' = pendingLogs + 1
           \/ pc'[r] = "clear" /\ pendingLogs' = pendingLogs
    BY <1>2 DEF StateOK, StartZeroDowntime, StartAll, Start, Goto
  <2>2. CASE pc'[r] = "create" /\ pendingLogs' = pendingLogs + 1
    <3>1. Moves(r, 1, 1, 0)
      BY <2>1, <2>2, OpenNow, OpenThen DEF Early, Moves
    <3>2. 1 \in Int /\ 0 \in {0, 1, 2} /\ 1 = 1 + 0 /\ strayLogs' = strayLogs
      BY <2>1
    <3>3. QED
      BY <2>1, <3>1, <3>2, RowsKept
  <2>3. CASE pc'[r] = "clear" /\ pendingLogs' = pendingLogs
    <3>1. Moves(r, 0, 0, 0)
      BY <1>0, <2>1, <2>3, OpenNow, OpenThen DEF Early, Moves
    <3>2. QED
      BY <2>1, <3>1, RowsKept
  <2>4. QED
    BY <2>1, <2>2, <2>3
<1>3. ASSUME NEW r \in Runners, Running(r)
      PROVE  /\ backend' = backend
             /\ \A q \in Runners \ {r} : pc'[q] = pc[q] /\ inner'[q] = inner[q]
             /\ ~Undo(r) => inner' = inner
             /\ ~FinishAll(r) => strayLogs' = strayLogs
  <2>1. /\ backend' = backend /\ \A q \in Runners \ {r} : inner'[q] = inner[q]
        /\ ~Undo(r) => inner' = inner
        /\ ~FinishAll(r) => strayLogs' = strayLogs
    BY <1>3 DEF StateOK, Running, Create, Query, Populate, Swap, Drop, Fails, Cleanup,
       MarkFails, Undo, Clear, ClearRaises, QueryAll, IndexBatch, FinishAll, IndexFails,
       AllRaises, Crash
  <2>2. QED
    BY <1>3, <2>1, RunningStep
<1>4. ASSUME NEW r \in Runners, Running(r), ~FinishAll(r), NEW pending \in Int,
             NEW open \in Int, NEW left \in {0, 1, 2}, Moves(r, pending, open, left),
             pending = open + left
      PROVE  RowsCounted'
  BY <1>3, <1>4, RowsKept
<1>5. ASSUME NEW r \in Runners, Running(r)
      PROVE  /\ pc[r] # "index" => ~FinishAll(r)
             /\ todo[r] # {} => ~FinishAll(r)
  BY DEF FinishAll
<1>6. ASSUME NEW r \in Runners, Create(r) \/ Query(r) \/ Populate(r) \/ Swap(r) \/ Fails(r)
      PROVE  RowsCounted'
  <2>1. /\ pc[r] \in Early /\ pc'[r] \in Early /\ pendingLogs' = pendingLogs
        /\ UNCHANGED lossVars
    BY <1>6 DEF StateOK, Early, Create, Query, Populate, Swap, Fails, Goto
  <2>2. Moves(r, 0, 0, 0)
    BY <1>0, <2>1, OpenNow, OpenThen DEF Moves
  <2>3. ~FinishAll(r)
    BY <2>1 DEF FinishAll, Early
  <2>4. QED
    BY <1>4, <1>6, <2>2, <2>3 DEF Running
<1>7. ASSUME NEW r \in Runners, Undo(r)
      PROVE  RowsCounted'
  <2>1. /\ pc[r] = "undo" /\ pc'[r] = "clear" /\ inner'[r] = TRUE
        /\ pendingLogs' = pendingLogs /\ UNCHANGED lossVars
    BY <1>7 DEF StateOK, Undo, Goto
  <2>2. Moves(r, 0, 0, 0)
    BY <1>0, <2>1, OpenNow, OpenThen DEF Early, Moves
  <2>3. QED
    BY <1>4, <1>5, <1>7, <2>1, <2>2 DEF Running
<1>8. ASSUME NEW r \in Runners, Drop(r) \/ Cleanup(r)
      PROVE  RowsCounted'
  <2>1. /\ pc[r] \in {"drop", "cleanup"} /\ pc'[r] = "idle"
        /\ pendingLogs' = pendingLogs - 1 /\ UNCHANGED lossVars
    BY <1>8 DEF StateOK, Drop, Cleanup, Ends, Goto
  <2>2. Moves(r, -1, -1, 0)
    BY <1>0, <2>1, OpenNow, OpenThen DEF Early, Moves
  <2>3. QED
    BY <1>4, <1>5, <1>8, <2>1, <2>2 DEF Running
<1>9. ASSUME NEW r \in Runners, MarkFails(r)
      PROVE  RowsCounted'
  <2>1. CASE pc[r] = "drop"
    <3>1. /\ pc'[r] = "cleanup" /\ pendingLogs' = pendingLogs /\ UNCHANGED lossVars
      BY <1>9, <2>1 DEF StateOK, MarkFails, Goto
    <3>2. Moves(r, 0, 0, 0)
      BY <1>0, <2>1, <3>1, OpenNow, OpenThen DEF Early, Moves
    <3>3. QED
      BY <1>4, <1>5, <1>9, <2>1, <3>2 DEF Running
  <2>2. CASE pc[r] = "cleanup"
    <3>1. /\ pc'[r] = "idle" /\ pendingLogs' = pendingLogs
          /\ unmarkedLogs' = unmarkedLogs + 1 /\ UNCHANGED <<lostLogs, escapedLogs>>
      BY <1>9, <2>2 DEF StateOK, MarkFails, Goto
    <3>2. Moves(r, 0, -1, 1)
      BY <1>0, <2>2, <3>1, OpenNow, OpenThen DEF Early, Moves
    <3>3. QED
      BY <1>4, <1>5, <1>9, <2>2, <3>2 DEF Running
  <2>3. QED
    BY <1>9, <2>1, <2>2 DEF MarkFails
<1>10. ASSUME NEW r \in Runners, Clear(r)
       PROVE  RowsCounted'
  <2>1. /\ pc[r] = "clear" /\ pc'[r] = "queryall" /\ inner'[r] = inner[r]
        /\ pendingLogs' = pendingLogs + 1 /\ UNCHANGED lossVars
    BY <1>10 DEF StateOK, Clear, Goto
  <2>2. OpenLogs(r)' = OpenLogs(r) + 1
    BY <2>1, OpenNow, OpenThen DEF StateOK
  <2>3. Moves(r, 1, 1, 0)
    BY <2>1, <2>2 DEF Moves
  <2>4. QED
    BY <1>4, <1>5, <1>10, <2>1, <2>3 DEF Running
<1>11. ASSUME NEW r \in Runners, ClearRaises(r)
       PROVE  RowsCounted'
  <2>1. /\ pc[r] = "clear" /\ pendingLogs' = pendingLogs /\ UNCHANGED lossVars
        /\ pc'[r] = IF inner[r] THEN "cleanup" ELSE "idle"
    BY <1>11, LeavesType DEF ClearRaises
  <2>2. OpenLogs(r)' = OpenLogs(r) + 0 /\ OpenLogs(r) \in {0, 1}
    BY <2>1, OpenNow, OpenThen DEF StateOK, Early
  <2>3. Moves(r, 0, 0, 0)
    BY <1>0, <2>1, <2>2 DEF Moves
  <2>4. QED
    BY <1>4, <1>5, <1>11, <2>1, <2>3 DEF Running
<1>12. ASSUME NEW r \in Runners, QueryAll(r) \/ IndexBatch(r)
       PROVE  RowsCounted'
  <2>1. /\ pc[r] \in {"queryall", "index"} /\ pc'[r] = "index" /\ inner'[r] = inner[r]
        /\ pendingLogs' = pendingLogs /\ UNCHANGED lossVars
    BY <1>12 DEF StateOK, QueryAll, IndexBatch, Goto
  <2>2. OpenLogs(r)' = OpenLogs(r) + 0 /\ OpenLogs(r) \in {1, 2}
    BY <2>1, OpenNow, OpenThen DEF StateOK
  <2>3. Moves(r, 0, 0, 0)
    BY <1>0, <2>1, <2>2 DEF Moves
  <2>4. ~FinishAll(r)
    BY <1>12 DEF QueryAll, IndexBatch, FinishAll
  <2>5. QED
    BY <1>4, <1>12, <2>3, <2>4 DEF Running
<1>13. ASSUME NEW r \in Runners, FinishAll(r)
       PROVE  RowsCounted'
  <2>1. /\ pc[r] = "index" /\ pc'[r] = "idle" /\ pendingLogs' = pendingLogs - 1
        /\ UNCHANGED <<lostLogs, escapedLogs, unmarkedLogs>>
        /\ strayLogs' = strayLogs + IF inner[r] THEN 1 ELSE 0
    BY <1>13 DEF StateOK, FinishAll, Ends, Goto
  <2>2. /\ OpenLogs(r) = IF inner[r] THEN 2 ELSE 1
        /\ OpenLogs(r)' = 0
        /\ inner[r] => backend.swap = "none"
    BY <2>1, OpenNow, OpenThen DEF FallsBack
  <2>3. strayLogs' \in Nat /\ strayLogs' + 1 = strayLogs + OpenLogs(r)
    BY <1>0, <2>1, <2>2 DEF StateOK
  <2>4. backend.swap # "none" => strayLogs' = strayLogs
    BY <1>0, <2>1, <2>2 DEF StateOK
  <2>5. Left' = Left /\ Left \in Nat
    BY <1>0, <2>1 DEF Left
  <2>6. OpenLogs(r) \in {1, 2}
    BY <2>2 DEF StateOK
  <2>7. pendingLogs' + (Left + strayLogs + OpenLogs(r))
          = pendingLogs + (Left' + strayLogs' + OpenLogs(r)')
    BY <1>0, <2>1, <2>2, <2>3, <2>5, <2>6
  <2>8. Running(r) /\ pendingLogs' \in Int
    BY <1>0, <1>13, <2>1 DEF Running
  <2>9. QED
    BY <1>0, <1>3, <2>1, <2>3, <2>4, <2>7, <2>8, RowsMove
<1>14. ASSUME NEW r \in Runners, IndexFails(r)
       PROVE  RowsCounted'
  <2>1. /\ pc[r] = "index" /\ pendingLogs' = pendingLogs - 1 /\ UNCHANGED lossVars
        /\ pc'[r] = IF inner[r] THEN "cleanup" ELSE "idle"
    BY <1>14, LeavesType DEF IndexFails
  <2>2. OpenLogs(r)' = OpenLogs(r) - 1 /\ OpenLogs(r) \in {1, 2}
    BY <2>1, OpenNow, OpenThen DEF StateOK, Early
  <2>3. Moves(r, -1, -1, 0)
    BY <1>0, <2>1, <2>2 DEF Moves
  <2>4. ~FinishAll(r)
    BY <1>14 DEF IndexFails, FinishAll
  <2>5. QED
    BY <1>4, <1>14, <2>3, <2>4 DEF Running
<1>15. ASSUME NEW r \in Runners, AllRaises(r)
       PROVE  RowsCounted'
  <2>1. /\ pc[r] \in {"queryall", "index"} /\ pendingLogs' = pendingLogs
        /\ escapedLogs' = escapedLogs + 1 /\ UNCHANGED <<lostLogs, strayLogs, unmarkedLogs>>
        /\ pc'[r] = IF inner[r] THEN "cleanup" ELSE "idle"
    BY <1>15, LeavesType DEF AllRaises
  <2>2. OpenLogs(r)' = OpenLogs(r) - 1 /\ OpenLogs(r) \in {1, 2}
    BY <2>1, OpenNow, OpenThen DEF StateOK, Early
  <2>3. Moves(r, 0, -1, 1)
    BY <1>0, <2>1, <2>2 DEF Moves
  <2>4. Running(r) /\ backend' = backend /\ strayLogs' = strayLogs
        /\ \A q \in Runners \ {r} : pc'[q] = pc[q] /\ inner'[q] = inner[q]
    BY <1>3, <1>15, <2>1 DEF Running
  <2>5. QED
    BY <2>3, <2>4, RowsKept
<1>16. ASSUME NEW r \in Runners, Crash(r)
       PROVE  RowsCounted'
  <2>1. /\ pc'[r] = "idle" /\ pendingLogs' = pendingLogs
        /\ lostLogs' = lostLogs + OpenLogs(r)
        /\ UNCHANGED <<strayLogs, escapedLogs, unmarkedLogs>>
    BY <1>16 DEF StateOK, Crash, Goto
  <2>2. OpenLogs(r) \in {0, 1, 2} /\ OpenLogs(r)' = 0
    BY <2>1, OpenRange, OpenThen
  <2>3. Moves(r, 0, -OpenLogs(r), OpenLogs(r))
    BY <1>0, <2>1, <2>2 DEF Moves
  <2>4. Running(r) /\ backend' = backend /\ strayLogs' = strayLogs
        /\ \A q \in Runners \ {r} : pc'[q] = pc[q] /\ inner'[q] = inner[q]
    BY <1>3, <1>16, <2>1 DEF Running
  <2>5. -OpenLogs(r) \in Int /\ 0 = -OpenLogs(r) + OpenLogs(r)
    BY <2>2
  <2>6. QED
    BY <2>2, <2>3, <2>4, <2>5, RowsKept
<1>17. ASSUME NEW r \in Runners, Running(r)
       PROVE  RowsCounted'
  BY <1>6, <1>7, <1>8, <1>9, <1>10, <1>11, <1>12, <1>13, <1>14, <1>15, <1>16, <1>17
     DEF Running
<1>18. QED
  BY <1>1, <1>2, <1>17, NextCases DEF Commit, Write, vars, reindexVars

(* A fault leaves two rows at most; only a reindex_all leaves rows of its   *)
(* own errors and of its fallback.                                          *)
LEMMA LossStep == LogsInv /\ [Next]_vars => LossInv'
<1> SUFFICES ASSUME LogsInv, [Next]_vars
             PROVE  LossInv'
  OBVIOUS
<1> USE DEF LogsInv, lossVars
<1>0. /\ lostLogs \in Nat /\ strayLogs \in Nat /\ escapedLogs \in Nat
      /\ unmarkedLogs \in Nat /\ faults \in Nat /\ Left <= 2 * faults
      /\ ~cleared => strayLogs = 0 /\ escapedLogs = 0
  BY SettingsAssumption DEF RowsCounted, StateOK, LossInv
<1>1. ASSUME UNCHANGED lossVars, ~cleared' => ~cleared,
             faults' = faults \/ faults' = faults + 1
      PROVE  LossInv'
  <2>1. Left' = Left /\ Left \in Nat
    BY <1>0, <1>1 DEF Left
  <2>2. Left' <= 2 * faults'
    BY <1>0, <1>1, <2>1
  <2>3. ~cleared' => strayLogs' = 0 /\ escapedLogs' = 0
    BY <1>0, <1>1
  <2>4. QED
    BY <2>2, <2>3 DEF LossInv
<1>2. ASSUME NEW r \in Runners, StartZeroDowntime(r) \/ StartAll(r)
      PROVE  LossInv'
  BY <1>1, <1>2, StartStep
<1>3. ASSUME NEW r \in Runners, FinishAll(r)
      PROVE  LossInv'
  <2>1. /\ cleared /\ cleared' = cleared /\ faults' = faults
        /\ UNCHANGED <<lostLogs, escapedLogs, unmarkedLogs>>
    BY <1>3 DEF FinishAll, LiveFilled, boundVars
  <2>2. QED
    BY <1>0, <2>1 DEF Left, LossInv
<1>4. ASSUME NEW r \in Runners, AllRaises(r)
      PROVE  LossInv'
  <2>1. /\ cleared /\ cleared' = cleared /\ faults' = faults + 1
        /\ escapedLogs' = escapedLogs + 1 /\ UNCHANGED <<lostLogs, strayLogs, unmarkedLogs>>
    BY <1>4 DEF AllRaises, LiveFilled, Fault
  <2>2. Left' = Left + 1 /\ Left \in Nat
    BY <1>0, <2>1 DEF Left
  <2>3. Left' <= 2 * faults'
    BY <1>0, <2>1, <2>2
  <2>4. QED
    BY <2>1, <2>3 DEF LossInv
<1>5. ASSUME NEW r \in Runners, Crash(r)
      PROVE  LossInv'
  <2>1. /\ cleared' = cleared /\ faults' = faults + 1
        /\ lostLogs' = lostLogs + OpenLogs(r)
        /\ UNCHANGED <<strayLogs, escapedLogs, unmarkedLogs>>
    BY <1>5 DEF Crash, Fault
  <2>2. OpenLogs(r) \in {0, 1, 2}
    BY OpenRange
  <2>3. Left' = Left + OpenLogs(r)
    BY <1>0, <2>1, <2>2 DEF Left
  <2>4. Left' <= 2 * faults'
    BY <1>0, <2>1, <2>2, <2>3 DEF Left
  <2>5. QED
    BY <1>0, <2>1, <2>4 DEF LossInv
<1>6. ASSUME NEW r \in Runners, MarkFails(r)
      PROVE  LossInv'
  <2>1. /\ cleared' = cleared /\ faults' = faults + 1
        /\ unmarkedLogs' \in {unmarkedLogs, unmarkedLogs + 1}
        /\ UNCHANGED <<lostLogs, strayLogs, escapedLogs>>
    BY <1>6 DEF MarkFails, Fault
  <2>2. Left' \in {Left, Left + 1} /\ Left \in Nat
    <3>1. CASE unmarkedLogs' = unmarkedLogs
      BY <1>0, <2>1, <3>1 DEF Left
    <3>2. CASE unmarkedLogs' = unmarkedLogs + 1
      BY <1>0, <2>1, <3>2 DEF Left
    <3>3. QED
      BY <2>1, <3>1, <3>2
  <2>3. Left' <= 2 * faults'
    BY <1>0, <2>1, <2>2
  <2>4. QED
    BY <1>0, <2>1, <2>3 DEF LossInv
<1>7. ASSUME NEW r \in Runners, Running(r), ~FinishAll(r), ~AllRaises(r), ~Crash(r),
             ~MarkFails(r)
      PROVE  LossInv'
  <2>1. UNCHANGED lossVars /\ (~cleared' => ~cleared)
    BY <1>7 DEF Running, Create, Query, Populate, Swap, Drop, Fails, Cleanup, Undo,
       Clear, ClearRaises, QueryAll, IndexBatch, IndexFails
  <2>2. faults' = faults \/ faults' = faults + 1
    BY <1>7 DEF Running, Create, Query, Populate, Swap, Drop, Fails, Cleanup, Undo,
       Clear, ClearRaises, QueryAll, IndexBatch, IndexFails, DeleteTemp, Fault, boundVars
  <2>3. QED
    BY <1>1, <2>1, <2>2
<1>8. ASSUME NEW w \in Writers, Write(w)
      PROVE  LossInv'
  BY <1>1, <1>8 DEF Write, Fault
<1>9. ASSUME NEW w \in Writers, NEW d \in Docs, NEW v \in Ver, Commit(w, d, v)
      PROVE  LossInv'
  BY <1>1, <1>9 DEF Commit, boundVars
<1>10. CASE UNCHANGED vars
  BY <1>1, <1>10 DEF vars, boundVars
<1>11. QED
  BY <1>2, <1>3, <1>4, <1>5, <1>6, <1>7, <1>8, <1>9, <1>10, NextCases

LEMMA LogsInit == Init => LogsInv
<1> SUFFICES ASSUME Init PROVE LogsInv
  OBVIOUS
<1>1. \A r \in Runners : OpenLogs(r) = 0
  BY OpenNow DEF Init
<1>2. OpenRows = {}
  BY <1>1 DEF OpenRows
<1>3. FallsBack /\ LiveFilled
  BY DEF Init, FallsBack, LiveFilled
<1>4. RowsCounted /\ LossInv
  BY <1>2, FS_EmptySet DEF Init, RowsCounted, LossInv, Left
<1>5. QED
  BY <1>3, <1>4, StateInit DEF LogsInv

(* Every row that is pending is one a reindex still has to complete, or one *)
(* of those counted as left.                                                *)
THEOREM RowsAreCounted == Spec => []LogsInv
<1>1. LogsInv /\ [Next]_vars => LogsInv'
  BY StateStep, FallsBackStep, RowsStep, LiveFilledStep, LossStep DEF LogsInv
<1>2. QED
  BY <1>1, LogsInit, PTL DEF Spec

(* TypeOK, for any documents, processes and bounds.                         *)
THEOREM TypeCorrect == Spec => []TypeOK
<1>1. LogsInv => TypeOK
  BY DEF LogsInv, RowsCounted, TypeOK
<1>2. QED
  BY <1>1, RowsAreCounted, PTL

(* LogsClosed: at rest the rows pending are those of killed processes, of   *)
(* calls that returned by their fallback, of reindex_all calls that ended   *)
(* on an error their handler does not take, and those whose completion      *)
(* failed; reindex_zero_downtime alone leaves none of the second and third  *)
(* kind (reindex_zero_downtime, reindex_all).                               *)
THEOREM LogsAreClosed == Spec => []LogsClosed
<1>1. LogsInv => LogsClosed
  <2> SUFFICES ASSUME LogsInv, \A r \in Runners : pc[r] = "idle"
               PROVE  /\ pendingLogs = lostLogs + strayLogs + escapedLogs + unmarkedLogs
                      /\ backend.swap # "none" => strayLogs = 0
                      /\ ~cleared => strayLogs = 0 /\ escapedLogs = 0
                      /\ lostLogs + escapedLogs + unmarkedLogs <= 2 * faults
    BY DEF LogsClosed
  <2>1. \A r \in Runners : OpenLogs(r) = 0
    BY OpenNow
  <2>2. OpenRows = {}
    BY <2>1 DEF OpenRows
  <2>3. pendingLogs = Left + strayLogs + 0
    BY <2>2, FS_EmptySet DEF LogsInv, RowsCounted
  <2>4. /\ lostLogs \in Nat /\ strayLogs \in Nat /\ escapedLogs \in Nat
        /\ unmarkedLogs \in Nat
        /\ backend.swap # "none" => strayLogs = 0
    BY DEF LogsInv, RowsCounted
  <2>5. pendingLogs = lostLogs + strayLogs + escapedLogs + unmarkedLogs
    BY <2>3, <2>4 DEF Left
  <2>6. QED
    BY <2>4, <2>5 DEF LogsInv, LossInv, Left
<1>2. QED
  BY <1>1, RowsAreCounted, PTL
=============================================================================
