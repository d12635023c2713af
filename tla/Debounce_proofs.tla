-------------------------- MODULE Debounce_proofs --------------------------
(***************************************************************************)
(* Proofs about Debounce, for every set of documents, web processes and    *)
(* workers and every value of the settings: typing, and that the events    *)
(* recorded in cause are the only ways in which an update gets lost.       *)
(***************************************************************************)
EXTENDS Debounce, TLAPS

(* What the deduplication of a flush returns is a set of the operations it *)
(* was given.                                                              *)
LEMMA LastPerDocType ==
    ASSUME NEW items \in Seq(Op)
    PROVE  LastPerDoc(items) \in SUBSET Op
BY DEF LastPerDoc

(* It keeps one operation per document.                                    *)
LEMMA LastPerDocDistinct ==
    ASSUME NEW items \in Seq(Op),
           NEW op1 \in LastPerDoc(items), NEW op2 \in LastPerDoc(items),
           op1.doc = op2.doc
    PROVE  op1 = op2
<1>1. PICK i \in DOMAIN items :
        op1 = items[i] /\ \A j \in DOMAIN items : items[j].doc = items[i].doc => j <= i
  BY DEF LastPerDoc
<1>2. PICK k \in DOMAIN items :
        op2 = items[k] /\ \A j \in DOMAIN items : items[j].doc = items[k].doc => j <= k
  BY DEF LastPerDoc
<1>3. i <= k /\ k <= i
  BY <1>1, <1>2
<1>4. i \in Nat /\ k \in Nat
  OBVIOUS
<1>5. QED
  BY <1>1, <1>2, <1>3, <1>4

(* From a list in commit order it keeps every newest operation.            *)
LEMMA LastPerDocKeepsNewest ==
    ASSUME NEW items \in Seq(Op), Sorted(items),
           NEW i \in DOMAIN items,
           \A j \in DOMAIN items :
              items[j].doc = items[i].doc => items[j].ver <= items[i].ver
    PROVE  items[i] \in LastPerDoc(items)
<1>1. ASSUME NEW j \in DOMAIN items, items[j].doc = items[i].doc
      PROVE  j <= i
  <2>1. items[j].ver <= items[i].ver
    BY <1>1
  <2>2. ~ (i < j)
    <3>1. items[i] \in Op /\ items[j] \in Op
      BY <1>1
    <3>2. items[i].ver \in Ver /\ items[j].ver \in Ver
      BY <3>1 DEF Op
    <3>3. QED
      BY <1>1, <2>1, <3>2, SettingsAssumption DEF Sorted, Ver
  <2>3. i \in Nat /\ j \in Nat
    BY <1>1
  <2>4. QED
    BY <2>2, <2>3
<1>2. QED
  BY <1>1 DEF LastPerDoc

(* A request is a set of operations that remain to be sent.                *)
LEMMA ChunkIsPart ==
    ASSUME NEW todo, NEW chunk \in Chunks(todo)
    PROVE  chunk \subseteq todo
BY DEF Chunks

(* Whatever set of operations the engine applies, it holds a state.        *)
LEMMA ApplyType ==
    ASSUME engine \in [Docs -> State], NEW ops \in SUBSET Op, Apply(ops)
    PROVE  engine' \in [Docs -> State]
<1>1. ASSUME NEW d \in Docs, \E op \in ops : op.doc = d
      PROVE  Content(CHOOSE op \in ops : op.doc = d) \in State
  BY <1>1 DEF Content, Op, State
<1>2. QED
  BY <1>1 DEF Apply

(* What an operation is made of.                                           *)
LEMMA OpParts ==
    ASSUME NEW op \in Op
    PROVE  op.doc \in Docs /\ op.side \in Sides /\ op.ver \in Ver
BY DEF Op

(* The delays given to apply_async and to cache.set fit the window.        *)
LEMMA DelayType ==
    ASSUME NEW items
    PROVE  Countdown(items) \in Delays /\ KeyTimeout(items) \in Delays
BY SettingsAssumption DEF Countdown, KeyTimeout, Delays

(* The recorded event is one of those listed.                              *)
LEMMA CauseType ==
    ASSUME cause \in Causes, NEW c \in Causes, NEW P,
           Record(c) \/ RecordIf(P, c) \/ UNCHANGED cause
    PROVE  cause' \in Causes
BY DEF Record, RecordIf

-----------------------------------------------------------------------------
(* The state is well typed in every reachable state.                       *)
THEOREM TypeCorrect == Spec => []TypeOK
<1>1. Init => TypeOK
  BY SettingsAssumption DEF Init, TypeOK, StoreTypeOK, CacheTypeOK, HookTypeOK,
     FlushTypeOK, State, Absent, Sides, Ver, BufferTTL, Delays, Causes
<1>2. TypeOK /\ [Next]_vars => TypeOK'
  <2> SUFFICES ASSUME TypeOK, [Next]_vars PROVE TypeOK'
    OBVIOUS
  <2> USE DEF TypeOK
  <2>1. ASSUME NEW w \in Writers, NEW d \in Docs, NEW s \in Sides, Commit(w, d, s) PROVE TypeOK'
    <3>1. StoreTypeOK'
      BY <2>1, SettingsAssumption DEF Commit, StoreTypeOK, State, Ver
    <3>2. CacheTypeOK'
      BY <2>1 DEF Commit, CacheTypeOK, cacheVars
    <3>3. HookTypeOK'
      <4>1. commits + 1 \in Ver
        BY <2>1, SettingsAssumption DEF Commit, StoreTypeOK, Ver
      <4>2. [doc |-> d, side |-> s, ver |-> commits + 1] \in Op
        BY <4>1 DEF Op
      <4>3. QED
        BY <2>1, <4>2 DEF Commit, HookTypeOK
    <3>4. FlushTypeOK'
      BY <2>1 DEF Commit, FlushTypeOK, flusherVars
    <3>5. QED
      BY <3>1, <3>2, <3>3, <3>4
  <2>2. ASSUME NEW w \in Writers, BufferGet(w) PROVE TypeOK'
    <3>1. StoreTypeOK'
      BY <2>2 DEF BufferGet, StoreTypeOK
    <3>2. CacheTypeOK'
      BY <2>2 DEF BufferGet, CacheTypeOK, cacheVars
    <3>3. HookTypeOK'
      BY <2>2, OpParts DEF BufferGet, HookTypeOK, CacheTypeOK
    <3>4. FlushTypeOK'
      BY <2>2 DEF BufferGet, FlushTypeOK, flusherVars
    <3>5. QED
      BY <3>1, <3>2, <3>3, <3>4
  <2>3. ASSUME NEW w \in Writers, BufferSet(w) PROVE TypeOK'
    <3>1. StoreTypeOK'
      BY <2>3, CauseType DEF BufferSet, StoreTypeOK, Causes
    <3>2. CacheTypeOK'
      BY <2>3, OpParts, SettingsAssumption
         DEF BufferSet, HookTypeOK, CacheTypeOK, BufferTTL
    <3>3. HookTypeOK'
      BY <2>3 DEF BufferSet, HookTypeOK, writerVars
    <3>4. FlushTypeOK'
      BY <2>3 DEF BufferSet, FlushTypeOK, flusherVars
    <3>5. QED
      BY <3>1, <3>2, <3>3, <3>4
  <2>4. ASSUME NEW w \in Writers,
               AlreadyScheduled(w) \/ MustSchedule(w)
        PROVE  TypeOK'
    <3>1. StoreTypeOK'
      BY <2>4 DEF AlreadyScheduled, StoreTypeOK, MustSchedule
    <3>2. CacheTypeOK'
      BY <2>4 DEF AlreadyScheduled, MustSchedule, CacheTypeOK, cacheVars
    <3>3. HookTypeOK'
      <4>1. CASE AlreadyScheduled(w)
        BY <4>1 DEF AlreadyScheduled, HookTypeOK
      <4>2. CASE MustSchedule(w)
        BY <4>2 DEF MustSchedule, HookTypeOK
      <4>3. QED
        BY <2>4, <4>1, <4>2
    <3>4. FlushTypeOK'
      BY <2>4 DEF AlreadyScheduled, MustSchedule, FlushTypeOK, flusherVars
    <3>5. QED
      BY <3>1, <3>2, <3>3, <3>4
  <2>5. ASSUME NEW w \in Writers, Schedule(w) PROVE TypeOK'
    <3>1. StoreTypeOK'
      BY <2>5 DEF Schedule, StoreTypeOK
    <3>2. CacheTypeOK'
      BY <2>5, OpParts, DelayType DEF Schedule, HookTypeOK, CacheTypeOK, cacheVars
    <3>3. HookTypeOK'
      BY <2>5 DEF Schedule, HookTypeOK, writerVars
    <3>4. FlushTypeOK'
      BY <2>5 DEF Schedule, FlushTypeOK, flusherVars
    <3>5. QED
      BY <3>1, <3>2, <3>3, <3>4
  <2>6. ASSUME NEW w \in Writers, SetKey(w) PROVE TypeOK'
    <3>1. StoreTypeOK'
      BY <2>6 DEF SetKey, StoreTypeOK
    <3>2. CacheTypeOK'
      BY <2>6, OpParts, DelayType DEF SetKey, HookTypeOK, CacheTypeOK
    <3>3. HookTypeOK'
      BY <2>6 DEF SetKey, HookTypeOK, writerVars
    <3>4. FlushTypeOK'
      BY <2>6 DEF SetKey, FlushTypeOK, flusherVars
    <3>5. QED
      BY <3>1, <3>2, <3>3, <3>4
  <2>7. ASSUME NEW w \in Writers, ScheduleFails(w) PROVE TypeOK'
    <3>1. StoreTypeOK'
      BY <2>7, SettingsAssumption DEF ScheduleFails, StoreTypeOK
    <3>2. CacheTypeOK'
      BY <2>7 DEF ScheduleFails, CacheTypeOK, cacheVars
    <3>3. HookTypeOK'
      BY <2>7 DEF ScheduleFails, HookTypeOK, writerVars
    <3>4. FlushTypeOK'
      BY <2>7 DEF ScheduleFails, FlushTypeOK, flusherVars
    <3>5. QED
      BY <3>1, <3>2, <3>3, <3>4
  <2>8. ASSUME NEW w \in Writers, DropBuffer(w) PROVE TypeOK'
    <3>1. StoreTypeOK'
      BY <2>8, CauseType DEF DropBuffer, StoreTypeOK, Causes
    <3>2. CacheTypeOK'
      BY <2>8, OpParts, SettingsAssumption
         DEF DropBuffer, HookTypeOK, CacheTypeOK, BufferTTL
    <3>3. HookTypeOK'
      BY <2>8 DEF DropBuffer, HookTypeOK, writerVars
    <3>4. FlushTypeOK'
      BY <2>8 DEF DropBuffer, FlushTypeOK, flusherVars
    <3>5. QED
      BY <3>1, <3>2, <3>3, <3>4
  <2>9. ASSUME NEW w \in Writers, Fallback(w) PROVE TypeOK'
    <3>1. StoreTypeOK'
      BY <2>9, ApplyType, CauseType DEF Fallback, StoreTypeOK, HookTypeOK, Causes
    <3>2. CacheTypeOK'
      BY <2>9 DEF Fallback, CacheTypeOK, cacheVars
    <3>3. HookTypeOK'
      BY <2>9 DEF Fallback, HookTypeOK, writerVars
    <3>4. FlushTypeOK'
      BY <2>9 DEF Fallback, FlushTypeOK, flusherVars
    <3>5. QED
      BY <3>1, <3>2, <3>3, <3>4
  <2>10. ASSUME NEW w \in Writers, FallbackFails(w) PROVE TypeOK'
    <3>1. StoreTypeOK'
      BY <2>10, CauseType, SettingsAssumption DEF FallbackFails, StoreTypeOK, Causes
    <3>2. CacheTypeOK'
      BY <2>10 DEF FallbackFails, CacheTypeOK, cacheVars
    <3>3. HookTypeOK'
      BY <2>10 DEF FallbackFails, HookTypeOK, writerVars
    <3>4. FlushTypeOK'
      BY <2>10 DEF FallbackFails, FlushTypeOK, flusherVars
    <3>5. QED
      BY <3>1, <3>2, <3>3, <3>4
  <2>11. ASSUME NEW f \in Flushers, NEW s \in Sides, FlushStart(f, s) PROVE TypeOK'
    <3>1. StoreTypeOK'
      BY <2>11 DEF FlushStart, StoreTypeOK
    <3>2. CacheTypeOK'
      BY <2>11, SettingsAssumption DEF FlushStart, CacheTypeOK, cacheVars, Delays
    <3>3. HookTypeOK'
      BY <2>11 DEF FlushStart, HookTypeOK, writerVars
    <3>4. FlushTypeOK'
      BY <2>11 DEF FlushStart, FlushTypeOK, flusherVars
    <3>5. QED
      BY <3>1, <3>2, <3>3, <3>4
  <2>12. ASSUME NEW f \in Flushers, FlushReadEmpty(f) PROVE TypeOK'
    <3>1. StoreTypeOK'
      BY <2>12 DEF FlushReadEmpty, StoreTypeOK
    <3>2. CacheTypeOK'
      BY <2>12 DEF FlushReadEmpty, CacheTypeOK, cacheVars
    <3>3. HookTypeOK'
      BY <2>12 DEF FlushReadEmpty, HookTypeOK, writerVars
    <3>4. FlushTypeOK'
      BY <2>12 DEF FlushReadEmpty, FlushTypeOK, flusherVars
    <3>5. QED
      BY <3>1, <3>2, <3>3, <3>4
  <2>13. ASSUME NEW f \in Flushers, FlushRead(f) PROVE TypeOK'
    <3>1. StoreTypeOK'
      BY <2>13 DEF FlushRead, StoreTypeOK
    <3>2. CacheTypeOK'
      BY <2>13 DEF FlushRead, CacheTypeOK, cacheVars
    <3>3. HookTypeOK'
      BY <2>13 DEF FlushRead, HookTypeOK, writerVars
    <3>4. FlushTypeOK'
      BY <2>13 DEF FlushRead, FlushTypeOK, CacheTypeOK
    <3>5. QED
      BY <3>1, <3>2, <3>3, <3>4
  <2>14. ASSUME NEW f \in Flushers, FlushClear(f) PROVE TypeOK'
    <3>1. StoreTypeOK'
      BY <2>14, CauseType DEF FlushClear, StoreTypeOK, Causes
    <3>2. CacheTypeOK'
      BY <2>14, SettingsAssumption DEF FlushClear, FlushTypeOK, CacheTypeOK, BufferTTL
    <3>3. HookTypeOK'
      BY <2>14 DEF FlushClear, HookTypeOK, writerVars
    <3>4. FlushTypeOK'
      BY <2>14, LastPerDocType DEF FlushClear, FlushTypeOK
    <3>5. QED
      BY <3>1, <3>2, <3>3, <3>4
  <2>15. ASSUME NEW f \in Flushers, FlushSend(f) PROVE TypeOK'
    <3>1. StoreTypeOK'
      BY <2>15, ApplyType, CauseType, ChunkIsPart
         DEF FlushSend, StoreTypeOK, FlushTypeOK, Causes
    <3>2. CacheTypeOK'
      BY <2>15 DEF FlushSend, CacheTypeOK, cacheVars
    <3>3. HookTypeOK'
      BY <2>15 DEF FlushSend, HookTypeOK, writerVars
    <3>4. FlushTypeOK'
      BY <2>15 DEF FlushSend, FlushTypeOK, flusherVars
    <3>5. QED
      BY <3>1, <3>2, <3>3, <3>4
  <2>16. ASSUME NEW f \in Flushers, FlushFails(f) PROVE TypeOK'
    <3>1. StoreTypeOK'
      BY <2>16, CauseType, SettingsAssumption DEF FlushFails, StoreTypeOK, Causes
    <3>2. CacheTypeOK'
      BY <2>16 DEF FlushFails, CacheTypeOK, cacheVars
    <3>3. HookTypeOK'
      BY <2>16 DEF FlushFails, HookTypeOK, writerVars
    <3>4. FlushTypeOK'
      BY <2>16 DEF FlushFails, FlushTypeOK, flusherVars
    <3>5. QED
      BY <3>1, <3>2, <3>3, <3>4
  <2>17. ASSUME Tick PROVE TypeOK'
    <3>1. StoreTypeOK'
      BY <2>17, CauseType DEF Tick, StoreTypeOK, Causes
    <3>2. CacheTypeOK'
      <4>1. buffer' \in [Sides -> Seq(Op)]
        BY <2>17 DEF Tick, CacheTypeOK
      <4>2. ASSUME NEW n \in Nat, NEW m \in 0..n
            PROVE  Less(m) \in 0..n
        BY <4>2 DEF Less
      <4>3. bufTTL' \in [Sides -> 0..BufferTTL]
        BY <2>17, <4>2, SettingsAssumption DEF Tick, CacheTypeOK, BufferTTL
      <4>4. keyTTL' \in [Sides -> Delays]
        BY <2>17, <4>2, SettingsAssumption DEF Tick, CacheTypeOK, Delays
      <4>5. ASSUME NEW s \in Sides, NEW k \in Delays
            PROVE  (IF k < Window THEN pending[s][k + 1] ELSE 0)
                   + (IF k = 0 THEN pending[s][0] ELSE 0) \in Nat
        <5>1. pending[s] \in [Delays -> Nat]
          BY DEF CacheTypeOK
        <5>2. k < Window => k + 1 \in Delays
          BY SettingsAssumption DEF Delays
        <5>3. 0 \in Delays
          BY SettingsAssumption DEF Delays
        <5>4. QED
          BY <5>1, <5>2, <5>3
      <4>6. pending' \in [Sides -> [Delays -> Nat]]
        BY <2>17, <4>5 DEF Tick
      <4>7. QED
        BY <4>1, <4>3, <4>4, <4>6 DEF CacheTypeOK
    <3>3. HookTypeOK'
      BY <2>17 DEF Tick, HookTypeOK, writerVars
    <3>4. FlushTypeOK'
      BY <2>17 DEF Tick, FlushTypeOK, flusherVars
    <3>5. QED
      BY <3>1, <3>2, <3>3, <3>4
  <2>18. CASE UNCHANGED vars
    BY <2>18 DEF vars, cacheVars, flusherVars, writerVars, StoreTypeOK, CacheTypeOK,
       HookTypeOK, FlushTypeOK
  <2>19. QED
    BY <2>1, <2>2, <2>3, <2>4, <2>5, <2>6, <2>7, <2>8, <2>9, <2>10, <2>11, <2>12,
           <2>13, <2>14, <2>15, <2>16, <2>17, <2>18 DEF Next, HookStep, FlushStep
<1>3. QED
  BY <1>1, <1>2, PTL DEF Spec

-----------------------------------------------------------------------------
(* A commit makes no operation newer than the database.                    *)
LEMMA KnownKept ==
    ASSUME TypeOK, DbKnown, NEW w \in Writers, NEW d \in Docs, NEW s \in Sides,
           Commit(w, d, s), NEW op \in Op, KnownTo(db, op)
    PROVE  KnownTo(db', op)
<1>1. /\ db \in [Docs -> State] /\ commits \in Nat /\ op.doc \in Docs /\ op.ver \in Nat
      /\ db[d].ver \in Nat /\ db[d].ver <= commits
  BY SettingsAssumption, OpParts DEF TypeOK, StoreTypeOK, State, Ver, DbKnown
<1>2. db' = [db EXCEPT ![d] = [side |-> s, ver |-> commits + 1]]
  BY DEF Commit
<1>3. CASE op.doc = d
  <2>1. db'[op.doc].ver = commits + 1
    BY <1>1, <1>2, <1>3
  <2>2. op.ver <= commits
    BY <1>1, <1>3 DEF KnownTo
  <2>3. QED
    BY <1>1, <2>1, <2>2 DEF KnownTo
<1>4. CASE op.doc # d
  BY <1>1, <1>2, <1>4 DEF KnownTo
<1>5. QED
  BY <1>3, <1>4

(* The engine applies nothing newer than the database.                     *)
LEMMA ApplyKnown ==
    ASSUME EngineKnown, engine \in [Docs -> State], NEW ops \in SUBSET Op,
           \A op \in ops : KnownTo(db, op), Apply(ops), UNCHANGED db
    PROVE  EngineKnown'
<1>1. ASSUME NEW d \in Docs
      PROVE  engine'[d].ver <= db[d].ver
             /\ (engine'[d].ver = db[d].ver => engine'[d].side = db[d].side)
  <2>1. CASE \E op \in ops : op.doc = d
    <3>1. PICK c \in ops : c.doc = d /\ engine'[d] = Content(c)
      BY <2>1 DEF Apply
    <3>2. KnownTo(db, c)
      BY <3>1
    <3>3. QED
      BY <3>1, <3>2 DEF Content, KnownTo
  <2>2. CASE ~ \E op \in ops : op.doc = d
    BY <2>2 DEF Apply, EngineKnown
  <2>3. QED
    BY <2>1, <2>2
<1>2. QED
  BY <1>1 DEF EngineKnown

(* No operation on its way to the engine is newer than the database, and a *)
(* flush sends one operation per document.                                 *)
THEOREM OperationsKnown == Spec => []KnownOps
<1>1. Init => KnownOps
  <2> SUFFICES ASSUME Init PROVE KnownOps
    OBVIOUS
  <2>1. DbKnown /\ EngineKnown
    BY DEF Init, DbKnown, EngineKnown, Absent
  <2>2. HooksKnown /\ CopiesKnown /\ BuffersKnown /\ ReadsKnown
    BY DEF Init, HooksKnown, CopiesKnown, BuffersKnown, ReadsKnown
  <2>3. TodosKnown /\ TodosOnePerDoc
    BY DEF Init, TodosKnown, TodosOnePerDoc, OnePerDoc
  <2>4. QED
    BY <2>1, <2>2, <2>3 DEF KnownOps
<1>2. TypeOK /\ TypeOK' /\ KnownOps /\ [Next]_vars => KnownOps'
  <2> SUFFICES ASSUME TypeOK, TypeOK', KnownOps, [Next]_vars PROVE KnownOps'
    OBVIOUS
  <2> USE DEF KnownOps
  <2>1. ASSUME NEW w \in Writers, NEW d \in Docs, NEW s \in Sides, Commit(w, d, s) PROVE KnownOps'
    <3>1. TodosOnePerDoc'
      BY <2>1 DEF Commit, TodosOnePerDoc, cacheVars, writerVars, flusherVars
    <3>2. \A op \in Op : KnownTo(db, op) => KnownTo(db', op)
      BY <2>1, KnownKept
    <3>3. DbKnown'
      BY <2>1, SettingsAssumption DEF Commit, DbKnown, TypeOK, StoreTypeOK, State, Ver
    <3>4. EngineKnown'
      BY <2>1, SettingsAssumption
         DEF Commit, DbKnown, EngineKnown, TypeOK, StoreTypeOK, State, Ver
    <3>5. HooksKnown'
      <4>1. [doc |-> d, side |-> s, ver |-> commits + 1] = wop'[w]
        BY <2>1 DEF Commit, TypeOK, HookTypeOK
      <4>2. KnownTo(db', wop'[w])
        BY <2>1, <4>1 DEF Commit, KnownTo, TypeOK, StoreTypeOK
      <4>3. ASSUME NEW v \in Writers, v # w
            PROVE  wop'[v] = wop[v] /\ wpc'[v] = wpc[v]
        BY <2>1, <4>3 DEF Commit, TypeOK, HookTypeOK
      <4>4. QED
        BY <3>2, <4>2, <4>3 DEF HooksKnown, TypeOK, HookTypeOK
    <3>6. CopiesKnown'
      <4>1. wcopy' = wcopy
        BY <2>1 DEF Commit, cacheVars, flusherVars
      <4>2. \A v \in Writers : \A i \in DOMAIN wcopy[v] : wcopy[v][i] \in Op
        BY DEF TypeOK, HookTypeOK
      <4>3. QED
        BY <3>2, <4>1, <4>2 DEF CopiesKnown
    <3>7. BuffersKnown'
      <4>1. buffer' = buffer
        BY <2>1 DEF Commit, cacheVars, flusherVars
      <4>2. \A r \in Sides : \A i \in DOMAIN buffer[r] : buffer[r][i] \in Op
        <5>1. buffer \in [Sides -> Seq(Op)]
          BY DEF TypeOK, CacheTypeOK
        <5>2. QED
          BY <5>1
      <4>3. QED
        BY <3>2, <4>1, <4>2 DEF BuffersKnown
    <3>8. ReadsKnown'
      <4>1. fread' = fread
        BY <2>1 DEF Commit, cacheVars, flusherVars
      <4>2. \A f \in Flushers : \A i \in DOMAIN fread[f] : fread[f][i] \in Op
        BY DEF TypeOK, FlushTypeOK
      <4>3. QED
        BY <3>2, <4>1, <4>2 DEF ReadsKnown
    <3>9. TodosKnown'
      BY <2>1, KnownKept DEF Commit, TodosKnown, TypeOK, FlushTypeOK, flusherVars
    <3>10. QED
      BY <3>1, <3>2, <3>3, <3>4, <3>5, <3>6, <3>7, <3>8, <3>9
  <2>2. ASSUME NEW w \in Writers, BufferGet(w) PROVE KnownOps'
    <3>1. DbKnown' /\ EngineKnown' /\ BuffersKnown' /\ ReadsKnown' /\ TodosKnown' /\ TodosOnePerDoc'
      BY <2>2
         DEF BufferGet, DbKnown, EngineKnown, cacheVars, writerVars, flusherVars,
             BuffersKnown, ReadsKnown, TodosKnown, TodosOnePerDoc
    <3>2. HooksKnown'
      BY <2>2 DEF BufferGet, HooksKnown, TypeOK, HookTypeOK
    <3>3. CopiesKnown'
      BY <2>2, OpParts
         DEF BufferGet, CopiesKnown, BuffersKnown, TypeOK, HookTypeOK, CacheTypeOK
    <3>4. QED
      BY <3>1, <3>2, <3>3
  <2>3. ASSUME NEW w \in Writers, BufferSet(w) PROVE KnownOps'
    <3>1. DbKnown' /\ EngineKnown' /\ ReadsKnown' /\ TodosKnown' /\ TodosOnePerDoc'
      BY <2>3
         DEF BufferSet, DbKnown, EngineKnown, cacheVars, writerVars, flusherVars,
             ReadsKnown, TodosKnown, TodosOnePerDoc
    <3>2. HooksKnown'
      BY <2>3 DEF BufferSet, HooksKnown, TypeOK, HookTypeOK
    <3>3. CopiesKnown'
      BY <2>3 DEF BufferSet, CopiesKnown, HooksKnown, TypeOK, HookTypeOK
    <3>4. BuffersKnown'
      BY <2>3
         DEF BufferSet, CopiesKnown, HooksKnown, BuffersKnown, TypeOK, HookTypeOK,
             CacheTypeOK
    <3>5. QED
      BY <3>1, <3>2, <3>3, <3>4
  <2>4. ASSUME NEW w \in Writers,
               AlreadyScheduled(w) \/ MustSchedule(w) \/ Schedule(w) \/ SetKey(w) \/ ScheduleFails(w)
        PROVE  KnownOps'
    <3>1. DbKnown' /\ EngineKnown' /\ BuffersKnown' /\ ReadsKnown' /\ TodosKnown' /\ TodosOnePerDoc'
      BY <2>4
         DEF AlreadyScheduled, DbKnown, EngineKnown, cacheVars, writerVars,
             flusherVars, BuffersKnown, ReadsKnown, TodosKnown, TodosOnePerDoc,
             MustSchedule, Schedule, SetKey, ScheduleFails
    <3>2. HooksKnown'
      BY <2>4
         DEF AlreadyScheduled, MustSchedule, Schedule, SetKey, ScheduleFails,
             HooksKnown, TypeOK, HookTypeOK
    <3>3. CopiesKnown'
      BY <2>4
         DEF AlreadyScheduled, MustSchedule, Schedule, SetKey, ScheduleFails,
             CopiesKnown, TypeOK, HookTypeOK
    <3>4. QED
      BY <3>1, <3>2, <3>3
  <2>5. ASSUME NEW w \in Writers, DropBuffer(w) PROVE KnownOps'
    <3>1. DbKnown' /\ EngineKnown' /\ ReadsKnown' /\ TodosKnown' /\ TodosOnePerDoc'
      BY <2>5
         DEF DropBuffer, DbKnown, EngineKnown, cacheVars, writerVars, flusherVars,
             ReadsKnown, TodosKnown, TodosOnePerDoc
    <3>2. HooksKnown'
      BY <2>5 DEF DropBuffer, HooksKnown, TypeOK, HookTypeOK
    <3>3. CopiesKnown'
      BY <2>5 DEF DropBuffer, CopiesKnown, TypeOK, HookTypeOK
    <3>4. BuffersKnown'
      BY <2>5 DEF DropBuffer, BuffersKnown, TypeOK, CacheTypeOK
    <3>5. QED
      BY <3>1, <3>2, <3>3, <3>4
  <2>6. ASSUME NEW w \in Writers, Fallback(w) PROVE KnownOps'
    <3>1. DbKnown' /\ BuffersKnown' /\ ReadsKnown' /\ TodosKnown' /\ TodosOnePerDoc'
      BY <2>6
         DEF Fallback, DbKnown, cacheVars, writerVars, flusherVars, BuffersKnown,
             ReadsKnown, TodosKnown, TodosOnePerDoc
    <3>2. EngineKnown'
      BY <2>6, ApplyKnown DEF Fallback, HooksKnown, TypeOK, HookTypeOK, StoreTypeOK
    <3>3. HooksKnown'
      BY <2>6 DEF Fallback, HooksKnown, TypeOK, HookTypeOK
    <3>4. CopiesKnown'
      BY <2>6 DEF Fallback, CopiesKnown, TypeOK, HookTypeOK
    <3>5. QED
      BY <3>1, <3>2, <3>3, <3>4
  <2>7. ASSUME NEW w \in Writers, FallbackFails(w) PROVE KnownOps'
    <3>1. DbKnown' /\ EngineKnown' /\ BuffersKnown' /\ ReadsKnown' /\ TodosKnown' /\ TodosOnePerDoc'
      BY <2>7
         DEF FallbackFails, DbKnown, EngineKnown, cacheVars, writerVars, flusherVars,
             BuffersKnown, ReadsKnown, TodosKnown, TodosOnePerDoc
    <3>2. HooksKnown'
      BY <2>7 DEF FallbackFails, HooksKnown, TypeOK, HookTypeOK
    <3>3. CopiesKnown'
      BY <2>7 DEF FallbackFails, CopiesKnown, TypeOK, HookTypeOK
    <3>4. QED
      BY <3>1, <3>2, <3>3
  <2>8. ASSUME NEW f \in Flushers,
               (\E s \in Sides : FlushStart(f, s)) \/ FlushReadEmpty(f)
        PROVE  KnownOps'
    <3>1. DbKnown' /\ EngineKnown' /\ HooksKnown' /\ CopiesKnown' /\ BuffersKnown' /\ ReadsKnown' /\ TodosKnown' /\ TodosOnePerDoc'
      BY <2>8
         DEF FlushStart, DbKnown, EngineKnown, cacheVars, writerVars, flusherVars,
             HooksKnown, CopiesKnown, BuffersKnown, ReadsKnown, TodosKnown,
             TodosOnePerDoc, FlushReadEmpty
    <3>2. QED
      BY <3>1
  <2>9. ASSUME NEW f \in Flushers, FlushRead(f) PROVE KnownOps'
    <3>1. DbKnown' /\ EngineKnown' /\ HooksKnown' /\ CopiesKnown' /\ BuffersKnown' /\ TodosKnown' /\ TodosOnePerDoc'
      BY <2>9
         DEF FlushRead, DbKnown, EngineKnown, cacheVars, writerVars, flusherVars,
             HooksKnown, CopiesKnown, BuffersKnown, TodosKnown, TodosOnePerDoc
    <3>2. ReadsKnown'
      BY <2>9 DEF FlushRead, ReadsKnown, BuffersKnown, TypeOK, FlushTypeOK
    <3>3. QED
      BY <3>1, <3>2
  <2>10. ASSUME NEW f \in Flushers, FlushClear(f) PROVE KnownOps'
    <3>1. DbKnown' /\ EngineKnown' /\ HooksKnown' /\ CopiesKnown'
      BY <2>10
         DEF FlushClear, DbKnown, EngineKnown, cacheVars, writerVars, flusherVars,
             HooksKnown, CopiesKnown
    <3>2. BuffersKnown'
      BY <2>10 DEF FlushClear, BuffersKnown, TypeOK, CacheTypeOK
    <3>3. ReadsKnown'
      BY <2>10 DEF FlushClear, ReadsKnown, TypeOK, FlushTypeOK
    <3>4. TodosKnown'
      BY <2>10 DEF FlushClear, LastPerDoc, ReadsKnown, TodosKnown, TypeOK, FlushTypeOK
    <3>5. TodosOnePerDoc'
      BY <2>10, LastPerDocDistinct
         DEF FlushClear, TodosOnePerDoc, OnePerDoc, TypeOK, FlushTypeOK
    <3>6. QED
      BY <3>1, <3>2, <3>3, <3>4, <3>5
  <2>11. ASSUME NEW f \in Flushers, FlushSend(f) PROVE KnownOps'
    <3>1. DbKnown' /\ HooksKnown' /\ CopiesKnown' /\ BuffersKnown' /\ ReadsKnown'
      BY <2>11
         DEF FlushSend, DbKnown, cacheVars, writerVars, flusherVars, HooksKnown,
             CopiesKnown, BuffersKnown, ReadsKnown
    <3>2. EngineKnown'
      BY <2>11, ApplyKnown, ChunkIsPart
         DEF FlushSend, TodosKnown, TypeOK, FlushTypeOK, StoreTypeOK
    <3>3. TodosKnown'
      BY <2>11 DEF FlushSend, TodosKnown, TypeOK, FlushTypeOK
    <3>4. TodosOnePerDoc'
      BY <2>11 DEF FlushSend, TodosOnePerDoc, OnePerDoc, TypeOK, FlushTypeOK
    <3>5. QED
      BY <3>1, <3>2, <3>3, <3>4
  <2>12. ASSUME NEW f \in Flushers, FlushFails(f) PROVE KnownOps'
    <3>1. DbKnown' /\ EngineKnown' /\ HooksKnown' /\ CopiesKnown' /\ BuffersKnown'
      BY <2>12
         DEF FlushFails, DbKnown, EngineKnown, cacheVars, writerVars, flusherVars,
             HooksKnown, CopiesKnown, BuffersKnown
    <3>2. ReadsKnown'
      BY <2>12 DEF FlushFails, ReadsKnown, TypeOK, FlushTypeOK
    <3>3. TodosKnown'
      BY <2>12 DEF FlushFails, TodosKnown, TypeOK, FlushTypeOK
    <3>4. TodosOnePerDoc'
      BY <2>12 DEF FlushFails, TodosOnePerDoc, OnePerDoc, TypeOK, FlushTypeOK
    <3>5. QED
      BY <3>1, <3>2, <3>3, <3>4
  <2>13. CASE Tick
    <3>1. DbKnown' /\ EngineKnown' /\ HooksKnown' /\ CopiesKnown' /\ ReadsKnown' /\ TodosKnown' /\ TodosOnePerDoc'
      BY <2>13
         DEF Tick, DbKnown, EngineKnown, cacheVars, writerVars, flusherVars,
             HooksKnown, CopiesKnown, ReadsKnown, TodosKnown, TodosOnePerDoc
    <3>2. BuffersKnown'
      BY <2>13 DEF Tick, BuffersKnown, TypeOK, CacheTypeOK
    <3>3. QED
      BY <3>1, <3>2
  <2>14. CASE UNCHANGED vars
    <3>1. DbKnown' /\ EngineKnown'
      BY <2>14 DEF DbKnown, EngineKnown, cacheVars, writerVars, flusherVars, vars
    <3>2. HooksKnown' /\ CopiesKnown'
      BY <2>14 DEF HooksKnown, CopiesKnown, cacheVars, writerVars, flusherVars, vars
    <3>3. BuffersKnown'
      BY <2>14 DEF BuffersKnown, cacheVars, writerVars, flusherVars, vars
    <3>4. ReadsKnown' /\ TodosKnown' /\ TodosOnePerDoc'
      BY <2>14
         DEF ReadsKnown, TodosKnown, TodosOnePerDoc, cacheVars, writerVars,
             flusherVars, vars
    <3>5. QED
      BY <3>1, <3>2, <3>3, <3>4
  <2>15. QED
    BY <2>1, <2>2, <2>3, <2>4, <2>5, <2>6, <2>7, <2>8, <2>9, <2>10, <2>11, <2>12,
           <2>13, <2>14 DEF Next, HookStep, FlushStep
<1>3. QED
  BY <1>1, <1>2, TypeCorrect, PTL DEF Spec

-----------------------------------------------------------------------------
(* The operation the database reflects.                                    *)
Newest(op) == op.ver = db[op.doc].ver /\ op.side = db[op.doc].side

(* A step that leaves the database alone keeps Conservation when no newest *)
(* operation disappears in it.                                             *)
LEMMA StepConserves ==
    ASSUME TypeOK, Conservation, UNCHANGED db,
           cause' = "none" => cause = "none",
           \A op \in Op : cause' = "none" /\ Newest(op) /\ Somewhere(op) => Somewhere(op)'
    PROVE  Conservation'
<1>1. SUFFICES ASSUME cause' = "none", NEW d \in Docs, db'[d].ver > 0
               PROVE  Somewhere(Latest(d))'
  BY DEF Conservation
<1>2. db[d] \in State
  BY DEF TypeOK, StoreTypeOK
<1>3. PICK op \in Op : op = Latest(d)
  BY <1>2 DEF Latest, State, Op
<1>4. Newest(op)
  BY <1>3 DEF Newest, Latest
<1>5. Somewhere(op)
  BY <1>1, <1>3 DEF Conservation
<1>6. Somewhere(op)'
  BY <1>1, <1>4, <1>5
<1>7. op = Latest(d)'
  BY <1>3 DEF Latest
<1>8. QED
  BY <1>6, <1>7 DEF Somewhere, Held, Buffered, InFlight, Applied

(* A newest operation that the engine holds survives a request that is not *)
(* stale.                                                                  *)
LEMMA ApplyKeeps ==
    ASSUME TypeOK, EngineKnown, NEW ops \in SUBSET Op,
           \A o \in ops : KnownTo(db, o), Apply(ops), ~Stale(ops),
           NEW op \in Op, Newest(op), Applied(op)
    PROVE  Applied(op)'
<1>1. op.doc \in Docs /\ engine[op.doc] = [side |-> op.side, ver |-> op.ver]
  BY OpParts DEF Applied, Content
<1>2. CASE \E o \in ops : o.doc = op.doc
  <2>1. PICK c \in ops : c.doc = op.doc /\ engine'[op.doc] = Content(c)
    BY <1>1, <1>2 DEF Apply
  <2>2. c.ver \in Nat /\ op.ver \in Nat
    BY <2>1, OpParts, SettingsAssumption DEF Ver
  <2>3. c.ver >= op.ver
    BY <1>1, <2>1, <2>2 DEF Stale
  <2>4. c.ver = op.ver /\ c.side = op.side
    BY <2>1, <2>2, <2>3 DEF KnownTo, Newest
  <2>5. QED
    BY <2>1, <2>4 DEF Applied, Content
<1>3. CASE ~ \E o \in ops : o.doc = op.doc
  BY <1>1, <1>3 DEF Apply, Applied, Content
<1>4. QED
  BY <1>2, <1>3

(* What a request carries is applied.                                      *)
LEMMA ApplyDoes ==
    ASSUME NEW ops \in SUBSET Op, OnePerDoc(ops), Apply(ops), NEW op \in ops
    PROVE  Applied(op)'
BY OpParts DEF Apply, OnePerDoc, Applied, Content

(* Unless one of the events in cause happened, the last committed          *)
(* operation on every document is in a hook, in its buffer, in a flush, or *)
(* applied; buffers are then in commit order, so that keeping the last     *)
(* operation per document keeps the newest one.                            *)
THEOREM NothingElseLoses == Spec => [](SortedBuffers /\ Conservation)
<1> DEFINE Inv == SortedBuffers /\ Conservation
<1>1. Init => Inv
  BY DEF Init, SortedBuffers, Sorted, Conservation, Absent
<1>2. TypeOK /\ TypeOK' /\ KnownOps /\ Inv /\ [Next]_vars => Inv'
  <2> SUFFICES ASSUME TypeOK, TypeOK', KnownOps, SortedBuffers, Conservation, [Next]_vars
               PROVE  SortedBuffers' /\ Conservation'
    OBVIOUS
  <2>1. ASSUME NEW w \in Writers, NEW d \in Docs, NEW s \in Sides, Commit(w, d, s)
        PROVE  SortedBuffers' /\ Conservation'
    <3>1. /\ wpc[w] = "idle" /\ wpc' = [wpc EXCEPT ![w] = "get"]
          /\ wop' = [wop EXCEPT ![w] = [doc |-> d, side |-> s, ver |-> commits + 1]]
          /\ db' = [db EXCEPT ![d] = [side |-> s, ver |-> commits + 1]]
          /\ UNCHANGED <<engine, buffer, ftodo, cause>>
      BY <2>1 DEF Commit, cacheVars, flusherVars
    <3>2. SortedBuffers'
      BY <3>1 DEF SortedBuffers, Sorted
    <3>3. ASSUME cause' = "none", NEW e \in Docs, db'[e].ver > 0
          PROVE  Somewhere(Latest(e))'
      <4>1. CASE e = d
        <5>1. Latest(e)' = wop'[w] /\ wpc'[w] = "get"
          BY <3>1, <4>1 DEF Latest, TypeOK, StoreTypeOK, HookTypeOK
        <5>2. Held(Latest(e))'
          BY <5>1 DEF Held
        <5>3. QED
          BY <5>2 DEF Somewhere
      <4>2. CASE e # d
        <5>1. db'[e] = db[e]
          BY <3>1, <4>2 DEF TypeOK, StoreTypeOK
        <5>2. PICK op : op = Latest(e)
          OBVIOUS
        <5>3. op = Latest(e)' /\ Somewhere(op)
          BY <3>1, <3>3, <5>1, <5>2 DEF Latest, Conservation
        <5>4. CASE Held(op)
          BY <3>1, <5>3, <5>4 DEF Somewhere, Held, TypeOK, HookTypeOK
        <5>5. CASE Buffered(op) \/ InFlight(op) \/ Applied(op)
          BY <3>1, <5>3, <5>5 DEF Somewhere, Buffered, InFlight, Applied
        <5>6. QED
          BY <5>3, <5>4, <5>5 DEF Somewhere
      <4>3. QED
        BY <4>1, <4>2
    <3>4. QED
      BY <3>2, <3>3 DEF Conservation
  <2>2. ASSUME NEW w \in Writers,
               BufferGet(w)
        PROVE  SortedBuffers' /\ Conservation'
    <3>1. UNCHANGED db /\ (cause' = "none" => cause = "none")
      BY <2>2 DEF BufferGet, Record, RecordIf, cacheVars, writerVars, flusherVars
    <3>2. SortedBuffers'
      BY <2>2, <3>1
         DEF BufferGet, SortedBuffers, Sorted, cacheVars, writerVars, flusherVars
    <3>3. ASSUME NEW op \in Op, cause' = "none", Newest(op), Somewhere(op)
          PROVE  Somewhere(op)'
      <4>1. CASE Held(op)
        BY <2>2, <3>3, <4>1 DEF BufferGet, Somewhere, Held, TypeOK, HookTypeOK
      <4>2. CASE Buffered(op) \/ InFlight(op) \/ Applied(op)
        BY <2>2, <3>3, <4>2
           DEF BufferGet, Somewhere, Buffered, InFlight, Applied, cacheVars, flusherVars
      <4>3. QED
        BY <3>3, <4>1, <4>2 DEF Somewhere
    <3>4. QED
      BY <3>1, <3>2, <3>3, StepConserves
  <2>3. ASSUME NEW w \in Writers,
               BufferSet(w)
        PROVE  SortedBuffers' /\ Conservation'
    <3>1. UNCHANGED db /\ (cause' = "none" => cause = "none")
      BY <2>3 DEF BufferSet, Record, RecordIf, cacheVars, writerVars, flusherVars
    <3>2. SortedBuffers'
      <4>1. ASSUME cause' = "none" PROVE Sorted(Append(wcopy[w], wop[w]))
        <5>1. /\ buffer[wop[w].side] = wcopy[w] /\ wcopy[w] \in Seq(Op) /\ wop[w] \in Op
              /\ \A k \in DOMAIN wcopy[w] :
                    wcopy[w][k].doc = wop[w].doc => wcopy[w][k].ver < wop[w].ver
          BY <2>3, <4>1 DEF BufferSet, Record, RecordIf, TypeOK, HookTypeOK
        <5>2. Sorted(wcopy[w])
          BY <3>1, <4>1, <5>1, OpParts DEF SortedBuffers
        <5>3. QED
          BY <5>1, <5>2 DEF Sorted
      <4>2. ASSUME cause' = "none", NEW s \in Sides PROVE Sorted(buffer'[s])
        <5>1. CASE s = wop[w].side
          BY <2>3, <4>1, <4>2, <5>1 DEF BufferSet, TypeOK, CacheTypeOK
        <5>2. CASE s # wop[w].side
          BY <2>3, <3>1, <4>2, <5>2 DEF BufferSet, SortedBuffers, TypeOK, CacheTypeOK
        <5>3. QED
          BY <5>1, <5>2
      <4>3. QED
        BY <4>2 DEF SortedBuffers, Sorted
    <3>3. ASSUME NEW op \in Op, cause' = "none", Newest(op), Somewhere(op)
          PROVE  Somewhere(op)'
      <4>1. CASE Held(op)
        <5>1. PICK v \in Writers : wop[v] = op /\ wpc[v] \in {"get", "set", "fallback"}
          BY <4>1 DEF Held
        <5>2. CASE v = w
          <6>1. wcopy[w] \in Seq(Op) /\ op.side \in Sides
            BY OpParts DEF TypeOK, HookTypeOK
          <6>2. buffer'[op.side] = Append(wcopy[w], op)
            BY <2>3, <5>1, <5>2, <6>1 DEF BufferSet, TypeOK, CacheTypeOK
          <6>3. buffer'[op.side][Len(wcopy[w]) + 1] = op
                /\ Len(wcopy[w]) + 1 \in DOMAIN buffer'[op.side]
            BY <6>1, <6>2
          <6>4. QED
            BY <6>3 DEF Somewhere, Buffered
        <5>3. CASE v # w
          BY <2>3, <5>1, <5>3 DEF BufferSet, Somewhere, Held, TypeOK, HookTypeOK
        <5>4. QED
          BY <5>2, <5>3
      <4>2. CASE Buffered(op)
        <5>1. PICK i \in DOMAIN buffer[op.side] : buffer[op.side][i] = op
          BY <4>2 DEF Buffered
        <5>2. op.side \in Sides /\ wop[w].side \in Sides /\ wcopy[w] \in Seq(Op)
          BY <2>3, OpParts DEF BufferSet, TypeOK, HookTypeOK
        <5>3. CASE op.side = wop[w].side
          <6>1. wcopy[w] = buffer[op.side]
            BY <2>3, <3>3, <5>3 DEF BufferSet, Record
          <6>2. buffer'[op.side] = Append(wcopy[w], wop[w])
            BY <2>3, <5>2, <5>3 DEF BufferSet, TypeOK, CacheTypeOK
          <6>3. i \in DOMAIN buffer'[op.side] /\ buffer'[op.side][i] = op
            BY <5>1, <5>2, <6>1, <6>2
          <6>4. QED
            BY <6>3 DEF Somewhere, Buffered
        <5>4. CASE op.side # wop[w].side
          BY <2>3, <5>1, <5>2, <5>4
             DEF BufferSet, Somewhere, Buffered, TypeOK, CacheTypeOK
        <5>5. QED
          BY <5>3, <5>4
      <4>3. CASE InFlight(op) \/ Applied(op)
        BY <2>3, <3>3, <4>3 DEF BufferSet, Somewhere, InFlight, Applied, flusherVars
      <4>4. QED
        BY <3>3, <4>1, <4>2, <4>3 DEF Somewhere
    <3>4. QED
      BY <3>1, <3>2, <3>3, StepConserves
  <2>4. ASSUME NEW w \in Writers,
               AlreadyScheduled(w) \/ MustSchedule(w) \/ Schedule(w) \/ SetKey(w) \/ ScheduleFails(w)
        PROVE  SortedBuffers' /\ Conservation'
    <3>1. UNCHANGED db /\ (cause' = "none" => cause = "none")
      BY <2>4
         DEF AlreadyScheduled, MustSchedule, Schedule, SetKey, ScheduleFails, Record,
             RecordIf, cacheVars, writerVars, flusherVars
    <3>2. SortedBuffers'
      BY <2>4, <3>1
         DEF AlreadyScheduled, MustSchedule, Schedule, SetKey, ScheduleFails,
             SortedBuffers, Sorted, cacheVars, writerVars, flusherVars
    <3>3. ASSUME NEW op \in Op, cause' = "none", Newest(op), Somewhere(op)
          PROVE  Somewhere(op)'
      <4>1. CASE Held(op)
        BY <2>4, <3>3, <4>1
           DEF AlreadyScheduled, MustSchedule, Schedule, SetKey, ScheduleFails,
               Somewhere, Held, TypeOK, HookTypeOK
      <4>2. CASE Buffered(op) \/ InFlight(op) \/ Applied(op)
        BY <2>4, <3>3, <4>2
           DEF AlreadyScheduled, MustSchedule, Schedule, SetKey, ScheduleFails,
               Somewhere, Buffered, InFlight, Applied, cacheVars, flusherVars
      <4>3. QED
        BY <3>3, <4>1, <4>2 DEF Somewhere
    <3>4. QED
      BY <3>1, <3>2, <3>3, StepConserves
  <2>5. ASSUME NEW w \in Writers,
               DropBuffer(w)
        PROVE  SortedBuffers' /\ Conservation'
    <3>1. UNCHANGED db /\ (cause' = "none" => cause = "none")
      BY <2>5 DEF DropBuffer, Record, RecordIf, cacheVars, writerVars, flusherVars
    <3>2. SortedBuffers'
      BY <2>5, <3>1 DEF DropBuffer, SortedBuffers, Sorted, TypeOK, CacheTypeOK
    <3>3. ASSUME NEW op \in Op, cause' = "none", Newest(op), Somewhere(op)
          PROVE  Somewhere(op)'
      <4>1. CASE Held(op)
        BY <2>5, <3>3, <4>1 DEF DropBuffer, Somewhere, Held, TypeOK, HookTypeOK
      <4>2. CASE Buffered(op)
        <5>1. PICK i \in DOMAIN buffer[op.side] : buffer[op.side][i] = op
          BY <4>2 DEF Buffered
        <5>2. CASE op.side = wop[w].side
          <6>1. wop[w] = op
            BY <2>5, <3>3, <5>1, <5>2 DEF DropBuffer, Record, RecordIf
          <6>2. wop'[w] = op /\ wpc'[w] = "fallback"
            BY <2>5, <6>1 DEF DropBuffer, TypeOK, HookTypeOK
          <6>3. QED
            BY <6>2 DEF Somewhere, Held
        <5>3. CASE op.side # wop[w].side
          BY <2>5, <5>1, <5>3 DEF DropBuffer, Somewhere, Buffered, TypeOK, CacheTypeOK
        <5>4. QED
          BY <5>2, <5>3
      <4>3. CASE InFlight(op) \/ Applied(op)
        BY <2>5, <3>3, <4>3 DEF DropBuffer, Somewhere, InFlight, Applied, flusherVars
      <4>4. QED
        BY <3>3, <4>1, <4>2, <4>3 DEF Somewhere
    <3>4. QED
      BY <3>1, <3>2, <3>3, StepConserves
  <2>6. ASSUME NEW w \in Writers,
               Fallback(w)
        PROVE  SortedBuffers' /\ Conservation'
    <3>1. UNCHANGED db /\ (cause' = "none" => cause = "none")
      BY <2>6 DEF Fallback, Record, RecordIf, cacheVars, writerVars, flusherVars
    <3>2. SortedBuffers'
      BY <2>6, <3>1
         DEF Fallback, SortedBuffers, Sorted, cacheVars, writerVars, flusherVars
    <3>3. ASSUME NEW op \in Op, cause' = "none", Newest(op), Somewhere(op)
          PROVE  Somewhere(op)'
      <4>1. CASE Held(op)
        <5>1. PICK v \in Writers : wop[v] = op /\ wpc[v] \in {"get", "set", "fallback"}
          BY <4>1 DEF Held
        <5>2. CASE v = w
          <6>1. Apply({op}) /\ OnePerDoc({op})
            BY <2>6, <5>1, <5>2 DEF Fallback, OnePerDoc
          <6>2. Applied(op)'
            BY <6>1, ApplyDoes
          <6>3. QED
            BY <6>2 DEF Somewhere
        <5>3. CASE v # w
          BY <2>6, <5>1, <5>3 DEF Fallback, Somewhere, Held, TypeOK, HookTypeOK
        <5>4. QED
          BY <5>2, <5>3
      <4>2. CASE Applied(op)
        <5>1. wop[w] \in Op /\ KnownTo(db, wop[w]) /\ EngineKnown
          BY <2>6 DEF Fallback, KnownOps, HooksKnown, TypeOK, HookTypeOK
        <5>2. Apply({wop[w]}) /\ ~Stale({wop[w]})
          BY <2>6, <3>3 DEF Fallback, Record, RecordIf
        <5>3. Applied(op)'
          BY <3>3, <4>2, <5>1, <5>2, ApplyKeeps
        <5>4. QED
          BY <5>3 DEF Somewhere
      <4>3. CASE Buffered(op) \/ InFlight(op)
        BY <2>6, <3>3, <4>3
           DEF Fallback, Somewhere, Buffered, InFlight, cacheVars, flusherVars
      <4>4. QED
        BY <3>3, <4>1, <4>2, <4>3 DEF Somewhere
    <3>4. QED
      BY <3>1, <3>2, <3>3, StepConserves
  <2>7. ASSUME NEW w \in Writers,
               FallbackFails(w)
        PROVE  SortedBuffers' /\ Conservation'
    <3>1. UNCHANGED db /\ (cause' = "none" => cause = "none")
      BY <2>7 DEF FallbackFails, Record, RecordIf, cacheVars, writerVars, flusherVars
    <3>2. SortedBuffers'
      BY <2>7, <3>1
         DEF FallbackFails, SortedBuffers, Sorted, cacheVars, writerVars, flusherVars
    <3>3. ASSUME NEW op \in Op, cause' = "none", Newest(op), Somewhere(op)
          PROVE  Somewhere(op)'
      <4>1. CASE Held(op)
        <5>1. FALSE
          BY <2>7, <3>3 DEF FallbackFails, Record
        <5>2. QED
          BY <5>1
      <4>2. CASE Buffered(op) \/ InFlight(op) \/ Applied(op)
        BY <2>7, <3>3, <4>2
           DEF FallbackFails, Somewhere, Buffered, InFlight, Applied, cacheVars,
               flusherVars
      <4>3. QED
        BY <3>3, <4>1, <4>2 DEF Somewhere
    <3>4. QED
      BY <3>1, <3>2, <3>3, StepConserves
  <2>8. ASSUME NEW f \in Flushers,
               (\E s \in Sides : FlushStart(f, s)) \/ FlushReadEmpty(f) \/ FlushRead(f)
        PROVE  SortedBuffers' /\ Conservation'
    <3>1. UNCHANGED db /\ (cause' = "none" => cause = "none")
      BY <2>8
         DEF FlushStart, FlushReadEmpty, FlushRead, Record, RecordIf, cacheVars,
             writerVars, flusherVars
    <3>2. SortedBuffers'
      BY <2>8, <3>1
         DEF FlushStart, FlushReadEmpty, FlushRead, SortedBuffers, Sorted, cacheVars,
             writerVars, flusherVars
    <3>3. ASSUME NEW op \in Op, cause' = "none", Newest(op), Somewhere(op)
          PROVE  Somewhere(op)'
      <4>1. CASE Held(op) \/ Buffered(op) \/ InFlight(op) \/ Applied(op)
        BY <2>8, <3>3, <4>1
           DEF FlushStart, FlushReadEmpty, FlushRead, Somewhere, Held, Buffered,
               InFlight, Applied, writerVars, cacheVars, flusherVars
      <4>2. QED
        BY <3>3, <4>1 DEF Somewhere
    <3>4. QED
      BY <3>1, <3>2, <3>3, StepConserves
  <2>9. ASSUME NEW f \in Flushers,
               FlushClear(f)
        PROVE  SortedBuffers' /\ Conservation'
    <3>1. UNCHANGED db /\ (cause' = "none" => cause = "none")
      BY <2>9 DEF FlushClear, Record, RecordIf, cacheVars, writerVars, flusherVars
    <3>2. SortedBuffers'
      BY <2>9, <3>1 DEF FlushClear, SortedBuffers, Sorted, TypeOK, CacheTypeOK
    <3>3. ASSUME NEW op \in Op, cause' = "none", Newest(op), Somewhere(op)
          PROVE  Somewhere(op)'
      <4>1. CASE Buffered(op)
        <5>1. PICK i \in DOMAIN buffer[op.side] : buffer[op.side][i] = op
          BY <4>1 DEF Buffered
        <5>2. CASE op.side = fside[f]
          <6>1. buffer[op.side] = fread[f] /\ fread[f] \in Seq(Op)
            BY <2>9, <3>3, <5>2 DEF FlushClear, Record, RecordIf, TypeOK, FlushTypeOK
          <6>2. Sorted(fread[f])
            BY <3>1, <3>3, <6>1, OpParts DEF SortedBuffers
          <6>3. \A j \in DOMAIN fread[f] :
                  fread[f][j].doc = fread[f][i].doc => fread[f][j].ver <= fread[f][i].ver
            BY <3>3, <5>1, <6>1 DEF KnownOps, ReadsKnown, KnownTo, Newest
          <6>4. op \in LastPerDoc(fread[f])
            BY <5>1, <6>1, <6>2, <6>3, LastPerDocKeepsNewest
          <6>5. op \in ftodo'[f]
            BY <2>9, <6>4 DEF FlushClear, TypeOK, FlushTypeOK
          <6>6. QED
            BY <6>5 DEF Somewhere, InFlight
        <5>3. CASE op.side # fside[f]
          BY <2>9, <5>1, <5>3 DEF FlushClear, Somewhere, Buffered, TypeOK, CacheTypeOK
        <5>4. QED
          BY <5>2, <5>3
      <4>2. CASE InFlight(op)
        <5>1. PICK g \in Flushers : op \in ftodo[g]
          BY <4>2 DEF InFlight
        <5>2. CASE g = f
          BY <2>9, <5>1, <5>2 DEF FlushClear, TypeOK, FlushTypeOK
        <5>3. CASE g # f
          BY <2>9, <5>1, <5>3 DEF FlushClear, Somewhere, InFlight, TypeOK, FlushTypeOK
        <5>4. QED
          BY <5>2, <5>3
      <4>3. CASE Held(op) \/ Applied(op)
        BY <2>9, <3>3, <4>3 DEF FlushClear, Somewhere, Held, Applied, writerVars
      <4>4. QED
        BY <3>3, <4>1, <4>2, <4>3 DEF Somewhere
    <3>4. QED
      BY <3>1, <3>2, <3>3, StepConserves
  <2>10. ASSUME NEW f \in Flushers,
               FlushSend(f)
        PROVE  SortedBuffers' /\ Conservation'
    <3>1. UNCHANGED db /\ (cause' = "none" => cause = "none")
      BY <2>10 DEF FlushSend, Record, RecordIf, cacheVars, writerVars, flusherVars
    <3>2. SortedBuffers'
      BY <2>10, <3>1
         DEF FlushSend, SortedBuffers, Sorted, cacheVars, writerVars, flusherVars
    <3>3. ASSUME NEW op \in Op, cause' = "none", Newest(op), Somewhere(op)
          PROVE  Somewhere(op)'
      <4>1. CASE InFlight(op)
        <5>1. PICK g \in Flushers : op \in ftodo[g]
          BY <4>1 DEF InFlight
        <5>2. PICK chunk \in Chunks(ftodo[f]) :
                Apply(chunk) /\ ftodo' = [ftodo EXCEPT ![f] = ftodo[f] \ chunk]
          BY <2>10 DEF FlushSend
        <5>3. CASE g = f /\ op \in chunk
          <6>1. chunk \subseteq ftodo[f] /\ chunk \in SUBSET Op
            BY ChunkIsPart DEF TypeOK, FlushTypeOK
          <6>2. OnePerDoc(chunk)
            BY <6>1 DEF KnownOps, TodosOnePerDoc, OnePerDoc
          <6>3. Applied(op)'
            BY <5>2, <5>3, <6>1, <6>2, ApplyDoes
          <6>4. QED
            BY <6>3 DEF Somewhere
        <5>4. CASE ~ (g = f /\ op \in chunk)
          BY <5>1, <5>2, <5>4 DEF Somewhere, InFlight, TypeOK, FlushTypeOK
        <5>5. QED
          BY <5>3, <5>4
      <4>2. CASE Applied(op)
        <5>1. PICK chunk \in Chunks(ftodo[f]) : Apply(chunk) /\ ~Stale(chunk)
          BY <2>10, <3>3 DEF FlushSend, Record, RecordIf
        <5>2. chunk \in SUBSET Op /\ \A o \in chunk : KnownTo(db, o)
          BY ChunkIsPart DEF KnownOps, TodosKnown, TypeOK, FlushTypeOK
        <5>3. Applied(op)'
          BY <3>3, <4>2, <5>1, <5>2, ApplyKeeps DEF KnownOps
        <5>4. QED
          BY <5>3 DEF Somewhere
      <4>3. CASE Held(op) \/ Buffered(op)
        BY <2>10, <3>3, <4>3
           DEF FlushSend, Somewhere, Held, Buffered, writerVars, cacheVars
      <4>4. QED
        BY <3>3, <4>1, <4>2, <4>3 DEF Somewhere
    <3>4. QED
      BY <3>1, <3>2, <3>3, StepConserves
  <2>11. ASSUME NEW f \in Flushers,
               FlushFails(f)
        PROVE  SortedBuffers' /\ Conservation'
    <3>1. UNCHANGED db /\ (cause' = "none" => cause = "none")
      BY <2>11 DEF FlushFails, Record, RecordIf, cacheVars, writerVars, flusherVars
    <3>2. SortedBuffers'
      BY <2>11, <3>1
         DEF FlushFails, SortedBuffers, Sorted, cacheVars, writerVars, flusherVars
    <3>3. ASSUME NEW op \in Op, cause' = "none", Newest(op), Somewhere(op)
          PROVE  Somewhere(op)'
      <4>1. CASE InFlight(op)
        <5>1. PICK g \in Flushers : op \in ftodo[g]
          BY <4>1 DEF InFlight
        <5>2. CASE g = f
          BY <2>11, <3>3, <5>1, <5>2
             DEF FlushFails, Record, RecordIf, TypeOK, FlushTypeOK
        <5>3. CASE g # f
          BY <2>11, <5>1, <5>3 DEF FlushFails, Somewhere, InFlight, TypeOK, FlushTypeOK
        <5>4. QED
          BY <5>2, <5>3
      <4>2. CASE Held(op) \/ Buffered(op) \/ Applied(op)
        BY <2>11, <3>3, <4>2
           DEF FlushFails, Somewhere, Held, Buffered, Applied, writerVars, cacheVars
      <4>3. QED
        BY <3>3, <4>1, <4>2 DEF Somewhere
    <3>4. QED
      BY <3>1, <3>2, <3>3, StepConserves
  <2>12. CASE Tick
    <3>1. UNCHANGED db /\ (cause' = "none" => cause = "none")
      BY <2>12 DEF Tick, Record, RecordIf, cacheVars, writerVars, flusherVars
    <3>2. SortedBuffers'
      BY <2>12, <3>1 DEF Tick, SortedBuffers, Sorted, TypeOK, CacheTypeOK
    <3>3. ASSUME NEW op \in Op, cause' = "none", Newest(op), Somewhere(op)
          PROVE  Somewhere(op)'
      <4>1. CASE Buffered(op)
        <5>1. \A s \in Sides : ~Expiring(s)
          BY <2>12, <3>3 DEF Tick, Record, RecordIf
        <5>2. buffer'[op.side] = buffer[op.side]
          BY <2>12, <5>1, OpParts DEF Tick
        <5>3. QED
          BY <4>1, <5>2 DEF Somewhere, Buffered
      <4>2. CASE Held(op) \/ InFlight(op) \/ Applied(op)
        BY <2>12, <3>3, <4>2
           DEF Tick, Somewhere, Held, InFlight, Applied, writerVars, flusherVars
      <4>3. QED
        BY <3>3, <4>1, <4>2 DEF Somewhere
    <3>4. QED
      BY <3>1, <3>2, <3>3, StepConserves
  <2>13. CASE UNCHANGED vars
    <3>1. UNCHANGED <<db, engine, buffer, wpc, wop, ftodo, cause>>
      BY <2>13 DEF vars, cacheVars, writerVars, flusherVars
    <3>2. SortedBuffers'
      BY <3>1 DEF SortedBuffers, Sorted
    <3>3. ASSUME NEW op \in Op, Somewhere(op) PROVE Somewhere(op)'
      BY <3>1, <3>3 DEF Somewhere, Held, Buffered, InFlight, Applied
    <3>4. QED
      BY <3>1, <3>2, <3>3, StepConserves
  <2>14. QED
    BY <2>1, <2>2, <2>3, <2>4, <2>5, <2>6, <2>7, <2>8, <2>9, <2>10, <2>11, <2>12, <2>13
       DEF Next, HookStep, FlushStep
<1>3. QED
  BY <1>1, <1>2, TypeCorrect, OperationsKnown, PTL DEF Spec

(* The run's invariants, for every value of the constants.                 *)
THEOREM Conserved == Spec => []Conservation
BY NothingElseLoses, PTL

(* At rest, and unless one of the events in cause happened, the engine     *)
(* agrees with the database.                                               *)
THEOREM ConvergesAtRest == Spec => []Converges
<1>1. TypeOK /\ KnownOps /\ Conservation => Converges
  <2> SUFFICES ASSUME TypeOK, KnownOps, Conservation, Settled, cause = "none"
               PROVE  engine = db
    BY DEF Converges
  <2>1. ASSUME NEW d \in Docs PROVE engine[d] = db[d]
    <3>1. engine[d] \in State /\ db[d] \in State
      BY DEF TypeOK, StoreTypeOK
    <3>2. CASE db[d].ver = 0
      <4>1. engine[d].ver = 0
        BY <3>1, <3>2, SettingsAssumption DEF KnownOps, EngineKnown, State, Ver
      <4>2. QED
        BY <3>1, <3>2, <4>1 DEF KnownOps, EngineKnown, State
    <3>3. CASE db[d].ver > 0
      <4>1. Somewhere(Latest(d))
        BY <3>3 DEF Conservation
      <4>2. ~Held(Latest(d)) /\ ~InFlight(Latest(d)) /\ ~Buffered(Latest(d))
        BY <3>1
           DEF Settled, Held, InFlight, Buffered, Latest, State, TypeOK, FlushTypeOK
      <4>3. engine[d] = [side |-> db[d].side, ver |-> db[d].ver]
        BY <4>1, <4>2 DEF Somewhere, Applied, Content, Latest
      <4>4. QED
        BY <3>1, <4>3 DEF State
    <3>4. QED
      BY <3>1, <3>2, <3>3, SettingsAssumption DEF State, Ver
  <2>2. QED
    BY <2>1 DEF TypeOK, StoreTypeOK
<1>2. QED
  BY <1>1, TypeCorrect, OperationsKnown, NothingElseLoses, PTL

-----------------------------------------------------------------------------
(* One waiting flush.  A flush whose countdown runs is covered by the task *)
(* key, which lives at least as long, or by the hook about to set it; and  *)
(* a hook that is about to schedule has seen that none waits.              *)
SettingKey(s) == \E w \in Writers : wpc[w] = "setkey" /\ wop[w].side = s
Covered ==
    \A s \in Sides : \A k \in 1..Window :
        pending[s][k] > 0 => k <= keyTTL[s] \/ SettingKey(s)
NoneWaits(w) == \A k \in 1..Window : pending[wop[w].side][k] = 0
SeenNone == \A w \in Writers : wpc[w] = "schedule" => NoneWaits(w)
WaitInv == OneWaitingFlush /\ Covered /\ SeenNone

(* With the size trigger off no list is full.                              *)
LEMMA NeverFull ==
    ASSUME MaxBuffer = 0, NEW items
    PROVE  /\ ~Full(items)
           /\ Countdown(items) = Window
           /\ KeyTimeout(items) = Window
<1>1. ~Full(items) /\ Countdown(items) = Window
  BY DEF Full, Countdown
<1>2. QED
  BY <1>1, SettingsAssumption DEF KeyTimeout

(* auto_index.py:211, :238: for one process and with the size trigger off, *)
(* at most one flush of a side waits for its countdown.                    *)
THEOREM OneFlushWaits ==
    ASSUME MaxBuffer = 0, \A v, w \in Writers : v = w
    PROVE  Spec => []OneWaitingFlush
<1> USE SettingsAssumption
<1>1. Init => WaitInv
  BY DEF Init, WaitInv, OneWaitingFlush, Covered, SeenNone, Delays
<1>2. ASSUME TypeOK, WaitInv, [Next]_vars PROVE WaitInv'
  <2>1. /\ pending \in [Sides -> [Delays -> Nat]]
        /\ keyTTL \in [Sides -> Delays]
    BY <1>2 DEF TypeOK, CacheTypeOK
  <2>2. /\ wpc \in [Writers -> {"idle", "get", "set", "key", "schedule", "setkey",
                                "drop", "fallback"}]
        /\ wop \in [Writers -> Op \cup {NoOp}]
        /\ \A w \in Writers : wpc[w] # "idle" => wop[w].side \in Sides
    BY <1>2 DEF TypeOK, HookTypeOK, Op
  <2>3. OneWaitingFlush /\ Covered /\ SeenNone
    BY <1>2 DEF WaitInv
  <2>4. ASSUME NEW w \in Writers, UNCHANGED <<pending, keyTTL>>,
               wpc[w] # "setkey", wpc'[w] \notin {"schedule", "setkey"}
        PROVE  WaitInv'
    <3>1. \A v \in Writers : v = w
      OBVIOUS
    <3>2. OneWaitingFlush'
      BY <2>3, <2>4 DEF OneWaitingFlush
    <3>3. Covered'
      BY <2>3, <2>4, <3>1 DEF Covered, SettingKey
    <3>4. SeenNone'
      BY <2>4, <3>1 DEF SeenNone
    <3>5. QED
      BY <3>2, <3>3, <3>4 DEF WaitInv
  <2>5. ASSUME NEW w \in Writers, NEW d \in Docs, NEW s \in Sides, Commit(w, d, s)
        PROVE  WaitInv'
    BY <2>2, <2>4, <2>5 DEF Commit, cacheVars
  <2>6. ASSUME NEW w \in Writers,
               BufferGet(w) \/ BufferSet(w) \/ AlreadyScheduled(w) \/ ScheduleFails(w)
               \/ DropBuffer(w) \/ Fallback(w) \/ FallbackFails(w)
        PROVE  WaitInv'
    BY <2>2, <2>4, <2>6
       DEF BufferGet, BufferSet, AlreadyScheduled, ScheduleFails, DropBuffer,
           Fallback, FallbackFails, cacheVars
  <2>7. ASSUME NEW w \in Writers, MustSchedule(w) PROVE WaitInv'
    <3>1. \A v \in Writers : v = w
      OBVIOUS
    <3>2. /\ wpc[w] = "key" /\ wpc' = [wpc EXCEPT ![w] = "schedule"]
          /\ keyTTL[wop[w].side] = 0
          /\ UNCHANGED <<pending, keyTTL, wop>>
      BY <2>7, NeverFull DEF MustSchedule, cacheVars
    <3>3. OneWaitingFlush'
      BY <2>3, <3>2 DEF OneWaitingFlush
    <3>4. Covered'
      BY <2>2, <2>3, <3>1, <3>2 DEF Covered, SettingKey
    <3>5. wop[w].side \in Sides
      BY <2>2, <3>2
    <3>6. ~SettingKey(wop[w].side)
      BY <3>1, <3>2 DEF SettingKey
    <3>7. ASSUME NEW k \in 1..Window PROVE pending[wop[w].side][k] = 0
      <4>1. k \in Delays /\ k > 0
        BY DEF Delays
      <4>2. pending[wop[w].side][k] \in Nat
        BY <2>1, <3>5, <4>1
      <4>3. ~(pending[wop[w].side][k] > 0)
        BY <2>3, <3>2, <3>5, <3>6, <4>1 DEF Covered
      <4>4. QED
        BY <4>2, <4>3
    <3>8. SeenNone'
      BY <3>1, <3>2, <3>7 DEF SeenNone, NoneWaits
    <3>9. QED
      BY <3>3, <3>4, <3>8 DEF WaitInv
  <2>8. ASSUME NEW w \in Writers, Schedule(w) PROVE WaitInv'
    <3>1. \A v \in Writers : v = w
      OBVIOUS
    <3>2. /\ wpc[w] = "schedule" /\ wpc' = [wpc EXCEPT ![w] = "setkey"]
          /\ UNCHANGED <<keyTTL, wop>>
      BY <2>8 DEF Schedule, cacheVars
    <3>3. wop[w].side \in Sides /\ Window \in Delays
      BY <2>2, <3>2 DEF Delays
    <3>4. pending' = [pending EXCEPT ![wop[w].side] =
                         [pending[wop[w].side] EXCEPT ![Window] = @ + 1]]
      BY <2>8, NeverFull DEF Schedule
    <3>5. \A s \in Sides : s # wop[w].side => pending'[s] = pending[s]
      BY <2>1, <3>4
    <3>6. pending'[wop[w].side] = [pending[wop[w].side] EXCEPT ![Window] = @ + 1]
      BY <2>1, <3>3, <3>4
    <3>7. \A k \in 1..Window : pending[wop[w].side][k] = 0
      BY <2>3, <3>2 DEF SeenNone, NoneWaits
    <3>8. \A k \in 1..Window :
             pending'[wop[w].side][k] = IF k = Window THEN 1 ELSE 0
      <4>1. pending[wop[w].side] \in [Delays -> Nat]
        BY <2>1, <3>3
      <4>2. \A k \in 1..Window : k \in Delays
        BY DEF Delays
      <4>3. QED
        BY <3>3, <3>6, <3>7, <4>1, <4>2
    <3>9. OneWaitingFlush'
      BY <2>3, <3>5, <3>8 DEF OneWaitingFlush
    <3>10. ~\E s \in Sides : SettingKey(s)
      BY <3>1, <3>2 DEF SettingKey
    <3>11. SettingKey(wop[w].side)'
      BY <2>2, <3>2 DEF SettingKey
    <3>12. Covered'
      <4>1. ASSUME NEW s \in Sides, NEW k \in 1..Window, pending'[s][k] > 0
            PROVE  k <= keyTTL'[s] \/ SettingKey(s)'
        <5>1. CASE s = wop[w].side
          BY <3>2, <3>11, <5>1 DEF SettingKey
        <5>2. CASE s # wop[w].side
          BY <2>3, <3>2, <3>5, <3>10, <4>1, <5>2 DEF Covered
        <5>3. QED
          BY <5>1, <5>2
      <4>2. QED
        BY <4>1 DEF Covered
    <3>13. SeenNone'
      BY <2>2, <3>1, <3>2 DEF SeenNone
    <3>14. QED
      BY <3>9, <3>12, <3>13 DEF WaitInv
  <2>9. ASSUME NEW w \in Writers, SetKey(w) PROVE WaitInv'
    <3>1. \A v \in Writers : v = w
      OBVIOUS
    <3>2. /\ wpc[w] = "setkey" /\ wpc' = [wpc EXCEPT ![w] = "idle"]
          /\ keyTTL' = [keyTTL EXCEPT ![wop[w].side] = Window]
          /\ UNCHANGED pending
      BY <2>9, NeverFull DEF SetKey
    <3>3. OneWaitingFlush'
      BY <2>3, <3>2 DEF OneWaitingFlush
    <3>4. SeenNone'
      BY <2>2, <3>1, <3>2 DEF SeenNone
    <3>5. ASSUME NEW s \in Sides, NEW k \in 1..Window, pending'[s][k] > 0
          PROVE  k <= keyTTL'[s]
      <4>1. CASE s = wop[w].side
        BY <2>1, <3>2, <4>1
      <4>2. CASE s # wop[w].side
        BY <2>1, <2>3, <3>1, <3>2, <3>5, <4>2 DEF Covered, SettingKey
      <4>3. QED
        BY <4>1, <4>2
    <3>6. QED
      BY <3>3, <3>4, <3>5 DEF WaitInv, Covered
  <2>10. ASSUME NEW f \in Flushers, FlushStep(f) PROVE WaitInv'
    <3>1. UNCHANGED <<keyTTL, wpc, wop>>
      BY <2>10
         DEF FlushStep, FlushStart, FlushReadEmpty, FlushRead, FlushClear, FlushSend,
             FlushFails, cacheVars, writerVars
    <3>2. \A s \in Sides : \A k \in 1..Window : pending'[s][k] = pending[s][k]
      <4>1. ASSUME NEW s \in Sides, FlushStart(f, s)
            PROVE  \A r \in Sides : \A k \in 1..Window : pending'[r][k] = pending[r][k]
        <5>1. pending' = [pending EXCEPT ![s] = [pending[s] EXCEPT ![0] = @ - 1]]
          BY <4>1 DEF FlushStart
        <5>2. \A k \in 1..Window : k \in Delays /\ k # 0
          BY DEF Delays
        <5>3. \A r \in Sides : pending[r] \in [Delays -> Nat]
          BY <2>1
        <5>4. pending'[s] = [pending[s] EXCEPT ![0] = @ - 1]
          BY <2>1, <5>1
        <5>5. \A r \in Sides : r # s => pending'[r] = pending[r]
          BY <2>1, <5>1
        <5>6. \A k \in 1..Window : pending'[s][k] = pending[s][k]
          BY <5>2, <5>3, <5>4
        <5>7. QED
          BY <5>5, <5>6
      <4>2. CASE UNCHANGED pending
        BY <4>2
      <4>3. QED
        BY <2>10, <4>1, <4>2
           DEF FlushStep, FlushReadEmpty, FlushRead, FlushClear, FlushSend, FlushFails
    <3>3. OneWaitingFlush'
      BY <2>3, <3>2 DEF OneWaitingFlush
    <3>4. Covered'
      BY <2>3, <3>1, <3>2 DEF Covered, SettingKey
    <3>5. SeenNone'
      BY <2>2, <2>3, <3>1, <3>2 DEF SeenNone, NoneWaits
    <3>6. QED
      BY <3>3, <3>4, <3>5 DEF WaitInv
  <2>11. ASSUME Tick PROVE WaitInv'
    <3>1. UNCHANGED <<wpc, wop>>
      BY <2>11 DEF Tick, writerVars
    <3>2. \A s \in Sides : keyTTL'[s] = Less(keyTTL[s])
      BY <2>11 DEF Tick
    <3>3. \A s \in Sides : \A k \in 1..Window :
             pending'[s][k] = IF k < Window THEN pending[s][k + 1] ELSE 0
      <4>1. ASSUME NEW s \in Sides, NEW k \in 1..Window
            PROVE  pending'[s][k] = IF k < Window THEN pending[s][k + 1] ELSE 0
        <5>1. k \in Delays /\ k # 0 /\ (k < Window => k + 1 \in Delays)
          BY DEF Delays
        <5>2. pending'[s][k] = (IF k < Window THEN pending[s][k + 1] ELSE 0) + 0
          BY <2>11, <5>1 DEF Tick
        <5>3. k < Window => pending[s][k + 1] \in Nat
          BY <2>1, <5>1
        <5>4. QED
          BY <5>2, <5>3
      <4>2. QED
        BY <4>1
    <3>4. OneWaitingFlush'
      <4>1. ASSUME NEW s \in Sides, NEW k \in 1..Window, NEW l \in 1..Window,
                   pending'[s][k] > 0, pending'[s][l] > 0
            PROVE  k = l /\ pending'[s][k] = 1
        <5>1. k < Window /\ l < Window
          BY <3>3, <4>1
        <5>2. k + 1 \in 1..Window /\ l + 1 \in 1..Window
          BY <5>1
        <5>3. pending'[s][k] = pending[s][k + 1] /\ pending'[s][l] = pending[s][l + 1]
          BY <3>3, <5>1
        <5>4. k + 1 = l + 1 /\ pending[s][k + 1] = 1
          BY <2>3, <4>1, <5>2, <5>3 DEF OneWaitingFlush
        <5>5. QED
          BY <5>3, <5>4
      <4>2. QED
        BY <4>1 DEF OneWaitingFlush
    <3>5. Covered'
      <4>1. ASSUME NEW s \in Sides, NEW k \in 1..Window, pending'[s][k] > 0
            PROVE  k <= keyTTL'[s] \/ SettingKey(s)'
        <5>1. k < Window /\ k + 1 \in 1..Window /\ pending[s][k + 1] > 0
          BY <3>3, <4>1
        <5>2. k + 1 <= keyTTL[s] \/ SettingKey(s)
          BY <2>3, <5>1 DEF Covered
        <5>3. keyTTL[s] \in Nat
          BY <2>1 DEF Delays
        <5>4. k + 1 <= keyTTL[s] => k <= keyTTL'[s]
          BY <3>2, <5>3 DEF Less
        <5>5. SettingKey(s) => SettingKey(s)'
          BY <3>1 DEF SettingKey
        <5>6. QED
          BY <5>2, <5>4, <5>5
      <4>2. QED
        BY <4>1 DEF Covered
    <3>6. SeenNone'
      <4>1. ASSUME NEW w \in Writers, wpc[w] = "schedule", NEW k \in 1..Window
            PROVE  pending'[wop[w].side][k] = 0
        <5>1. wop[w].side \in Sides
          BY <2>2, <4>1
        <5>2. NoneWaits(w)
          BY <2>3, <4>1 DEF SeenNone
        <5>3. k < Window => k + 1 \in 1..Window
          OBVIOUS
        <5>4. QED
          BY <3>3, <5>1, <5>2, <5>3 DEF NoneWaits
      <4>2. QED
        BY <3>1, <4>1 DEF SeenNone, NoneWaits
    <3>7. QED
      BY <3>4, <3>5, <3>6 DEF WaitInv
  <2>12. CASE UNCHANGED vars
    <3>1. UNCHANGED <<pending, keyTTL, wpc, wop>>
      BY <2>12 DEF vars, cacheVars, writerVars
    <3>2. QED
      BY <1>2, <3>1
         DEF WaitInv, OneWaitingFlush, Covered, SettingKey, SeenNone, NoneWaits
  <2>13. QED
    BY <1>2, <2>5, <2>6, <2>7, <2>8, <2>9, <2>10, <2>11, <2>12 DEF Next, HookStep
<1>3. WaitInv => OneWaitingFlush
  BY DEF WaitInv
<1>4. QED
  BY <1>1, <1>2, <1>3, TypeCorrect, PTL DEF Spec

=============================================================================
