------------------------- MODULE ResultCache_proofs -------------------------
(***************************************************************************)
(* Proofs about ResultCache: the state is well typed; the key-set names    *)
(* every cached entry until a recorded event has lost a key; and a stale   *)
(* answer outlives the write that made it stale only after an event that   *)
(* the model records.                                                      *)
(***************************************************************************)
EXTENDS ResultCache, TLAPS

(* The time to live of a key-set that was just written is positive.        *)
LEMMA KeySetTimeout == Factor * Timeout \in Nat \ {0}
<1>1. \A a, b \in Nat \ {0} : a * b \in Nat \ {0}
  OBVIOUS
<1>2. QED
  BY <1>1, SettingsAssumption

(* A version is not the mark of a missing entry.                           *)
LEMMA NoneApart == \A v \in Versions : v # None
BY NoneAssumption, SettingsAssumption DEF Versions

(* Down stays in the range of a timeout.                                   *)
LEMMA DownType ==
    ASSUME NEW m \in Nat, NEW n \in 0..m
    PROVE  /\ Down(n) \in 0..m
           /\ Down(n) = 0 <=> n <= 1
BY DEF Down

(* Everyone who searches has a query.                                      *)
Asking == \A s \in Searchers : spc[s] # "idle" => squery[s] \in Queries

(* No key-set is kept beyond its timeout.                                  *)
KeySetKept == knownTTL = 0 => known = {}

-----------------------------------------------------------------------------
(* Types, action by action.                                                *)
LEMMA TypeStep == TypeOK /\ Asking /\ [Next]_vars => TypeOK'
<1> SUFFICES ASSUME TypeOK, Asking, [Next]_vars
             PROVE  TypeOK'
  OBVIOUS
<1> USE SettingsAssumption
<1>1. ASSUME NEW s \in Searchers, NEW q \in Queries, Miss(s, q)
      PROVE  TypeOK'
  BY <1>1 DEF TypeOK, Miss, cacheVars, writeVars
<1>2. ASSUME NEW s \in Searchers, Ask(s)
      PROVE  TypeOK'
  BY <1>2 DEF TypeOK, Ask, cacheVars, writeVars
<1>3. ASSUME NEW s \in Searchers, Fill(s)
      PROVE  TypeOK'
  <2>1. 0 \in Versions /\ Timeout \in 0..Timeout
    BY DEF Versions
  <2>2. entry' \in [Queries -> Versions \cup {None}]
    BY <1>3 DEF TypeOK, Fill
  <2>3. entryTTL' \in [Queries -> 0..Timeout]
    BY <1>3, <2>1 DEF TypeOK, Fill
  <2>4. /\ spc' \in [Searchers -> {"idle", "ask", "fill", "keys", "register"}]
        /\ sgot' \in [Searchers -> Versions]
    BY <1>3, <2>1 DEF TypeOK, Fill
  <2>5. missed' \in BOOLEAN
    BY <1>3 DEF TypeOK, Fill
  <2>6. QED
    BY <1>3, <2>2, <2>3, <2>4, <2>5 DEF TypeOK, Fill, writeVars
<1>4. ASSUME NEW s \in Searchers, AlreadyKnown(s)
      PROVE  TypeOK'
  BY <1>4 DEF TypeOK, AlreadyKnown, Searched, cacheVars, writeVars
<1>5. ASSUME NEW s \in Searchers, ReadKeys(s)
      PROVE  TypeOK'
  BY <1>5 DEF TypeOK, ReadKeys, cacheVars, writeVars
<1>6. ASSUME NEW s \in Searchers, Register(s)
      PROVE  TypeOK'
  <2>1. known' \in SUBSET Queries
    BY <1>6 DEF TypeOK, Asking, Register
  <2>2. knownTTL' \in 0..(Factor * Timeout)
    BY <1>6, KeySetTimeout DEF Register
  <2>3. unkeyed' \in BOOLEAN
    BY <1>6 DEF TypeOK, Register
  <2>4. /\ spc' \in [Searchers -> {"idle", "ask", "fill", "keys", "register"}]
        /\ squery' \in [Searchers -> Queries \cup {None}]
        /\ sread' \in [Searchers -> SUBSET Queries]
    BY <1>6 DEF TypeOK, Register, Searched
  <2>5. QED
    BY <1>6, <2>1, <2>2, <2>3, <2>4 DEF TypeOK, Register, writeVars
<1>7. ASSUME NEW w \in Writers, Indexed(w)
      PROVE  TypeOK'
  BY <1>7 DEF TypeOK, Indexed, Applied, Versions, cacheVars, searchVars
<1>8. ASSUME NEW w \in Writers, ReadKnown(w)
      PROVE  TypeOK'
  <2>1. missed' \in BOOLEAN
    BY <1>8 DEF TypeOK, ReadKnown
  <2>2. /\ wread' \in [Writers -> SUBSET Queries]
        /\ wpc' \in [Writers -> {"idle", "invalidate", "delete", "drop"}]
    BY <1>8 DEF TypeOK, ReadKnown
  <2>3. QED
    BY <1>8, <2>1, <2>2 DEF TypeOK, ReadKnown, cacheVars, searchVars
<1>9. ASSUME NEW w \in Writers, DeleteMany(w)
      PROVE  TypeOK'
  <2>1. /\ entry' \in [Queries -> Versions \cup {None}]
        /\ entryTTL' \in [Queries -> 0..Timeout]
    BY <1>9 DEF TypeOK, DeleteMany
  <2>2. /\ wread' \in [Writers -> SUBSET Queries]
        /\ wpc' \in [Writers -> {"idle", "invalidate", "delete", "drop"}]
    BY <1>9 DEF TypeOK, DeleteMany
  <2>3. QED
    BY <1>9, <2>1, <2>2 DEF TypeOK, DeleteMany, searchVars
<1>10. ASSUME NEW w \in Writers, DropKnown(w)
       PROVE  TypeOK'
  <2>1. known' \in SUBSET Queries /\ knownTTL' \in 0..(Factor * Timeout)
    BY <1>10, KeySetTimeout DEF DropKnown
  <2>2. unkeyed' \in BOOLEAN
    BY <1>10 DEF TypeOK, DropKnown
  <2>3. QED
    BY <1>10, <2>1, <2>2 DEF TypeOK, DropKnown, Written, searchVars
<1>11. ASSUME NEW w \in Writers, Crash(w)
       PROVE  TypeOK'
  BY <1>11 DEF TypeOK, Crash, Written, cacheVars, searchVars
<1>12. CASE Silent
  BY <1>12 DEF TypeOK, Silent, Applied, Versions, cacheVars, searchVars, writeVars
<1>13. CASE Tick
  <2>1. entryTTL' \in [Queries -> 0..Timeout]
    BY <1>13, DownType DEF TypeOK, Tick
  <2>2. entry' \in [Queries -> Versions \cup {None}]
    BY <1>13 DEF TypeOK, Tick
  <2>3. known' \in SUBSET Queries /\ knownTTL' \in 0..(Factor * Timeout)
    BY <1>13, KeySetTimeout, DownType DEF TypeOK, Tick
  <2>4. unkeyed' \in BOOLEAN
    BY <1>13 DEF TypeOK, Tick
  <2>5. QED
    BY <1>13, <2>1, <2>2, <2>3, <2>4 DEF TypeOK, Tick, searchVars, writeVars
<1>14. CASE UNCHANGED vars
  BY <1>14 DEF TypeOK, vars, cacheVars, searchVars, writeVars
<1>15. QED
  BY <1>1, <1>2, <1>3, <1>4, <1>5, <1>6, <1>7, <1>8, <1>9, <1>10, <1>11, <1>12,
     <1>13, <1>14 DEF Next, SearchStep, Invalidate

LEMMA AskingStep == TypeOK /\ Asking /\ [Next]_vars => Asking'
<1> SUFFICES ASSUME TypeOK, Asking, [Next]_vars
             PROVE  Asking'
  OBVIOUS
<1>1. ASSUME NEW s \in Searchers, NEW q \in Queries, Miss(s, q)
      PROVE  Asking'
  BY <1>1 DEF TypeOK, Asking, Miss
<1>2. ASSUME NEW s \in Searchers, SearchStep(s)
      PROVE  Asking'
  BY <1>2 DEF TypeOK, Asking, SearchStep, Ask, Fill, AlreadyKnown, ReadKeys, Register,
              Searched
<1>3. ASSUME NEW w \in Writers, Indexed(w) \/ Invalidate(w) \/ Crash(w)
      PROVE  UNCHANGED searchVars
  BY <1>3 DEF Indexed, Invalidate, ReadKnown, DeleteMany, DropKnown, Crash
<1>4. Silent \/ Tick \/ UNCHANGED vars => UNCHANGED searchVars
  BY DEF Silent, Tick, vars
<1>5. UNCHANGED searchVars => Asking'
  BY DEF Asking, searchVars
<1>6. QED
  BY <1>1, <1>2, <1>3, <1>4, <1>5 DEF Next

LEMMA TypeInit == Init => TypeOK /\ Asking
<1>1. 0 \in Versions /\ 0 \in 0..Timeout /\ 0 \in 0..(Factor * Timeout)
  BY SettingsAssumption, KeySetTimeout DEF Versions
<1>2. QED
  BY <1>1 DEF Init, TypeOK, Asking

(* TypeOK holds for any sets of queries, searchers and writers and any     *)
(* timeouts; a thread that searches has a query.                           *)
THEOREM TypeCorrect == Spec => [](TypeOK /\ Asking)
<1>1. Init => TypeOK /\ Asking
  BY TypeInit
<1>2. TypeOK /\ Asking /\ [Next]_vars => (TypeOK /\ Asking)'
  BY TypeStep, AskingStep
<1>3. QED
  BY <1>1, <1>2, PTL DEF Spec

-----------------------------------------------------------------------------
(* The key-set.                                                            *)
KeyInv == TypeOK /\ Asking /\ KeySetKept /\ KeysKnown

LEMMA KeptStep == TypeOK /\ KeySetKept /\ [Next]_vars => KeySetKept'
<1> SUFFICES ASSUME TypeOK, KeySetKept, [Next]_vars
             PROVE  KeySetKept'
  OBVIOUS
<1>1. ASSUME NEW s \in Searchers, Register(s)
      PROVE  KeySetKept'
  BY <1>1, KeySetTimeout DEF KeySetKept, Register
<1>2. ASSUME NEW w \in Writers, DropKnown(w)
      PROVE  KeySetKept'
  BY <1>2 DEF KeySetKept, DropKnown
<1>3. CASE Tick
  BY <1>3 DEF KeySetKept, Tick
<1>4. CASE UNCHANGED <<known, knownTTL>>
  BY <1>4 DEF KeySetKept
<1>5. QED
  BY <1>1, <1>2, <1>3, <1>4 DEF Next, SearchStep, Invalidate, Miss, Ask, Fill,
     AlreadyKnown, ReadKeys, Indexed, ReadKnown, DeleteMany, Crash, Silent, vars,
     cacheVars

(* Who registers a key goes on doing so, when he takes no step.            *)
LEMMA GoesOnRegistering ==
    ASSUME NEW q, Registering(q), UNCHANGED <<spc, squery>>
    PROVE  Registering(q)'
BY DEF Registering

LEMMA KnownStep == KeyInv /\ [Next]_vars => KeysKnown'
<1> SUFFICES ASSUME KeyInv, [Next]_vars, ~unkeyed', NEW q \in Live'
             PROVE  q \in known' \/ Registering(q)'
  BY DEF KeysKnown
<1> USE DEF KeyInv
<1>1. ASSUME NEW s \in Searchers, NEW r \in Queries, Miss(s, r)
      PROVE  q \in known' \/ Registering(q)'
  BY <1>1 DEF TypeOK, KeysKnown, Miss, Live, Registering, cacheVars
<1>2. ASSUME NEW s \in Searchers, Ask(s)
      PROVE  q \in known' \/ Registering(q)'
  BY <1>2 DEF TypeOK, KeysKnown, Ask, Live, Registering, cacheVars
<1>3. ASSUME NEW s \in Searchers, Fill(s)
      PROVE  q \in known' \/ Registering(q)'
  <2>1. CASE q = squery[s]
    BY <1>3, <2>1 DEF TypeOK, Fill, Registering
  <2>2. CASE q # squery[s]
    <3>1. q \in Live
      BY <1>3, <2>2 DEF TypeOK, Fill, Live
    <3>2. QED
      BY <1>3, <3>1 DEF TypeOK, KeysKnown, Fill, Registering
  <2>3. QED
    BY <2>1, <2>2
<1>4. ASSUME NEW s \in Searchers, AlreadyKnown(s)
      PROVE  q \in known' \/ Registering(q)'
  <2>1. q \in Live /\ ~unkeyed /\ known' = known
    BY <1>4 DEF AlreadyKnown, Live, cacheVars
  <2>2. ASSUME q \notin known, NEW t \in Searchers,
               spc[t] \in {"keys", "register"}, squery[t] = q
        PROVE  t # s
    BY <1>4, <2>2 DEF AlreadyKnown
  <2>3. QED
    BY <1>4, <2>1, <2>2 DEF TypeOK, KeysKnown, AlreadyKnown, Searched, Registering
<1>5. ASSUME NEW s \in Searchers, ReadKeys(s)
      PROVE  q \in known' \/ Registering(q)'
  BY <1>5 DEF TypeOK, KeysKnown, ReadKeys, Live, Registering, cacheVars
<1>6. ASSUME NEW s \in Searchers, Register(s)
      PROVE  q \in known' \/ Registering(q)'
  <2>1. q \in Live /\ ~unkeyed
    BY <1>6 DEF Register, Live
  <2>2. CASE q \in known
    BY <1>6, <2>1, <2>2 DEF Register
  <2>3. ASSUME NEW t \in Searchers, spc[t] \in {"keys", "register"}, squery[t] = q
        PROVE  q \in known' \/ Registering(q)'
    <3>1. CASE t = s
      BY <1>6, <2>3, <3>1 DEF Register
    <3>2. CASE t # s
      BY <1>6, <2>3, <3>2 DEF TypeOK, Register, Searched, Registering
    <3>3. QED
      BY <3>1, <3>2
  <2>4. QED
    BY <2>1, <2>2, <2>3 DEF KeysKnown, Registering
<1>7. ASSUME NEW w \in Writers, DropKnown(w)
      PROVE  q \in known' \/ Registering(q)'
  BY <1>7, GoesOnRegistering DEF KeysKnown, DropKnown, Live, searchVars
<1>8. ASSUME NEW w \in Writers, DeleteMany(w)
      PROVE  q \in known' \/ Registering(q)'
  <2>1. q \in Live /\ ~unkeyed /\ known' = known
    BY <1>8 DEF TypeOK, DeleteMany, Live
  <2>2. QED
    BY <1>8, <2>1, GoesOnRegistering DEF KeysKnown, DeleteMany, searchVars
<1>9. CASE Tick
  <2>1. q \in Live /\ entryTTL'[q] # 0 /\ ~unkeyed
    BY <1>9 DEF TypeOK, Tick, Live
  <2>2. entryTTL[q] > 1
    BY <1>9, <2>1, DownType, SettingsAssumption DEF TypeOK, Tick, Live
  <2>3. CASE q \in known
    <3>1. knownTTL # 0 /\ knownTTL # 1 /\ knownTTL \in 0..(Factor * Timeout)
      BY <1>9, <2>2, <2>3 DEF TypeOK, Tick, KeySetKept
    <3>2. knownTTL' # 0
      BY <1>9, <3>1, DownType, KeySetTimeout DEF Tick
    <3>3. QED
      BY <1>9, <2>3, <3>2 DEF Tick
  <2>4. CASE Registering(q)
    BY <1>9, <2>4, GoesOnRegistering DEF Tick, searchVars
  <2>5. QED
    BY <2>1, <2>3, <2>4 DEF KeysKnown
<1>10. CASE UNCHANGED <<entry, known, unkeyed, searchVars>>
  BY <1>10, GoesOnRegistering DEF KeysKnown, Live, searchVars
<1>11. QED
  BY <1>1, <1>2, <1>3, <1>4, <1>5, <1>6, <1>7, <1>8, <1>9, <1>10
     DEF Next, SearchStep, Invalidate, Indexed, ReadKnown, Crash, Silent, vars,
     cacheVars, searchVars

(* KeysKnown: until a recorded event has lost a key, an invalidation finds *)
(* every entry in the key-set or its search still on the way to register   *)
(* it (cache.py, _register_key and invalidate).                            *)
THEOREM KeysAreKnown == Spec => []KeysKnown
<1>1. Init => KeyInv
  BY TypeInit DEF Init, KeyInv, KeySetKept, KeysKnown, Live
<1>2. KeyInv /\ [Next]_vars => KeyInv'
  BY TypeStep, AskingStep, KeptStep, KnownStep DEF KeyInv
<1>3. KeyInv => KeysKnown
  BY DEF KeyInv
<1>4. QED
  BY <1>1, <1>2, <1>3, PTL DEF Spec

-----------------------------------------------------------------------------
(* Freshness.                                                              *)
FreshInv == KeyInv /\ Fresh

LEMMA FreshStep == FreshInv /\ KeysKnown' /\ [Next]_vars => Fresh'
<1> SUFFICES ASSUME FreshInv, KeysKnown', [Next]_vars, ~missed', ~unkeyed',
                    NEW q \in Queries, Stale(q)'
             PROVE  SomeWillDelete(q)'
  BY DEF Fresh
<1> USE DEF FreshInv, KeyInv
<1>1. ASSUME UNCHANGED <<engine, entry, wpc, wread, unkeyed, missed>>
      PROVE  SomeWillDelete(q)'
  BY <1>1 DEF Fresh, Stale, SomeWillDelete, WillDelete
<1>2. ASSUME NEW s \in Searchers, Fill(s)
      PROVE  SomeWillDelete(q)'
  <2>1. /\ sgot[s] = engine \/ SomeWillDelete(squery[s])
        /\ ~missed /\ ~unkeyed
    BY <1>2 DEF Fill
  <2>2. SomeWillDelete(q) => SomeWillDelete(q)'
    BY <1>2 DEF Fill, writeVars, SomeWillDelete, WillDelete
  <2>3. CASE q = squery[s]
    BY <1>2, <2>1, <2>2, <2>3 DEF TypeOK, Fill, Stale
  <2>4. CASE q # squery[s]
    BY <1>2, <2>1, <2>2, <2>4 DEF TypeOK, Fresh, Fill, Stale
  <2>5. QED
    BY <2>3, <2>4
<1>3. ASSUME NEW s \in Searchers, Register(s)
      PROVE  SomeWillDelete(q)'
  BY <1>3 DEF Register, Fresh, Stale, SomeWillDelete, WillDelete, writeVars
<1>4. ASSUME NEW w \in Writers, Indexed(w)
      PROVE  SomeWillDelete(q)'
  BY <1>4 DEF TypeOK, Indexed, SomeWillDelete, WillDelete
<1>5. ASSUME NEW w \in Writers, ReadKnown(w)
      PROVE  SomeWillDelete(q)'
  <2>1. Stale(q) /\ ~missed /\ ~unkeyed
    BY <1>5 DEF ReadKnown, Stale, cacheVars
  <2>2. q \in known
    BY <1>5, <2>1 DEF ReadKnown, KeysKnown, Live, Stale
  <2>3. wpc'[w] = "delete" /\ q \in wread'[w]
    BY <1>5, <2>2 DEF TypeOK, ReadKnown
  <2>4. QED
    BY <2>3 DEF SomeWillDelete, WillDelete
<1>6. ASSUME NEW w \in Writers, DeleteMany(w)
      PROVE  SomeWillDelete(q)'
  <2>1. Stale(q) /\ ~missed /\ ~unkeyed /\ q \notin wread[w]
    BY <1>6 DEF TypeOK, DeleteMany, Stale
  <2>2. PICK v \in Writers : WillDelete(v, q)
    BY <2>1 DEF Fresh, SomeWillDelete
  <2>3. v # w
    BY <1>6, <2>1, <2>2 DEF DeleteMany, WillDelete
  <2>4. WillDelete(v, q)'
    BY <1>6, <2>2, <2>3 DEF TypeOK, DeleteMany, WillDelete
  <2>5. QED
    BY <2>4 DEF SomeWillDelete
<1>7. ASSUME NEW w \in Writers, DropKnown(w)
      PROVE  SomeWillDelete(q)'
  <2>1. Stale(q) /\ ~missed /\ ~unkeyed
    BY <1>7 DEF DropKnown, Stale
  <2>2. PICK v \in Writers : WillDelete(v, q)
    BY <2>1 DEF Fresh, SomeWillDelete
  <2>3. v # w
    BY <1>7, <2>2 DEF DropKnown, WillDelete
  <2>4. WillDelete(v, q)'
    BY <1>7, <2>2, <2>3 DEF TypeOK, DropKnown, Written, WillDelete
  <2>5. QED
    BY <2>4 DEF SomeWillDelete
<1>8. ASSUME NEW w \in Writers, Crash(w)
      PROVE  SomeWillDelete(q)'
  <2>1. Stale(q) /\ ~missed /\ ~unkeyed /\ ~WillDelete(w, q)
    BY <1>8 DEF Crash, Stale, cacheVars
  <2>2. PICK v \in Writers : WillDelete(v, q)
    BY <2>1 DEF Fresh, SomeWillDelete
  <2>3. WillDelete(v, q)'
    BY <1>8, <2>1, <2>2 DEF TypeOK, Crash, Written, WillDelete
  <2>4. QED
    BY <2>3 DEF SomeWillDelete
<1>9. CASE Silent
  BY <1>9 DEF Silent, Live, Stale, cacheVars
<1>10. CASE Tick
  <2>1. Stale(q) /\ ~missed /\ ~unkeyed
    BY <1>10 DEF TypeOK, Tick, Stale
  <2>2. QED
    BY <1>10, <2>1 DEF Fresh, Tick, SomeWillDelete, WillDelete, writeVars
<1>11. QED
  BY <1>1, <1>2, <1>3, <1>4, <1>5, <1>6, <1>7, <1>8, <1>9, <1>10
     DEF Next, SearchStep, Invalidate, Miss, Ask, AlreadyKnown, ReadKeys, vars,
     cacheVars, writeVars

(* Fresh: a stale answer is about to be deleted by the invalidation of some *)
(* write, unless a recorded event let it escape (handlers.py, cache.py).    *)
THEOREM AnswersAreFresh == Spec => []Fresh
<1>1. Init => FreshInv
  BY TypeInit DEF Init, FreshInv, KeyInv, KeySetKept, KeysKnown, Live, Fresh, Stale
<1>2. FreshInv /\ [Next]_vars => FreshInv'
  <2>1. KeyInv /\ [Next]_vars => KeyInv'
    BY TypeStep, AskingStep, KeptStep, KnownStep DEF KeyInv
  <2>2. QED
    BY <2>1, FreshStep DEF FreshInv, KeyInv
<1>3. FreshInv => Fresh
  BY DEF FreshInv
<1>4. QED
  BY <1>1, <1>2, <1>3, PTL DEF Spec
=============================================================================
