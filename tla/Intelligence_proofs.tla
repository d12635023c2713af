------------------------ MODULE Intelligence_proofs ------------------------
(***************************************************************************)
(* Proofs about Intelligence and the counters of Analytics: each search    *)
(* and each click is counted once, and each query gets one rule, but for   *)
(* the events that the model records.                                      *)
(***************************************************************************)
EXTENDS Intelligence, FiniteSetTheorems, TLAPS

(* A set of subsets of a finite set has a smallest member.  With D the      *)
(* subsets for which a claim fails, it serves as induction over finite sets.*)
LEMMA SmallestSubset ==
    ASSUME NEW D, IsFiniteSet(D), NEW B \in SUBSET (SUBSET D), B # {}
    PROVE  \E T \in B : IsFiniteSet(T) /\ \A U \in B : U \subseteq T => U = T
<1>1. FiniteSubsetsOf(D) = SUBSET D
  BY FS_FiniteSubsetsOfFinite
<1>2. PICK T \in B : \A U \in B : ~ (<<U, T>> \in StrictSubsetOrdering(D))
  BY <1>1, FS_StrictSubsetOrderingWellFounded, WFMin
<1>3. \A U \in B : U \subseteq T => U = T
  BY <1>2 DEF StrictSubsetOrdering
<1>4. QED
  BY <1>3, FS_Subset

(* The function by which the community modules define a sum.               *)
First(s) == CHOOSE x \in s : TRUE
Sums(g, f, D) ==
    g = [s \in SUBSET D |-> IF s = {} THEN 0 ELSE f[First(s)] + g[s \ {First(s)}]]

LEMMA FirstIn == \A s : s # {} => First(s) \in s
BY DEF First

LEMMA SumIsChosen ==
    ASSUME NEW f, NEW D
    PROVE  SumFunctionOnSet(f, D) = (CHOOSE g : Sums(g, f, D))[D]
BY DEF SumFunctionOnSet, FoldFunctionOnSet, MapThenFoldSet, Sums, First

LEMMA SumsAgree ==
    ASSUME NEW f, NEW D, IsFiniteSet(D), NEW E, NEW g, NEW h, Sums(g, f, D), Sums(h, f, E)
    PROVE  \A s \in SUBSET (D \cap E) : g[s] = h[s]
<1> DEFINE B == {s \in SUBSET (D \cap E) : g[s] # h[s]}
<1> SUFFICES ASSUME B # {} PROVE FALSE
  OBVIOUS
<1>1. PICK T \in B : \A U \in B : U \subseteq T => U = T
  <2>1. B \in SUBSET (SUBSET D)
    OBVIOUS
  <2> HIDE DEF B
  <2>2. QED
    BY <2>1, SmallestSubset
<1>2. T # {}
  BY DEF Sums
<1>3. T \ {First(T)} \notin B /\ T \ {First(T)} \in SUBSET (D \cap E)
  BY <1>1, <1>2, FirstIn
<1>4. g[T \ {First(T)}] = h[T \ {First(T)}]
  BY <1>3
<1>5. QED
  BY <1>2, <1>4 DEF Sums

LEMMA SumsExist ==
    ASSUME NEW f, NEW D, IsFiniteSet(D)
    PROVE  \E g : Sums(g, f, D)
<1> DEFINE B == {s \in SUBSET D : ~ \E g : Sums(g, f, s)}
<1> SUFFICES ASSUME B # {} PROVE FALSE
  OBVIOUS
<1>1. PICK T \in B : IsFiniteSet(T) /\ \A U \in B : U \subseteq T => U = T
  <2>1. B \in SUBSET (SUBSET D)
    OBVIOUS
  <2> HIDE DEF B
  <2>2. QED
    BY <2>1, SmallestSubset
<1> DEFINE v(s) == SumFunctionOnSet(f, s)
           next(s) == IF s = {} THEN 0 ELSE f[First(s)] + v(s \ {First(s)})
           G == [s \in SUBSET T |-> next(s)]
<1>2. ASSUME NEW s \in SUBSET T, s # T PROVE v(s) = next(s)
  <2>1. s \notin B /\ s \in SUBSET D /\ IsFiniteSet(s)
    BY <1>1, <1>2, FS_Subset
  <2> DEFINE c == CHOOSE g : Sums(g, f, s)
  <2>2. Sums(c, f, s)
    BY <2>1
  <2>3. v(s) = c[s]
    BY SumIsChosen
  <2>4. CASE s = {}
    BY <2>2, <2>3, <2>4 DEF Sums
  <2>5. CASE s # {}
    <3> DEFINE r == s \ {First(s)}
    <3>1. r \in SUBSET T /\ r # T /\ r \in SUBSET s
      BY <2>5, FirstIn
    <3>2. r \notin B /\ r \in SUBSET D
      BY <1>1, <3>1
    <3> DEFINE e == CHOOSE g : Sums(g, f, r)
    <3>3. Sums(e, f, r) /\ v(r) = e[r]
      BY <3>2, SumIsChosen
    <3>4. c[r] = e[r]
      <4>1. r \in SUBSET (s \cap r)
        BY <3>1
      <4>2. QED
        BY <2>1, <2>2, <3>3, <4>1, SumsAgree
    <3>5. c[s] = f[First(s)] + c[r]
      BY <2>2, <2>5 DEF Sums
    <3>6. QED
      BY <2>3, <2>5, <3>3, <3>4, <3>5
  <2>6. QED
    BY <2>4, <2>5
<1>3. ASSUME NEW s \in SUBSET T
      PROVE  G[s] = IF s = {} THEN 0 ELSE f[First(s)] + G[s \ {First(s)}]
  <2>1. CASE s = {}
    BY <2>1
  <2>2. CASE s # {}
    <3>1. s \ {First(s)} \in SUBSET T /\ s \ {First(s)} # T
      BY <2>2, FirstIn
    <3>2. G[s \ {First(s)}] = v(s \ {First(s)})
      BY <1>2, <3>1
    <3>3. QED
      BY <2>2, <3>2
  <2>3. QED
    BY <2>1, <2>2
<1>4. Sums(G, f, T)
  BY <1>3 DEF Sums
<1>5. QED
  BY <1>1, <1>4

(* The recursion for a sum. *)
LEMMA SumUnfolds ==
    ASSUME NEW f, NEW D, IsFiniteSet(D)
    PROVE  SumFunctionOnSet(f, D) =
             IF D = {} THEN 0
             ELSE f[First(D)] + SumFunctionOnSet(f, D \ {First(D)})
<1> DEFINE c == CHOOSE g : Sums(g, f, D)
<1>1. Sums(c, f, D) /\ SumFunctionOnSet(f, D) = c[D]
  BY SumsExist, SumIsChosen
<1>2. CASE D = {}
  BY <1>1, <1>2 DEF Sums
<1>3. CASE D # {}
  <2> DEFINE r == D \ {First(D)}
             e == CHOOSE g : Sums(g, f, r)
  <2>1. r \in SUBSET D /\ IsFiniteSet(r)
    BY FS_Subset
  <2>2. Sums(e, f, r) /\ SumFunctionOnSet(f, r) = e[r]
    BY <2>1, SumsExist, SumIsChosen
  <2>3. c[r] = e[r]
    <3>1. r \in SUBSET (D \cap r)
      BY <2>1
    <3>2. QED
      BY <1>1, <2>2, <3>1, SumsAgree
  <2>4. c[D] = f[First(D)] + c[r]
    BY <1>1, <1>3 DEF Sums
  <2>5. QED
    BY <1>1, <1>3, <2>2, <2>3, <2>4
<1>4. QED
  BY <1>2, <1>3

LEMMA SumType ==
    ASSUME NEW D, IsFiniteSet(D), NEW f, \A x \in D : f[x] \in Int
    PROVE  SumFunctionOnSet(f, D) \in Int
<1> DEFINE B == {s \in SUBSET D : SumFunctionOnSet(f, s) \notin Int}
<1> SUFFICES ASSUME B # {} PROVE FALSE
  OBVIOUS
<1>1. PICK T \in B : IsFiniteSet(T) /\ \A U \in B : U \subseteq T => U = T
  <2>1. B \in SUBSET (SUBSET D)
    OBVIOUS
  <2> HIDE DEF B
  <2>2. QED
    BY <2>1, SmallestSubset
<1>2. T # {}
  <2>1. SumFunctionOnSet(f, {}) = 0
    BY FS_EmptySet, SumUnfolds
  <2>2. QED
    BY <2>1
<1>3. First(T) \in T /\ T \ {First(T)} \notin B
  BY <1>1, <1>2, FirstIn
<1>4. SumFunctionOnSet(f, T \ {First(T)}) \in Int /\ f[First(T)] \in Int
  BY <1>3
<1>5. SumFunctionOnSet(f, T) = f[First(T)] + SumFunctionOnSet(f, T \ {First(T)})
  BY <1>1, <1>2, SumUnfolds
<1>6. QED
  BY <1>4, <1>5

(* Any element may be taken first. *)
LEMMA SumWithout ==
    ASSUME NEW D, IsFiniteSet(D), NEW f, \A x \in D : f[x] \in Int, NEW x \in D
    PROVE  SumFunctionOnSet(f, D) = f[x] + SumFunctionOnSet(f, D \ {x})
<1> DEFINE S(s) == SumFunctionOnSet(f, s)
           B == {s \in SUBSET D : \E y \in s : S(s) # f[y] + S(s \ {y})}
<1> SUFFICES ASSUME B # {} PROVE FALSE
  OBVIOUS
<1>1. PICK T \in B : IsFiniteSet(T) /\ \A U \in B : U \subseteq T => U = T
  <2>1. B \in SUBSET (SUBSET D)
    OBVIOUS
  <2> HIDE DEF B
  <2>2. QED
    BY <2>1, SmallestSubset
<1>2. PICK y \in T : S(T) # f[y] + S(T \ {y})
  BY <1>1
<1> DEFINE c == First(T)
<1>3. c \in T /\ S(T) = f[c] + S(T \ {c})
  BY <1>1, <1>2, FirstIn, SumUnfolds
<1>4. c # y
  BY <1>2, <1>3
<1>5. T \ {c} \notin B /\ T \ {y} \notin B /\ T \ {c} \in SUBSET D /\ T \ {y} \in SUBSET D
  BY <1>1, <1>2, <1>3
<1>6. S(T \ {c}) = f[y] + S((T \ {c}) \ {y})
  BY <1>2, <1>4, <1>5
<1>7. S(T \ {y}) = f[c] + S((T \ {y}) \ {c})
  BY <1>3, <1>4, <1>5
<1>8. S((T \ {y}) \ {c}) = S((T \ {c}) \ {y})
  <2>1. (T \ {y}) \ {c} = (T \ {c}) \ {y}
    OBVIOUS
  <2>2. QED
    BY <2>1
<1>9. S((T \ {c}) \ {y}) \in Int
  <2>1. (T \ {c}) \ {y} \in SUBSET D
    OBVIOUS
  <2>2. IsFiniteSet((T \ {c}) \ {y}) /\ \A z \in (T \ {c}) \ {y} : f[z] \in Int
    BY <2>1, FS_Subset
  <2>3. QED
    BY <2>2, SumType
<1>10. f[c] \in Int /\ f[y] \in Int
  BY <1>2, <1>3
<1> HIDE DEF S, c
<1>11. QED
  BY <1>2, <1>3, <1>6, <1>7, <1>8, <1>9, <1>10

LEMMA SumEmpty == ASSUME NEW f PROVE SumFunctionOnSet(f, {}) = 0
BY FS_EmptySet, SumUnfolds

(* A sum over two sets that are apart. *)
LEMMA SumUnion ==
    ASSUME NEW D, IsFiniteSet(D), NEW E, IsFiniteSet(E), D \cap E = {},
           NEW f, \A x \in D \cup E : f[x] \in Int
    PROVE  SumFunctionOnSet(f, D \cup E) = SumFunctionOnSet(f, D) + SumFunctionOnSet(f, E)
<1> DEFINE S(s) == SumFunctionOnSet(f, s)
           B == {s \in SUBSET D : S(s \cup E) # S(s) + S(E)}
<1> SUFFICES ASSUME B # {} PROVE FALSE
  OBVIOUS
<1>0. S(E) \in Int
  BY SumType
<1>1. PICK T \in B : IsFiniteSet(T) /\ \A U \in B : U \subseteq T => U = T
  <2>1. B \in SUBSET (SUBSET D)
    OBVIOUS
  <2> HIDE DEF B
  <2>2. QED
    BY <2>1, SmallestSubset
<1>2. T # {}
  <2>1. {} \cup E = E /\ S({}) = 0
    BY SumEmpty
  <2>2. S({} \cup E) = S({}) + S(E)
    <3>1. S({} \cup E) = S(E)
      BY <2>1
    <3> HIDE DEF S
    <3>2. QED
      BY <1>0, <2>1, <3>1
  <2>3. QED
    BY <2>2
<1>3. PICK x \in T : TRUE
  BY <1>2
<1> DEFINE r == T \ {x}
<1>4. r \in SUBSET D /\ r \notin B /\ IsFiniteSet(r)
  BY <1>1, FS_Subset
<1>5. S(r \cup E) = S(r) + S(E)
  BY <1>4
<1>6. S(r) \in Int
  BY <1>4, SumType
<1>7. S(T) = f[x] + S(r)
  BY <1>1, SumWithout
<1>8. S(T \cup E) = f[x] + S(r \cup E)
  <2>1. IsFiniteSet(T \cup E)
    BY <1>1, FS_Union
  <2>2. (T \cup E) \ {x} = r \cup E
    OBVIOUS
  <2>3. S(T \cup E) = f[x] + S((T \cup E) \ {x})
    BY <2>1, SumWithout
  <2>4. QED
    BY <2>2, <2>3
<1>9. f[x] \in Int
  OBVIOUS
<1>10. S(T \cup E) # S(T) + S(E)
  OBVIOUS
<1> HIDE DEF S, r
<1>11. QED
  BY <1>0, <1>5, <1>6, <1>7, <1>8, <1>9, <1>10

(* A row of a table. *)
LEMMA SumRow ==
    ASSUME NEW D, IsFiniteSet(D), NEW f, NEW q, \A p \in {q} \X D : f[p] \in Int
    PROVE  SumFunctionOnSet(f, {q} \X D) = SumFunctionOnSet([d \in D |-> f[<<q, d>>]], D)
<1> DEFINE h == [d \in D |-> f[<<q, d>>]]
<1>a. \A d \in D : h[d] \in Int /\ f[<<q, d>>] = h[d]
  OBVIOUS
<1> HIDE DEF h
<1> SUFFICES SumFunctionOnSet(f, {q} \X D) = SumFunctionOnSet(h, D)
  BY DEF h
<1> DEFINE B == {s \in SUBSET D : SumFunctionOnSet(f, {q} \X s) # SumFunctionOnSet(h, s)}
<1> SUFFICES ASSUME B # {} PROVE FALSE
  OBVIOUS
<1>1. PICK T \in B : IsFiniteSet(T) /\ \A U \in B : U \subseteq T => U = T
  <2>1. B \in SUBSET (SUBSET D)
    OBVIOUS
  <2> HIDE DEF B
  <2>2. QED
    BY <2>1, SmallestSubset
<1>2. T # {}
  <2>1. {q} \X {} = {}
    OBVIOUS
  <2>2. QED
    BY <2>1, SumEmpty
<1>3. PICK d \in T : TRUE
  BY <1>2
<1> DEFINE r == T \ {d}
<1>4. r \in SUBSET D /\ r \notin B /\ IsFiniteSet(r)
  BY <1>1, FS_Subset
<1>5. SumFunctionOnSet(f, {q} \X r) = SumFunctionOnSet(h, r)
  BY <1>4
<1>6. SumFunctionOnSet(h, T) = h[d] + SumFunctionOnSet(h, r)
  BY <1>1, <1>a, SumWithout
<1>7. SumFunctionOnSet(f, {q} \X T) = f[<<q, d>>] + SumFunctionOnSet(f, {q} \X r)
  <2>1. IsFiniteSet({q} \X T)
    BY <1>1, FS_Singleton, FS_Product
  <2>2. \A p \in {q} \X T : f[p] \in Int
    OBVIOUS
  <2>3. ({q} \X T) \ {<<q, d>>} = {q} \X r
    OBVIOUS
  <2>4. <<q, d>> \in {q} \X T
    OBVIOUS
  <2>5. SumFunctionOnSet(f, {q} \X T)
          = f[<<q, d>>] + SumFunctionOnSet(f, ({q} \X T) \ {<<q, d>>})
    BY <2>1, <2>2, <2>4, SumWithout
  <2>6. QED
    BY <2>3, <2>5
<1>8. f[<<q, d>>] = h[d]
  BY <1>a
<1>9. QED
  BY <1>8, <1>5, <1>6, <1>7

(* The sum of a table is the sum of the sums of its rows. *)
RowSums(Q, D, f, rows) ==
    /\ \A p \in Q \X D : f[p] \in Int
    /\ \A q \in Q : rows[q] = SumFunctionOnSet([d \in D |-> f[<<q, d>>]], D)

LEMMA SumTable ==
    ASSUME NEW Q, IsFiniteSet(Q), NEW D, IsFiniteSet(D), NEW f, NEW rows,
           RowSums(Q, D, f, rows)
    PROVE  SumFunctionOnSet(f, Q \X D) = SumFunctionOnSet(rows, Q)
<1> USE DEF RowSums
<1> DEFINE B == {s \in SUBSET Q : SumFunctionOnSet(f, s \X D) # SumFunctionOnSet(rows, s)}
<1> SUFFICES ASSUME B # {} PROVE FALSE
  OBVIOUS
<1>0. ASSUME NEW q \in Q
      PROVE  rows[q] \in Int /\ SumFunctionOnSet(f, {q} \X D) = rows[q]
  <2> DEFINE h == [d \in D |-> f[<<q, d>>]]
  <2>1. \A d \in D : h[d] \in Int
    OBVIOUS
  <2>2. rows[q] = SumFunctionOnSet(h, D)
    OBVIOUS
  <2>3. SumFunctionOnSet(f, {q} \X D) = SumFunctionOnSet(h, D)
    <3>1. \A p \in {q} \X D : f[p] \in Int
      OBVIOUS
    <3>2. QED
      BY <3>1, SumRow
  <2>4. SumFunctionOnSet(h, D) \in Int
    <3> HIDE DEF h
    <3>1. QED
      BY <2>1, SumType
  <2>5. QED
    BY <2>2, <2>3, <2>4
<1>1. PICK T \in B : IsFiniteSet(T) /\ \A U \in B : U \subseteq T => U = T
  <2>1. B \in SUBSET (SUBSET Q)
    OBVIOUS
  <2> HIDE DEF B
  <2>2. QED
    BY <2>1, SmallestSubset
<1>2. T # {}
  <2>1. {} \X D = {}
    OBVIOUS
  <2>2. QED
    BY <2>1, SumEmpty
<1>3. PICK q \in T : TRUE
  BY <1>2
<1> DEFINE r == T \ {q}
<1>4. r \in SUBSET Q /\ r \notin B /\ IsFiniteSet(r)
  BY <1>1, FS_Subset
<1>5. SumFunctionOnSet(f, r \X D) = SumFunctionOnSet(rows, r)
  BY <1>4
<1>6. SumFunctionOnSet(rows, T) = rows[q] + SumFunctionOnSet(rows, r)
  <2>1. \A x \in T : rows[x] \in Int
    BY <1>0
  <2>2. QED
    BY <1>1, <2>1, SumWithout
<1>7. SumFunctionOnSet(f, T \X D)
        = SumFunctionOnSet(f, {q} \X D) + SumFunctionOnSet(f, r \X D)
  <2>1. IsFiniteSet({q} \X D) /\ IsFiniteSet(r \X D)
    BY <1>4, FS_Singleton, FS_Product
  <2>2. ({q} \X D) \cap (r \X D) = {} /\ ({q} \X D) \cup (r \X D) = T \X D
    OBVIOUS
  <2>3. \A p \in ({q} \X D) \cup (r \X D) : f[p] \in Int
    OBVIOUS
  <2>4. SumFunctionOnSet(f, ({q} \X D) \cup (r \X D))
          = SumFunctionOnSet(f, {q} \X D) + SumFunctionOnSet(f, r \X D)
    BY <2>1, <2>2, <2>3, SumUnion
  <2>5. QED
    BY <2>2, <2>4
<1>8. QED
  BY <1>0, <1>5, <1>6, <1>7

-----------------------------------------------------------------------------
(* Searches on their way.                                                  *)

LEMMA QueriesFacts ==
    /\ Queries # {} /\ IsFiniteSet(Queries)
    /\ \A s \in Spellings : Normal[s] \in Queries
    /\ IsFiniteSet(Days) /\ 0 \in Days /\ Days \subseteq Nat
    /\ Idle \in [query : Queries, day : Days, zero : BOOLEAN]
<1>1. Queries \in SUBSET Spellings /\ Queries # {}
  BY AnalyticsAssumption DEF Queries
<1>2. IsFiniteSet(Queries)
  BY <1>1, AnalyticsAssumption, FS_Subset
<1>3. IsFiniteSet(Days) /\ 0 \in Days /\ Days \subseteq Nat
  BY AnalyticsAssumption, FS_Interval DEF Days
<1>4. (CHOOSE q \in Queries : TRUE) \in Queries
  BY <1>1
<1>5. QED
  BY <1>1, <1>2, <1>3, <1>4 DEF Queries, Idle

(* AnalyticsTypeOK in parts: time, searches, clicks.                        *)
TimeType == day \in Days /\ events \in 0..MaxEvents

SearchType ==
    /\ agg \in [Queries \X Days -> Rows \cup {NoRow}]
    /\ tx \in [Searchers -> {"none", "open", "broken"}]
    /\ lock \in [Queries \X Days -> Searchers \cup {Free}]
    /\ pending \in [Queries \X Days -> Rows]
    /\ spc \in [Searchers -> {"idle", "update", "create", "retry"}]
    /\ sarg \in [Searchers -> [query : Queries, day : Days, zero : BOOLEAN]]
    /\ asked \in [Queries \X Days -> 0..MaxEvents] /\ lost \in [Queries \X Days -> 0..MaxEvents]

ClickType ==
    /\ raw \in [Spellings \X Days -> 0..MaxEvents]
    /\ rolled \in [Spellings \X Days -> (1..MaxEvents) \cup {NoRow}]
    /\ rpc \in [Rollups -> {"idle", "write", "delete"}] /\ rday \in [Rollups -> Days]
    /\ rcount \in [Rollups -> [Spellings -> 0..MaxEvents]]
    /\ clicked \in [Spellings \X Days -> 0..MaxEvents]
    /\ purged \in [Spellings \X Days -> BOOLEAN]
    /\ spoilt \in [Spellings \X Days -> BOOLEAN]

LEMMA TypeParts == AnalyticsTypeOK <=> TimeType /\ SearchType /\ ClickType
BY DEF AnalyticsTypeOK, TimeType, SearchType, ClickType

Flight(q, d) == Cardinality(InFlight(q, d))

LEMMA FlightType ==
    ASSUME NEW q, NEW d
    PROVE  IsFiniteSet(InFlight(q, d)) /\ Flight(q, d) \in Nat
<1>1. InFlight(q, d) \in SUBSET Searchers
  BY DEF InFlight
<1>2. QED
  BY <1>1, AnalyticsAssumption, FS_Subset, FS_CardinalityType DEF Flight

(* A search that is asked is on its way.                                   *)
LEMMA FlightBegins ==
    ASSUME SearchType, NEW w \in Searchers, spc[w] = "idle",
           NEW arg, spc' = [spc EXCEPT ![w] = "update"], sarg' = [sarg EXCEPT ![w] = arg],
           NEW q, NEW d
    PROVE  Flight(q, d)' = Flight(q, d) + (IF <<arg.query, arg.day>> = <<q, d>> THEN 1 ELSE 0)
<1>1. w \notin InFlight(q, d)
  BY DEF InFlight
<1>2. InFlight(q, d)' = IF <<arg.query, arg.day>> = <<q, d>>
                        THEN InFlight(q, d) \cup {w} ELSE InFlight(q, d)
  BY DEF InFlight, Key, SearchType
<1> DEFINE mine == <<arg.query, arg.day>> = <<q, d>>
<1>3. Flight(q, d)' = Cardinality(InFlight(q, d)')
  BY DEF Flight
<1>4. IsFiniteSet(InFlight(q, d)) /\ Flight(q, d) \in Nat
  BY FlightType
<1>5. CASE mine
  <2>1. Cardinality(InFlight(q, d) \cup {w}) = Cardinality(InFlight(q, d)) + 1
    BY <1>1, <1>4, FS_AddElement
  <2>2. QED
    BY <1>2, <1>3, <1>5, <2>1 DEF Flight
<1>6. CASE ~mine
  BY <1>2, <1>3, <1>4, <1>6 DEF Flight
<1>7. QED
  BY <1>5, <1>6

(* One that is counted or lost is not.                                     *)
LEMMA FlightEnds ==
    ASSUME SearchType, NEW w \in Searchers, spc[w] # "idle",
           NEW arg, spc' = [spc EXCEPT ![w] = "idle"], sarg' = [sarg EXCEPT ![w] = arg],
           NEW q, NEW d
    PROVE  /\ Flight(q, d)' = Flight(q, d) - (IF Key(w) = <<q, d>> THEN 1 ELSE 0)
           /\ Key(w) = <<q, d>> => Flight(q, d) > 0
<1>1. w \in InFlight(q, d) <=> Key(w) = <<q, d>>
  BY DEF InFlight
<1>2. InFlight(q, d)' = InFlight(q, d) \ {w}
  BY DEF InFlight, Key, SearchType
<1>3. Key(w) = <<q, d>> => Flight(q, d) # 0
  BY <1>1, FlightType, FS_EmptySet DEF Flight
<1>4. Flight(q, d)' = Cardinality(InFlight(q, d) \ {w}) /\ Flight(q, d) \in Nat
  BY <1>2, FlightType DEF Flight
<1>5. Cardinality(InFlight(q, d) \ {w})
        = IF w \in InFlight(q, d) THEN Flight(q, d) - 1 ELSE Flight(q, d)
  BY FlightType, FS_RemoveElement DEF Flight
<1>6. QED
  BY <1>1, <1>3, <1>4, <1>5

LEMMA FlightGoesOn ==
    ASSUME SearchType, NEW w \in Searchers, spc[w] # "idle", NEW stage, stage # "idle",
           spc' = [spc EXCEPT ![w] = stage], UNCHANGED sarg, NEW q, NEW d
    PROVE  Flight(q, d)' = Flight(q, d)
<1>1. InFlight(q, d)' = InFlight(q, d)
  BY DEF InFlight, Key, SearchType
<1>2. QED
  BY <1>1 DEF Flight

LEMMA FlightStays ==
    ASSUME UNCHANGED <<spc, sarg>>, NEW q, NEW d
    PROVE  Flight(q, d)' = Flight(q, d)
BY DEF Flight, InFlight, Key

(* What the counters of one query and day say, of what was asked.          *)
Exact(q, d) ==
    /\ Row(<<q, d>>).n + pending[<<q, d>>].n + lost[<<q, d>>] + Flight(q, d) = asked[<<q, d>>]
    /\ Row(<<q, d>>).z <= Row(<<q, d>>).n
    /\ pending[<<q, d>>].z <= pending[<<q, d>>].n
    /\ asked[<<q, d>>] <= events

SearchInv ==
    /\ TimeType /\ SearchType
    /\ \A q \in Queries, d \in Days : Exact(q, d)

LEMMA RowType ==
    ASSUME SearchType, NEW q \in Queries, NEW d \in Days
    PROVE  /\ Row(<<q, d>>) \in Rows /\ Row(<<q, d>>).n \in Nat /\ Row(<<q, d>>).z \in Nat
           /\ pending[<<q, d>>] \in Rows /\ pending[<<q, d>>].n \in Nat /\ pending[<<q, d>>].z \in Nat
           /\ agg[<<q, d>>] # NoRow => Row(<<q, d>>) = agg[<<q, d>>]
           /\ agg[<<q, d>>] = NoRow => Row(<<q, d>>) = None
<1>1. None \in Rows
  BY AnalyticsAssumption DEF None, Rows
<1>2. agg[<<q, d>>] \in Rows \cup {NoRow} /\ pending[<<q, d>>] \in Rows
  BY DEF SearchType
<1>3. Row(<<q, d>>) \in Rows
  BY <1>1, <1>2 DEF Row
<1>4. \A r \in Rows : r.n \in Nat /\ r.z \in Nat
  BY DEF Rows
<1>5. QED
  BY <1>2, <1>3, <1>4 DEF Row

(* A search is added to a row whose count can grow.                        *)
LEMMA PlusType ==
    ASSUME NEW row \in Rows, NEW zero \in BOOLEAN, row.n < MaxEvents, row.z <= row.n
    PROVE  /\ Plus(row, zero) \in Rows /\ Plus(row, zero) # NoRow
           /\ Plus(row, zero).n = row.n + 1 /\ Plus(row, zero).z <= row.n + 1
<1>1. row.n \in Nat /\ row.z \in Nat /\ row.n + 1 \in 0..MaxEvents
  BY AnalyticsAssumption DEF Rows
<1>2. row.z + (IF zero THEN 1 ELSE 0) \in 0..MaxEvents
  BY <1>1, AnalyticsAssumption
<1>3. Plus(row, zero) \in Rows
  BY <1>1, <1>2 DEF Plus, Rows
<1>4. QED
  BY <1>1, <1>3, AnalyticsAssumption DEF Plus

-----------------------------------------------------------------------------
(* The steps of a search keep SearchInv.                                   *)

LEMMA TimeFacts ==
    ASSUME TimeType
    PROVE  day \in Nat /\ events \in Nat /\ MaxEvents \in Nat /\ events <= MaxEvents
BY QueriesFacts, AnalyticsAssumption DEF TimeType

(* Somebody's key is a query and a day, whose row has room for the search.  *)
LEMMA KeyFacts ==
    ASSUME SearchInv, NEW w \in Searchers, spc[w] # "idle",
           NEW q, NEW d, q = sarg[w].query, d = sarg[w].day
    PROVE  /\ q \in Queries /\ d \in Days /\ Key(w) = <<q, d>> /\ sarg[w].zero \in BOOLEAN
           /\ Row(<<q, d>>).n < MaxEvents /\ lost[<<q, d>>] < MaxEvents
           /\ pending[<<q, d>>].n < MaxEvents
<1>1. q \in Queries /\ d \in Days /\ Key(w) = <<q, d>> /\ sarg[w].zero \in BOOLEAN
  BY DEF SearchInv, SearchType, Key
<1>2. w \in InFlight(q, d)
  BY <1>1 DEF InFlight
<1>3. Flight(q, d) \in Nat /\ Flight(q, d) # 0
  BY <1>2, FlightType, FS_EmptySet DEF Flight
<1>4. /\ Row(<<q, d>>).n \in Nat /\ pending[<<q, d>>].n \in Nat
      /\ lost[<<q, d>>] \in Nat /\ asked[<<q, d>>] \in Nat
  BY <1>1, RowType DEF SearchInv, SearchType
<1>5. Exact(q, d) /\ events \in Nat /\ events <= MaxEvents /\ MaxEvents \in Nat
  BY <1>1, TimeFacts DEF SearchInv
<1>6. Row(<<q, d>>).n + pending[<<q, d>>].n + lost[<<q, d>>] + Flight(q, d) <= events
  BY <1>5 DEF Exact
<1>7. PICK n, k, l, f \in Nat :
        n = Row(<<q, d>>).n /\ k = pending[<<q, d>>].n /\ l = lost[<<q, d>>] /\ f = Flight(q, d)
  BY <1>3, <1>4
<1>8. n + k + l + f <= events /\ f # 0
  BY <1>3, <1>6, <1>7
<1>9. n < MaxEvents /\ l < MaxEvents /\ k < MaxEvents
  BY <1>5, <1>8
<1>10. QED
  BY <1>1, <1>7, <1>9

LEMMA LogStep ==
    ASSUME SearchInv, NEW w \in Searchers, NEW s \in Spellings, NEW zero \in BOOLEAN,
           Log(w, s, zero)
    PROVE  SearchInv'
<1> DEFINE arg == [query |-> Normal[s], day |-> day, zero |-> zero]
<1> PICK one \in {0, 1} : one = IF Mode = "individual" THEN 0 ELSE 1
  OBVIOUS
<1> PICK key : key = <<Normal[s], day>>
  OBVIOUS
<1>1. /\ spc[w] = "idle" /\ events < MaxEvents /\ events' = events + 1
      /\ UNCHANGED <<day, agg, lock, pending>>
      /\ asked' = [asked EXCEPT ![key] = @ + one]
  BY DEF Log
<1>2. \/ /\ one = 1 /\ spc' = [spc EXCEPT ![w] = "update"] /\ sarg' = [sarg EXCEPT ![w] = arg]
         /\ UNCHANGED <<tx, lost>>
      \/ one = 0 /\ UNCHANGED <<spc, sarg, tx, lost>>
      \/ /\ tx' = [tx EXCEPT ![w] = IF @ = "none" THEN @ ELSE "broken"]
         /\ lost' = [lost EXCEPT ![key] = @ + one] /\ UNCHANGED <<spc, sarg>>
  BY DEF Log, Breaks
<1>3. TimeType /\ SearchType /\ Normal[s] \in Queries /\ day \in Days /\ key \in Queries \X Days
  BY QueriesFacts DEF SearchInv, TimeType
<1>4. events \in Nat /\ MaxEvents \in Nat
  BY <1>3, TimeFacts
<1>5. TimeType'
  BY <1>1, <1>3, <1>4 DEF TimeType, Days
<1>6. ASSUME NEW q, NEW d, spc' = [spc EXCEPT ![w] = "update"], sarg' = [sarg EXCEPT ![w] = arg]
      PROVE  Flight(q, d)' = Flight(q, d) + (IF key = <<q, d>> THEN 1 ELSE 0)
  <2>1. arg.query = Normal[s] /\ arg.day = day
    OBVIOUS
  <2>2. PICK a : a = arg
    OBVIOUS
  <2> HIDE DEF arg
  <2>3. sarg' = [sarg EXCEPT ![w] = a] /\ key = <<a.query, a.day>>
    BY <1>6, <2>1, <2>2
  <2>4. Flight(q, d)' = Flight(q, d) + (IF <<a.query, a.day>> = <<q, d>> THEN 1 ELSE 0)
    BY <1>1, <1>3, <1>6, <2>3, FlightBegins
  <2>5. QED
    BY <2>3, <2>4
<1>7. ASSUME NEW q \in Queries, NEW d \in Days
      PROVE  /\ Exact(q, d) /\ asked[<<q, d>>] \in Nat /\ lost[<<q, d>>] \in Nat
             /\ Flight(q, d) \in Nat /\ Row(<<q, d>>).n \in Nat /\ pending[<<q, d>>].n \in Nat
  <2>1. Exact(q, d)
    BY DEF SearchInv
  <2>2. asked[<<q, d>>] \in Nat /\ lost[<<q, d>>] \in Nat
    BY <1>3, <1>4 DEF SearchType
  <2>3. Flight(q, d) \in Nat
    BY FlightType
  <2>4. Row(<<q, d>>).n \in Nat /\ pending[<<q, d>>].n \in Nat
    BY <1>3, RowType
  <2>5. QED
    BY <2>1, <2>2, <2>3, <2>4
<1>8. SearchType'
  <2>1. asked[key] + one \in 0..MaxEvents /\ lost[key] + one \in 0..MaxEvents
    <3>1. PICK q \in Queries, d \in Days : key = <<q, d>>
      BY <1>3
    <3>2. Exact(q, d) /\ asked[key] \in Nat /\ lost[key] \in Nat /\ lost[key] <= asked[key]
      BY <1>7, <3>1 DEF Exact
    <3>3. asked[key] <= events
      BY <3>1, <3>2 DEF Exact
    <3>4. QED
      BY <1>1, <1>4, <3>2, <3>3
  <2>2. asked' \in [Queries \X Days -> 0..MaxEvents]
    BY <1>1, <1>3, <2>1 DEF SearchType
  <2>3. arg \in [query : Queries, day : Days, zero : BOOLEAN]
    BY <1>3
  <2> HIDE DEF arg
  <2>4. lost' \in [Queries \X Days -> 0..MaxEvents]
    BY <1>2, <1>3, <2>1 DEF SearchType
  <2>5. tx' \in [Searchers -> {"none", "open", "broken"}]
    BY <1>2, <1>3 DEF SearchType
  <2>6. spc' \in [Searchers -> {"idle", "update", "create", "retry"}]
    BY <1>2, <1>3 DEF SearchType
  <2>7. sarg' \in [Searchers -> [query : Queries, day : Days, zero : BOOLEAN]]
    BY <1>2, <1>3, <2>3 DEF SearchType
  <2>8. /\ agg' = agg /\ lock' = lock /\ pending' = pending
        /\ Days' = Days /\ Queries' = Queries
    BY <1>1 DEF Days, Queries
  <2>9. QED
    BY <1>3, <2>2, <2>4, <2>5, <2>6, <2>7, <2>8 DEF SearchType
<1>9. ASSUME NEW q \in Queries, NEW d \in Days PROVE Exact(q, d)'
  <2> PICK mine \in {0, 1} : mine = IF key = <<q, d>> THEN one ELSE 0
    OBVIOUS
  <2>1. Row(<<q, d>>)' = Row(<<q, d>>) /\ pending'[<<q, d>>] = pending[<<q, d>>]
    BY <1>1 DEF Row
  <2>2. asked'[<<q, d>>] = asked[<<q, d>>] + mine
    <3>1. CASE key = <<q, d>>
      BY <1>1, <1>3, <3>1 DEF SearchType
    <3>2. CASE key # <<q, d>>
      <4>1. asked'[<<q, d>>] = asked[<<q, d>>]
        BY <1>1, <1>3, <3>2 DEF SearchType
      <4>2. QED
        BY <1>7, <3>2, <4>1
    <3>3. QED
      BY <3>1, <3>2
  <2>3. (lost'[<<q, d>>] + Flight(q, d)') = (lost[<<q, d>>] + Flight(q, d)) + mine
    <3>1. CASE /\ one = 1 /\ spc' = [spc EXCEPT ![w] = "update"]
               /\ sarg' = [sarg EXCEPT ![w] = arg] /\ UNCHANGED <<tx, lost>>
      <4>1. Flight(q, d)' = Flight(q, d) + mine
        BY <1>6, <3>1
      <4>2. QED
        BY <1>7, <3>1, <4>1
    <3>2. CASE one = 0 /\ UNCHANGED <<spc, sarg, tx, lost>>
      <4>1. Flight(q, d)' = Flight(q, d)
        BY <3>2, FlightStays
      <4>2. QED
        BY <1>7, <3>2, <4>1
    <3>3. CASE lost' = [lost EXCEPT ![key] = @ + one] /\ UNCHANGED <<spc, sarg>>
      <4>1. Flight(q, d)' = Flight(q, d)
        BY <3>3, FlightStays
      <4>2. lost'[<<q, d>>] = lost[<<q, d>>] + mine
        <5>1. CASE key = <<q, d>>
          BY <1>3, <3>3, <5>1 DEF SearchType
        <5>2. CASE key # <<q, d>>
          <6>1. lost'[<<q, d>>] = lost[<<q, d>>]
            BY <1>3, <3>3, <5>2 DEF SearchType
          <6>2. QED
            BY <1>7, <5>2, <6>1
        <5>3. QED
          BY <5>1, <5>2
      <4>3. QED
        BY <1>7, <4>1, <4>2
    <3> HIDE DEF arg
    <3>4. QED
      BY <1>2, <3>1, <3>2, <3>3
  <2>4. /\ lost'[<<q, d>>] \in Nat /\ Flight(q, d)' \in Nat
    <3>1. lost'[<<q, d>>] \in Nat
      BY <1>4, <1>8 DEF SearchType, Days, Queries
    <3>2. InFlight(q, d)' \in SUBSET Searchers
      BY DEF InFlight
    <3>3. Flight(q, d)' \in Nat
      BY <3>2, AnalyticsAssumption, FS_Subset, FS_CardinalityType DEF Flight
    <3>4. QED
      BY <3>1, <3>3
  <2>5. PICK n, k, l, f, a, l2, f2 \in Nat :
          /\ n = Row(<<q, d>>).n /\ k = pending[<<q, d>>].n /\ l = lost[<<q, d>>]
          /\ f = Flight(q, d) /\ a = asked[<<q, d>>] /\ l2 = lost'[<<q, d>>] /\ f2 = Flight(q, d)'
    BY <1>7, <2>4
  <2>6. n + k + l + f = a /\ l2 + f2 = (l + f) + mine /\ a <= events
    BY <1>7, <2>3, <2>5 DEF Exact
  <2>7. n + k + l2 + f2 = a + mine /\ a + mine <= events + 1
    BY <1>4, <2>6
  <2>8. QED
    BY <1>1, <1>7, <2>1, <2>2, <2>5, <2>7 DEF Exact
<1>10. Days' = Days /\ Queries' = Queries
  BY DEF Days, Queries
<1>11. QED
  BY <1>5, <1>8, <1>9, <1>10 DEF SearchInv

(* A search ends in its row.                                               *)
LEMMA RowGrows ==
    ASSUME SearchInv, NEW w \in Searchers, spc[w] # "idle",
           NEW q, NEW d, q = sarg[w].query, d = sarg[w].day,
           agg' = [agg EXCEPT ![<<q, d>>] = Plus(Row(<<q, d>>), sarg[w].zero)],
           spc' = [spc EXCEPT ![w] = "idle"], sarg' = [sarg EXCEPT ![w] = Idle],
           UNCHANGED <<day, events, tx, lock, pending, asked, lost>>
    PROVE  SearchInv'
<1> DEFINE row == Plus(Row(<<q, d>>), sarg[w].zero)
<1>1. /\ q \in Queries /\ d \in Days /\ Key(w) = <<q, d>> /\ sarg[w].zero \in BOOLEAN
      /\ Row(<<q, d>>).n < MaxEvents /\ TimeType /\ SearchType
  BY KeyFacts DEF SearchInv
<1>2. Row(<<q, d>>) \in Rows /\ Row(<<q, d>>).n \in Nat /\ Row(<<q, d>>).z <= Row(<<q, d>>).n
  BY <1>1, RowType DEF SearchInv, Exact
<1>3. row \in Rows /\ row # NoRow /\ row.n = Row(<<q, d>>).n + 1 /\ row.z <= Row(<<q, d>>).n + 1
  BY <1>1, <1>2, PlusType
<1> HIDE DEF row
<1>4. agg' = [agg EXCEPT ![<<q, d>>] = row] /\ Days' = Days /\ Queries' = Queries
  BY DEF row, Days, Queries
<1>5. SearchType'
  BY <1>1, <1>3, <1>4, QueriesFacts DEF SearchType
<1>6. ASSUME NEW a \in Queries, NEW b \in Days PROVE Exact(a, b)'
  <2>1. Flight(a, b)' = Flight(a, b) - (IF <<q, d>> = <<a, b>> THEN 1 ELSE 0)
    BY <1>1, FlightEnds
  <2>2. Row(<<a, b>>)' = IF <<q, d>> = <<a, b>> THEN row ELSE Row(<<a, b>>)
    <3>1. agg'[<<a, b>>] = IF <<q, d>> = <<a, b>> THEN row ELSE agg[<<a, b>>]
      BY <1>1, <1>4 DEF SearchType
    <3>2. QED
      BY <1>3, <3>1 DEF Row
  <2>3. Exact(a, b) /\ pending'[<<a, b>>] = pending[<<a, b>>]
        /\ lost'[<<a, b>>] = lost[<<a, b>>] /\ asked'[<<a, b>>] = asked[<<a, b>>] /\ events' = events
    BY DEF SearchInv
  <2>4. /\ Flight(a, b) \in Nat /\ Row(<<a, b>>).n \in Nat /\ Row(<<a, b>>).z \in Nat
        /\ lost[<<a, b>>] \in Nat /\ pending[<<a, b>>].n \in Nat
    BY <1>1, FlightType, RowType DEF SearchType
  <2>5. CASE <<q, d>> = <<a, b>>
    BY <1>2, <1>3, <2>1, <2>2, <2>3, <2>4, <2>5 DEF Exact
  <2>6. CASE <<q, d>> # <<a, b>>
    BY <2>1, <2>2, <2>3, <2>4, <2>6 DEF Exact
  <2>7. QED
    BY <2>5, <2>6
<1>7. QED
  BY <1>1, <1>4, <1>5, <1>6 DEF SearchInv, TimeType

(* Or in what its transaction will add to the row.                         *)
LEMMA PendingGrows ==
    ASSUME SearchInv, NEW w \in Searchers, spc[w] # "idle",
           NEW q, NEW d, q = sarg[w].query, d = sarg[w].day,
           pending' = [pending EXCEPT ![<<q, d>>] = Plus(@, sarg[w].zero)],
           lock' = [lock EXCEPT ![<<q, d>>] = w],
           spc' = [spc EXCEPT ![w] = "idle"], sarg' = [sarg EXCEPT ![w] = Idle],
           UNCHANGED <<day, events, tx, agg, asked, lost>>
    PROVE  SearchInv'
<1> DEFINE row == Plus(pending[<<q, d>>], sarg[w].zero)
<1>1. /\ q \in Queries /\ d \in Days /\ Key(w) = <<q, d>> /\ sarg[w].zero \in BOOLEAN
      /\ pending[<<q, d>>].n < MaxEvents /\ TimeType /\ SearchType
  BY KeyFacts DEF SearchInv
<1>2. /\ pending[<<q, d>>] \in Rows /\ pending[<<q, d>>].n \in Nat
      /\ pending[<<q, d>>].z <= pending[<<q, d>>].n
  BY <1>1, RowType DEF SearchInv, Exact
<1>3. row \in Rows /\ row.n = pending[<<q, d>>].n + 1 /\ row.z <= pending[<<q, d>>].n + 1
  BY <1>1, <1>2, PlusType
<1> HIDE DEF row
<1>4. pending' = [pending EXCEPT ![<<q, d>>] = row] /\ Days' = Days /\ Queries' = Queries
  BY <1>1 DEF row, Days, Queries, SearchType
<1>5. SearchType'
  BY <1>1, <1>3, <1>4, QueriesFacts DEF SearchType
<1>6. ASSUME NEW a \in Queries, NEW b \in Days PROVE Exact(a, b)'
  <2>1. Flight(a, b)' = Flight(a, b) - (IF <<q, d>> = <<a, b>> THEN 1 ELSE 0)
    BY <1>1, FlightEnds
  <2>2. pending'[<<a, b>>] = IF <<q, d>> = <<a, b>> THEN row ELSE pending[<<a, b>>]
    BY <1>1, <1>4 DEF SearchType
  <2>3. Exact(a, b) /\ Row(<<a, b>>)' = Row(<<a, b>>)
        /\ lost'[<<a, b>>] = lost[<<a, b>>] /\ asked'[<<a, b>>] = asked[<<a, b>>] /\ events' = events
    BY DEF SearchInv, Row
  <2>4. /\ Flight(a, b) \in Nat /\ Row(<<a, b>>).n \in Nat /\ Row(<<a, b>>).z \in Nat
        /\ lost[<<a, b>>] \in Nat /\ pending[<<a, b>>].n \in Nat
    BY <1>1, FlightType, RowType DEF SearchType
  <2>5. CASE <<q, d>> = <<a, b>>
    BY <1>2, <1>3, <2>1, <2>2, <2>3, <2>4, <2>5 DEF Exact
  <2>6. CASE <<q, d>> # <<a, b>>
    BY <2>1, <2>2, <2>3, <2>4, <2>6 DEF Exact
  <2>7. QED
    BY <2>5, <2>6
<1>7. QED
  BY <1>1, <1>4, <1>5, <1>6 DEF SearchInv, TimeType

LEMMA CountedStep ==
    ASSUME SearchInv, NEW w \in Searchers, spc[w] # "idle", Counted(w)
    PROVE  SearchInv'
<1> PICK q, d : q = sarg[w].query /\ d = sarg[w].day
  OBVIOUS
<1>1. Key(w) = <<q, d>>
  BY KeyFacts
<1>2. /\ spc' = [spc EXCEPT ![w] = "idle"] /\ sarg' = [sarg EXCEPT ![w] = Idle]
      /\ UNCHANGED <<day, events, tx, asked, lost>>
  BY DEF Counted, Idles
<1>3. CASE tx[w] = "none"
  <2>1. /\ agg' = [agg EXCEPT ![<<q, d>>] = Plus(Row(<<q, d>>), sarg[w].zero)]
        /\ UNCHANGED <<lock, pending>>
    BY <1>1, <1>3 DEF Counted
  <2>2. QED
    BY <1>2, <2>1, RowGrows
<1>4. CASE tx[w] # "none"
  <2>1. /\ lock' = [lock EXCEPT ![<<q, d>>] = w]
        /\ pending' = [pending EXCEPT ![<<q, d>>] = Plus(@, sarg[w].zero)]
        /\ UNCHANGED agg
    BY <1>1, <1>4 DEF Counted
  <2>2. QED
    BY <1>2, <2>1, PendingGrows
<1>5. QED
  BY <1>3, <1>4

LEMMA LostStep ==
    ASSUME SearchInv, NEW w \in Searchers, spc[w] # "idle", Lost(w)
    PROVE  SearchInv'
<1> DEFINE q == sarg[w].query
           d == sarg[w].day
<1>1. /\ q \in Queries /\ d \in Days /\ Key(w) = <<q, d>>
      /\ lost[<<q, d>>] < MaxEvents /\ TimeType /\ SearchType
  BY KeyFacts DEF SearchInv
<1> HIDE DEF q, d
<1>2. /\ lost' = [lost EXCEPT ![<<q, d>>] = @ + 1]
      /\ spc' = [spc EXCEPT ![w] = "idle"] /\ sarg' = [sarg EXCEPT ![w] = Idle]
      /\ tx' = [tx EXCEPT ![w] = IF @ = "none" THEN @ ELSE "broken"]
      /\ UNCHANGED <<day, events, agg, lock, pending, asked>> /\ Days' = Days /\ Queries' = Queries
  BY <1>1 DEF Lost, Idles, Breaks, Days, Queries
<1>3. SearchType'
  <2>1. lost[<<q, d>>] + 1 \in 0..MaxEvents
    BY <1>1, TimeFacts DEF SearchType
  <2>2. tx' \in [Searchers -> {"none", "open", "broken"}]
    BY <1>1, <1>2 DEF SearchType
  <2>3. lost' \in [Queries \X Days -> 0..MaxEvents]
    BY <1>1, <1>2, <2>1 DEF SearchType
  <2>4. QED
    BY <1>1, <1>2, <2>2, <2>3, QueriesFacts DEF SearchType
<1>4. ASSUME NEW a \in Queries, NEW b \in Days PROVE Exact(a, b)'
  <2>1. Flight(a, b)' = Flight(a, b) - (IF <<q, d>> = <<a, b>> THEN 1 ELSE 0)
    BY <1>1, <1>2, FlightEnds
  <2>2. lost'[<<a, b>>] = lost[<<a, b>>] + (IF <<q, d>> = <<a, b>> THEN 1 ELSE 0)
    <3>1. CASE <<q, d>> = <<a, b>>
      BY <1>1, <1>2, <3>1 DEF SearchType
    <3>2. CASE <<q, d>> # <<a, b>>
      <4>1. lost'[<<a, b>>] = lost[<<a, b>>] /\ lost[<<a, b>>] \in Nat
        BY <1>1, <1>2, <3>2 DEF SearchType
      <4>2. QED
        BY <3>2, <4>1
    <3>3. QED
      BY <3>1, <3>2
  <2>3. Exact(a, b) /\ Row(<<a, b>>)' = Row(<<a, b>>) /\ pending'[<<a, b>>] = pending[<<a, b>>]
        /\ asked'[<<a, b>>] = asked[<<a, b>>] /\ events' = events
    BY <1>2 DEF SearchInv, Row
  <2>4. /\ Flight(a, b) \in Nat /\ Row(<<a, b>>).n \in Nat /\ Row(<<a, b>>).z \in Nat
        /\ lost[<<a, b>>] \in Nat /\ pending[<<a, b>>].n \in Nat
    BY <1>1, FlightType, RowType DEF SearchType
  <2>5. QED
    BY <2>1, <2>2, <2>3, <2>4 DEF Exact
<1>5. QED
  BY <1>1, <1>2, <1>3, <1>4 DEF SearchInv, TimeType

LEMMA GoesStep ==
    ASSUME SearchInv, NEW w \in Searchers, spc[w] # "idle",
           NEW stage \in {"create", "retry"}, Goes(w, stage)
    PROVE  SearchInv'
<1>1. /\ spc' = [spc EXCEPT ![w] = stage]
      /\ UNCHANGED <<day, events, agg, tx, lock, pending, sarg, asked, lost>>
      /\ Days' = Days /\ Queries' = Queries /\ TimeType /\ SearchType
  BY DEF Goes, Days, Queries, SearchInv
<1>2. SearchType'
  BY <1>1 DEF SearchType
<1>3. ASSUME NEW a \in Queries, NEW b \in Days PROVE Exact(a, b)'
  <2>1. Flight(a, b)' = Flight(a, b)
    BY <1>1, FlightGoesOn
  <2>2. Exact(a, b) /\ Row(<<a, b>>)' = Row(<<a, b>>) /\ UNCHANGED <<events, pending, asked, lost>>
    BY <1>1 DEF SearchInv, Row
  <2>3. QED
    BY <2>1, <2>2 DEF Exact
<1>4. QED
  BY <1>1, <1>2, <1>3 DEF SearchInv, TimeType

-----------------------------------------------------------------------------
(* Transactions.                                                           *)

LEMMA BeginStep ==
    ASSUME SearchInv, NEW w \in Searchers, Begin(w)
    PROVE  SearchInv'
<1>1. /\ tx' = [tx EXCEPT ![w] = "open"]
      /\ UNCHANGED <<day, events, agg, lock, pending, spc, sarg, asked, lost>>
      /\ Days' = Days /\ Queries' = Queries /\ TimeType /\ SearchType
  BY DEF Begin, Days, Queries, SearchInv
<1>2. SearchType'
  BY <1>1 DEF SearchType
<1>3. ASSUME NEW a \in Queries, NEW b \in Days PROVE Exact(a, b)'
  <2>1. Flight(a, b)' = Flight(a, b)
    BY <1>1, FlightStays
  <2>2. Exact(a, b) /\ Row(<<a, b>>)' = Row(<<a, b>>) /\ UNCHANGED <<events, pending, asked, lost>>
    BY <1>1 DEF SearchInv, Row
  <2>3. QED
    BY <2>1, <2>2 DEF Exact
<1>4. QED
  BY <1>1, <1>2, <1>3 DEF SearchInv, TimeType

(* What every end of a transaction does to its rows.                       *)
LEMMA ReleasedType ==
    ASSUME SearchType, NEW w \in Searchers, Released(w)
    PROVE  /\ tx' \in [Searchers -> {"none", "open", "broken"}]
           /\ lock' \in [Queries \X Days -> Searchers \cup {Free}]
           /\ pending' \in [Queries \X Days -> Rows]
           /\ \A p \in Queries \X Days :
                pending'[p] = IF p \in Held(w) THEN None ELSE pending[p]
<1>1. None \in Rows
  BY AnalyticsAssumption DEF None, Rows
<1>2. QED
  BY <1>1 DEF Released, SearchType

LEMMA CommitStep ==
    ASSUME SearchInv, NEW w \in Searchers, Commit(w)
    PROVE  SearchInv'
<1> DEFINE both(p) == [n |-> Row(p).n + pending[p].n, z |-> Row(p).z + pending[p].z]
<1>1. /\ agg' = [p \in Queries \X Days |-> IF p \in Held(w) THEN both(p) ELSE agg[p]]
      /\ Released(w) /\ UNCHANGED <<day, events, spc, sarg, asked, lost>>
      /\ Days' = Days /\ Queries' = Queries /\ TimeType /\ SearchType
  BY DEF Commit, Days, Queries, SearchInv
<1>2. ASSUME NEW q \in Queries, NEW d \in Days
      PROVE  /\ both(<<q, d>>) \in Rows /\ both(<<q, d>>) # NoRow
             /\ both(<<q, d>>).n = Row(<<q, d>>).n + pending[<<q, d>>].n
             /\ both(<<q, d>>).z <= both(<<q, d>>).n
  <2>0. /\ Row(<<q, d>>).n \in Nat /\ Row(<<q, d>>).z \in Nat
        /\ pending[<<q, d>>].n \in Nat /\ pending[<<q, d>>].z \in Nat
        /\ lost[<<q, d>>] \in Nat /\ Flight(q, d) \in Nat
    <3>1. lost[<<q, d>>] \in Nat
      BY <1>1, AnalyticsAssumption DEF SearchType
    <3>2. QED
      BY <1>1, <3>1, FlightType, RowType
  <2>1. PICK n, z, m, y, l, f \in Nat :
          /\ n = Row(<<q, d>>).n /\ z = Row(<<q, d>>).z /\ l = lost[<<q, d>>]
          /\ m = pending[<<q, d>>].n /\ y = pending[<<q, d>>].z /\ f = Flight(q, d)
    BY <2>0
  <2>2. n + m + l + f = asked[<<q, d>>] /\ z <= n /\ y <= m /\ asked[<<q, d>>] <= events
    BY <2>1 DEF SearchInv, Exact
  <2>3. events \in Nat /\ MaxEvents \in Nat /\ events <= MaxEvents
    BY <1>1, TimeFacts
  <2>4. n + m \in 0..MaxEvents /\ z + y \in 0..MaxEvents /\ z + y <= n + m
    BY <2>2, <2>3
  <2>5. both(<<q, d>>) = [n |-> n + m, z |-> z + y]
    BY <2>1
  <2> HIDE DEF both
  <2>6. both(<<q, d>>) \in Rows
    BY <2>4, <2>5 DEF Rows
  <2>7. QED
    BY <2>1, <2>4, <2>5, <2>6, AnalyticsAssumption
<1> HIDE DEF both
<1>3. SearchType'
  <2>1. agg' \in [Queries \X Days -> Rows \cup {NoRow}]
    BY <1>1, <1>2 DEF SearchType
  <2>2. /\ tx' \in [Searchers -> {"none", "open", "broken"}]
        /\ lock' \in [Queries \X Days -> Searchers \cup {Free}]
        /\ pending' \in [Queries \X Days -> Rows]
    BY <1>1, ReleasedType
  <2>3. QED
    BY <1>1, <2>1, <2>2 DEF SearchType
<1>4. ASSUME NEW q \in Queries, NEW d \in Days PROVE Exact(q, d)'
  <2>1. Flight(q, d)' = Flight(q, d)
    BY <1>1, FlightStays
  <2>2. Exact(q, d) /\ asked'[<<q, d>>] = asked[<<q, d>>] /\ events' = events
        /\ lost'[<<q, d>>] = lost[<<q, d>>]
    BY <1>1 DEF SearchInv
  <2>3. /\ Flight(q, d) \in Nat /\ Row(<<q, d>>).n \in Nat /\ Row(<<q, d>>).z \in Nat
        /\ lost[<<q, d>>] \in Nat /\ pending[<<q, d>>].n \in Nat
    BY <1>1, FlightType, RowType DEF SearchType
  <2>4. None.n = 0 /\ None.z = 0
    BY DEF None
  <2>5. pending'[<<q, d>>] = IF <<q, d>> \in Held(w) THEN None ELSE pending[<<q, d>>]
    BY <1>1, ReleasedType
  <2>6. Row(<<q, d>>)' = IF <<q, d>> \in Held(w) THEN both(<<q, d>>) ELSE Row(<<q, d>>)
    <3>1. agg'[<<q, d>>] = IF <<q, d>> \in Held(w) THEN both(<<q, d>>) ELSE agg[<<q, d>>]
      BY <1>1
    <3>2. QED
      BY <1>2, <3>1 DEF Row
  <2>7. CASE <<q, d>> \in Held(w)
    BY <1>2, <2>1, <2>2, <2>3, <2>4, <2>5, <2>6, <2>7 DEF Exact
  <2>8. CASE <<q, d>> \notin Held(w)
    BY <2>1, <2>2, <2>5, <2>6, <2>8 DEF Exact
  <2>9. QED
    BY <2>7, <2>8
<1>5. QED
  BY <1>1, <1>3, <1>4 DEF SearchInv, TimeType

LEMMA RollbackStep ==
    ASSUME SearchInv, NEW w \in Searchers, Rollback(w)
    PROVE  SearchInv'
<1>1. /\ lost' = [p \in Queries \X Days |-> lost[p] + (IF p \in Held(w) THEN pending[p].n ELSE 0)]
      /\ Released(w) /\ UNCHANGED <<day, events, agg, spc, sarg, asked>>
      /\ Days' = Days /\ Queries' = Queries /\ TimeType /\ SearchType
  BY DEF Rollback, Days, Queries, SearchInv
<1>2. ASSUME NEW q \in Queries, NEW d \in Days
      PROVE  /\ lost'[<<q, d>>] \in 0..MaxEvents /\ Exact(q, d)'
  <2>1. Flight(q, d)' = Flight(q, d)
    BY <1>1, FlightStays
  <2>0. /\ Row(<<q, d>>).n \in Nat /\ pending[<<q, d>>].n \in Nat /\ Flight(q, d) \in Nat
        /\ lost[<<q, d>>] \in Nat /\ asked[<<q, d>>] \in Nat
    <3>1. lost[<<q, d>>] \in Nat /\ asked[<<q, d>>] \in Nat
      BY <1>1, AnalyticsAssumption DEF SearchType
    <3>2. QED
      BY <1>1, <3>1, FlightType, RowType
  <2>2. PICK n, m, l, f, a \in Nat :
          /\ n = Row(<<q, d>>).n /\ l = lost[<<q, d>>] /\ m = pending[<<q, d>>].n
          /\ f = Flight(q, d) /\ a = asked[<<q, d>>]
    BY <2>0
  <2>3. /\ n + m + l + f = a /\ a <= events
        /\ Row(<<q, d>>).z <= n /\ pending[<<q, d>>].z <= m
    BY <2>2 DEF SearchInv, Exact
  <2>4. events \in Nat /\ MaxEvents \in Nat /\ events <= MaxEvents
    BY <1>1, TimeFacts
  <2>5. None.n = 0 /\ None.z = 0
    BY DEF None
  <2>6. /\ pending'[<<q, d>>] = IF <<q, d>> \in Held(w) THEN None ELSE pending[<<q, d>>]
        /\ lost'[<<q, d>>] = l + (IF <<q, d>> \in Held(w) THEN m ELSE 0)
        /\ Row(<<q, d>>)' = Row(<<q, d>>) /\ events' = events /\ asked'[<<q, d>>] = a
    BY <1>1, <2>2, ReleasedType DEF Row
  <2>7. CASE <<q, d>> \in Held(w)
    BY <2>1, <2>2, <2>3, <2>4, <2>5, <2>6, <2>7 DEF Exact
  <2>8. CASE <<q, d>> \notin Held(w)
    BY <2>1, <2>2, <2>3, <2>4, <2>6, <2>8 DEF Exact
  <2>9. QED
    BY <2>7, <2>8
<1>3. SearchType'
  <2>1. lost' \in [Queries \X Days -> 0..MaxEvents]
    <3>1. \A p \in Queries \X Days : lost'[p] \in 0..MaxEvents
      BY <1>2
    <3>2. DOMAIN lost' = Queries \X Days /\ lost' = [p \in DOMAIN lost' |-> lost'[p]]
      BY <1>1
    <3>3. QED
      BY <3>1, <3>2
  <2>2. /\ tx' \in [Searchers -> {"none", "open", "broken"}]
        /\ lock' \in [Queries \X Days -> Searchers \cup {Free}]
        /\ pending' \in [Queries \X Days -> Rows]
    BY <1>1, ReleasedType
  <2>3. QED
    BY <1>1, <2>1, <2>2 DEF SearchType
<1>4. QED
  BY <1>1, <1>2, <1>3 DEF SearchInv, TimeType

(* A cleared row takes its searches with it.                               *)
LEMMA ClearAggregatesStep ==
    ASSUME SearchInv, NEW keep \in Days, ClearAggregates(keep)
    PROVE  SearchInv'
<1> DEFINE old == {p \in Queries \X Days : p[2] < day - keep /\ agg[p] # NoRow}
<1>1. /\ agg' = [p \in Queries \X Days |-> IF p \in old THEN NoRow ELSE agg[p]]
      /\ lost' = [p \in Queries \X Days |-> lost[p] + (IF p \in old THEN agg[p].n ELSE 0)]
      /\ UNCHANGED <<day, events, tx, lock, pending, spc, sarg, asked>>
      /\ Days' = Days /\ Queries' = Queries /\ TimeType /\ SearchType
  BY DEF ClearAggregates, Days, Queries, SearchInv
<1>2. \A p \in old : p \in Queries \X Days /\ agg[p] # NoRow
  OBVIOUS
<1> HIDE DEF old
<1>3. ASSUME NEW q \in Queries, NEW d \in Days
      PROVE  /\ Row(<<q, d>>)' = IF <<q, d>> \in old THEN None ELSE Row(<<q, d>>)
             /\ lost'[<<q, d>>] = lost[<<q, d>>]
                                  + (IF <<q, d>> \in old THEN Row(<<q, d>>).n ELSE 0)
             /\ lost'[<<q, d>>] \in 0..MaxEvents
  <2>1. agg'[<<q, d>>] = IF <<q, d>> \in old THEN NoRow ELSE agg[<<q, d>>]
    BY <1>1
  <2>2. <<q, d>> \in old => agg[<<q, d>>] = Row(<<q, d>>)
    BY <1>2 DEF Row
  <2>3. lost'[<<q, d>>] = lost[<<q, d>>] + (IF <<q, d>> \in old THEN agg[<<q, d>>].n ELSE 0)
    BY <1>1
  <2>4. /\ Flight(q, d) \in Nat /\ Row(<<q, d>>).n \in Nat /\ lost[<<q, d>>] \in Nat
        /\ pending[<<q, d>>].n \in Nat
        /\ asked[<<q, d>>] \in 0..MaxEvents /\ MaxEvents \in Nat
    BY <1>1, FlightType, RowType, AnalyticsAssumption DEF SearchType
  <2>5. lost[<<q, d>>] + Row(<<q, d>>).n <= asked[<<q, d>>] /\ lost[<<q, d>>] <= asked[<<q, d>>]
    BY <2>4 DEF SearchInv, Exact
  <2>6. Row(<<q, d>>)' = IF <<q, d>> \in old THEN None ELSE Row(<<q, d>>)
    BY <2>1 DEF Row
  <2>7. lost'[<<q, d>>] = lost[<<q, d>>] + (IF <<q, d>> \in old THEN Row(<<q, d>>).n ELSE 0)
    BY <2>2, <2>3
  <2>8. QED
    BY <2>4, <2>5, <2>6, <2>7
<1>4. SearchType'
  <2>1. lost' \in [Queries \X Days -> 0..MaxEvents]
    <3>1. \A p \in Queries \X Days : lost'[p] \in 0..MaxEvents
      BY <1>3
    <3>2. DOMAIN lost' = Queries \X Days /\ lost' = [p \in DOMAIN lost' |-> lost'[p]]
      BY <1>1
    <3>3. QED
      BY <3>1, <3>2
  <2>2. agg' \in [Queries \X Days -> Rows \cup {NoRow}]
    BY <1>1 DEF SearchType
  <2>3. QED
    BY <1>1, <2>1, <2>2 DEF SearchType
<1>5. ASSUME NEW q \in Queries, NEW d \in Days PROVE Exact(q, d)'
  <2>1. Flight(q, d)' = Flight(q, d)
    BY <1>1, FlightStays
  <2>2. Exact(q, d) /\ asked'[<<q, d>>] = asked[<<q, d>>] /\ events' = events
        /\ pending'[<<q, d>>] = pending[<<q, d>>]
    BY <1>1 DEF SearchInv
  <2>3. /\ Flight(q, d) \in Nat /\ Row(<<q, d>>).n \in Nat /\ Row(<<q, d>>).z \in Nat
        /\ lost[<<q, d>>] \in Nat /\ pending[<<q, d>>].n \in Nat
    BY <1>1, FlightType, RowType DEF SearchType
  <2>4. None.n = 0 /\ None.z = 0
    BY DEF None
  <2>5. QED
    BY <1>3, <2>1, <2>2, <2>3, <2>4 DEF Exact
<1>6. QED
  BY <1>1, <1>4, <1>5 DEF SearchInv, TimeType

(* Clicks, and a new day, leave the counters of searches alone.             *)
LEMMA SearchesStay ==
    ASSUME SearchInv, UNCHANGED searchVars, TimeType', events' >= events
    PROVE  SearchInv'
<1>1. /\ UNCHANGED <<tx, lock, pending, spc, sarg, asked, agg, lost>>
      /\ Days' = Days /\ Queries' = Queries /\ SearchType /\ TimeType
  BY DEF searchVars, Days, Queries, SearchInv
<1>2. SearchType'
  BY <1>1 DEF SearchType
<1>3. events \in Nat /\ events' \in Nat
  BY <1>1, TimeFacts DEF TimeType
<1>4. ASSUME NEW q \in Queries, NEW d \in Days PROVE Exact(q, d)'
  <2>1. Flight(q, d)' = Flight(q, d) /\ Row(<<q, d>>)' = Row(<<q, d>>) /\ asked[<<q, d>>] \in Nat
    BY <1>1, FlightStays DEF Row, SearchType
  <2>2. Exact(q, d)
    BY DEF SearchInv
  <2>3. QED
    BY <1>1, <1>3, <2>1, <2>2 DEF Exact
<1>5. QED
  BY <1>1, <1>2, <1>4 DEF SearchInv

-----------------------------------------------------------------------------
(* Clicks.  Rows that nobody deleted are all there; what a run of the      *)
(* command has counted were clicks.                                        *)

Rolled(p) == IF rolled[p] = NoRow THEN 0 ELSE rolled[p]

Kept(p) ==
    /\ ~purged[p] => raw[p] = clicked[p]
    /\ raw[p] <= clicked[p] /\ clicked[p] <= events
    /\ spoilt[p] \/ (Rolled(p) <= clicked[p] /\ clicked[p] <= Rolled(p) + raw[p])

ClickInv ==
    /\ TimeType /\ ClickType
    /\ \A p \in Spellings \X Days : Kept(p)
    /\ \A r \in Rollups, s \in Spellings : rcount[r][s] <= clicked[<<s, rday[r]>>]

LEMMA KeptTypes ==
    ASSUME ClickType, NEW p \in Spellings \X Days
    PROVE  /\ raw[p] \in 0..MaxEvents /\ clicked[p] \in 0..MaxEvents /\ Rolled(p) \in 0..MaxEvents
           /\ raw[p] \in Nat /\ clicked[p] \in Nat /\ Rolled(p) \in Nat
           /\ purged[p] \in BOOLEAN /\ spoilt[p] \in BOOLEAN
           /\ rolled[p] # NoRow => Rolled(p) = rolled[p]
BY AnalyticsAssumption DEF ClickType, Rolled

LEMMA ClickStep ==
    ASSUME ClickInv, NEW s \in Spellings, NEW d \in Days, Click(s, d)
    PROVE  ClickInv'
<1> DEFINE P == Spellings \X Days
           x == <<s, d>>
<1>1. /\ events < MaxEvents /\ events' = events + 1
      /\ raw' = [raw EXCEPT ![x] = @ + 1] /\ clicked' = [clicked EXCEPT ![x] = @ + 1]
      /\ UNCHANGED <<day, rolled, rpc, rday, rcount, purged, spoilt>> /\ Days' = Days
      /\ TimeType /\ ClickType /\ x \in P
  BY DEF Click, Days, ClickInv
<1>2. events \in Nat /\ MaxEvents \in Nat /\ TimeType'
  <2>1. events \in Nat /\ MaxEvents \in Nat
    BY <1>1, TimeFacts
  <2>2. QED
    BY <1>1, <2>1 DEF TimeType
<1> HIDE DEF x
<1>3. ASSUME NEW p \in P
      PROVE  /\ raw'[p] = raw[p] + (IF p = x THEN 1 ELSE 0)
             /\ clicked'[p] = clicked[p] + (IF p = x THEN 1 ELSE 0)
  <2>1. raw[p] \in Nat /\ clicked[p] \in Nat
    BY <1>1, KeptTypes
  <2>2. CASE p = x
    BY <1>1, <2>2 DEF ClickType
  <2>3. CASE p # x
    BY <1>1, <2>1, <2>3 DEF ClickType
  <2>4. QED
    BY <2>2, <2>3
<1>4. ClickType'
  <2>1. raw[x] + 1 \in 0..MaxEvents /\ clicked[x] + 1 \in 0..MaxEvents
    <3>1. Kept(x) /\ raw[x] \in Nat /\ clicked[x] \in Nat
      BY <1>1, KeptTypes DEF ClickInv
    <3>2. QED
      BY <1>1, <1>2, <3>1 DEF Kept
  <2>2. QED
    BY <1>1, <2>1 DEF ClickType
<1>5. ASSUME NEW p \in P PROVE Kept(p)'
  <2>1. Kept(p) /\ UNCHANGED <<rolled, purged, spoilt>> /\ Rolled(p)' = Rolled(p)
    BY <1>1 DEF ClickInv, Rolled
  <2>2. raw[p] \in Nat /\ clicked[p] \in Nat /\ Rolled(p) \in Nat
    BY <1>1, KeptTypes
  <2>3. QED
    BY <1>1, <1>2, <1>3, <2>1, <2>2 DEF Kept
<1>6. ASSUME NEW r \in Rollups, NEW z \in Spellings
      PROVE  rcount'[r][z] <= clicked'[<<z, rday'[r]>>]
  <2> DEFINE y == <<z, rday[r]>>
  <2>1. y \in P /\ rcount[r][z] \in Nat
    BY <1>1, AnalyticsAssumption DEF ClickType
  <2>2. rcount[r][z] <= clicked[y]
    BY DEF ClickInv
  <2>3. clicked[y] \in Nat /\ clicked'[y] >= clicked[y]
    BY <1>1, <1>3, <2>1, KeptTypes
  <2>4. clicked'[y] \in Nat
    <3>1. clicked' \in [P -> 0..MaxEvents]
      BY <1>1, <1>4 DEF ClickType
    <3>2. QED
      BY <2>1, <3>1
  <2> HIDE DEF y
  <2>5. rcount'[r][z] <= clicked'[y]
    BY <1>1, <2>1, <2>2, <2>3, <2>4
  <2>6. QED
    BY <1>1, <2>5 DEF y
<1>7. QED
  BY <1>1, <1>2, <1>4, <1>5, <1>6 DEF ClickInv

(* A run that rests, or takes its counts from the rows.                    *)
LEMMA CountStep ==
    ASSUME ClickInv, NEW r \in Rollups, NEW d \in Days, Count(r, d)
    PROVE  ClickInv'
<1>1. /\ rday' = [rday EXCEPT ![r] = d] /\ rpc' = [rpc EXCEPT ![r] = "write"]
      /\ rcount' = [rcount EXCEPT ![r] = [s \in Spellings |-> raw[<<s, d>>]]]
      /\ UNCHANGED <<day, events, raw, rolled, clicked, purged, spoilt>> /\ Days' = Days
      /\ TimeType /\ ClickType
  BY DEF Count, Days, ClickInv
<1>2. [s \in Spellings |-> raw[<<s, d>>]] \in [Spellings -> 0..MaxEvents]
  BY <1>1 DEF ClickType
<1>3. ClickType'
  BY <1>1, <1>2 DEF ClickType
<1>4. ASSUME NEW p \in Spellings \X Days PROVE Kept(p)'
  BY <1>1 DEF ClickInv, Kept, Rolled
<1>5. ASSUME NEW z \in Rollups, NEW s \in Spellings
      PROVE  rcount'[z][s] <= clicked'[<<s, rday'[z]>>]
  <2>1. CASE z = r
    <3>1. rday'[z] = d /\ rcount'[z][s] = raw[<<s, d>>]
      BY <1>1, <2>1 DEF ClickType
    <3>2. Kept(<<s, d>>)
      BY DEF ClickInv
    <3>3. QED
      BY <1>1, <3>1, <3>2 DEF Kept
  <2>2. CASE z # r
    <3>1. rday'[z] = rday[z] /\ rcount'[z] = rcount[z]
      BY <1>1, <2>2 DEF ClickType
    <3>2. QED
      BY <1>1, <3>1 DEF ClickInv
  <2>3. QED
    BY <2>1, <2>2
<1>6. QED
  BY <1>1, <1>3, <1>4, <1>5 DEF ClickInv, TimeType

(* The group that is written has rows that nobody deleted, or is spoilt.    *)
LEMMA WriteStep ==
    ASSUME ClickInv, NEW r \in Rollups, NEW s \in Spellings, Write(r, s)
    PROVE  ClickInv'
<1> DEFINE P == Spellings \X Days
           x == <<s, rday[r]>>
           c == rcount[r][s]
<1>1. /\ c > 0 /\ rolled' = [rolled EXCEPT ![x] = c]
      /\ spoilt' = [spoilt EXCEPT ![x] = @ \/ purged[x]]
      /\ rcount' = [rcount EXCEPT ![r][s] = 0]
      /\ UNCHANGED <<day, events, raw, rpc, rday, clicked, purged>> /\ Days' = Days
      /\ TimeType /\ ClickType
  BY DEF Write, Replaced, Days, ClickInv
<1>2. /\ x \in P /\ c \in 1..MaxEvents /\ c # NoRow /\ MaxEvents \in Nat
      /\ purged[x] \in BOOLEAN /\ spoilt[x] \in BOOLEAN
  BY <1>1, AnalyticsAssumption DEF ClickType
<1>3. c <= clicked[x]
  BY DEF ClickInv
<1> HIDE DEF c, x
<1>4. ClickType'
  <2>1. rolled' \in [P -> (1..MaxEvents) \cup {NoRow}]
    BY <1>1, <1>2 DEF ClickType
  <2>2. spoilt' \in [P -> BOOLEAN]
    BY <1>1, <1>2, Zenon DEF ClickType
  <2>3. rcount' \in [Rollups -> [Spellings -> 0..MaxEvents]]
    BY <1>1, <1>2 DEF ClickType
  <2>4. QED
    BY <1>1, <2>1, <2>2, <2>3 DEF ClickType
<1>5. ASSUME NEW p \in P PROVE Kept(p)'
  <2>1. Kept(p) /\ UNCHANGED <<raw, clicked, purged, events>>
    BY <1>1 DEF ClickInv
  <2>2. raw[p] \in Nat /\ clicked[p] \in Nat /\ Rolled(p) \in Nat
    BY <1>1, KeptTypes
  <2>3. CASE p = x
    <3>1. Rolled(p)' = c
      BY <1>1, <1>2, <2>3 DEF Rolled, ClickType
    <3>2. spoilt'[p] = (spoilt[p] \/ purged[p])
      BY <1>1, <2>3 DEF ClickType
    <3>3. QED
      BY <1>2, <1>3, <2>1, <2>2, <2>3, <3>1, <3>2 DEF Kept
  <2>4. CASE p # x
    <3>1. Rolled(p)' = Rolled(p) /\ spoilt'[p] = spoilt[p]
      BY <1>1, <2>4 DEF Rolled, ClickType
    <3>2. QED
      BY <2>1, <3>1 DEF Kept
  <2>5. QED
    BY <2>3, <2>4
<1>6. ASSUME NEW z \in Rollups, NEW t \in Spellings
      PROVE  rcount'[z][t] <= clicked'[<<t, rday'[z]>>]
  <2>1. rcount'[z][t] = 0 \/ rcount'[z][t] = rcount[z][t]
    BY <1>1 DEF ClickType
  <2>2. clicked[<<t, rday[z]>>] \in Nat
    <3>1. <<t, rday[z]>> \in P
      BY <1>1 DEF ClickType
    <3>2. QED
      BY <1>1, <3>1, KeptTypes
  <2>3. QED
    BY <1>1, <2>1, <2>2 DEF ClickInv
<1>7. QED
  BY <1>1, <1>4, <1>5, <1>6 DEF ClickInv, TimeType

LEMMA RestedType ==
    ASSUME ClickInv, NEW r \in Rollups, Rested(r), UNCHANGED clicked
    PROVE  /\ rpc' \in [Rollups -> {"idle", "write", "delete"}] /\ rday' \in [Rollups -> Days]
           /\ rcount' \in [Rollups -> [Spellings -> 0..MaxEvents]]
           /\ \A z \in Rollups, s \in Spellings : rcount'[z][s] <= clicked'[<<s, rday'[z]>>]
<1>1. ClickType /\ 0 \in Days /\ 0 \in 0..MaxEvents
  BY QueriesFacts, AnalyticsAssumption DEF ClickInv
<1>2. /\ rpc' \in [Rollups -> {"idle", "write", "delete"}] /\ rday' \in [Rollups -> Days]
      /\ rcount' \in [Rollups -> [Spellings -> 0..MaxEvents]]
  BY <1>1 DEF Rested, ClickType
<1>3. ASSUME NEW z \in Rollups, NEW s \in Spellings
      PROVE  rcount'[z][s] <= clicked'[<<s, rday'[z]>>]
  <2>1. CASE z = r
    <3>1. rcount'[z][s] = 0 /\ rday'[z] = 0
      BY <1>1, <2>1 DEF Rested, ClickType
    <3>2. clicked[<<s, 0>>] \in Nat
      BY <1>1, KeptTypes
    <3>3. QED
      BY <3>1, <3>2
  <2>2. CASE z # r
    <3>1. rday'[z] = rday[z] /\ rcount'[z] = rcount[z]
      BY <1>1, <2>2 DEF Rested, ClickType
    <3>2. QED
      BY <3>1 DEF ClickInv
  <2>3. QED
    BY <2>1, <2>2
<1>4. QED
  BY <1>2, <1>3

LEMMA FinishStep ==
    ASSUME ClickInv, NEW r \in Rollups, Finish(r)
    PROVE  ClickInv'
<1>1. /\ UNCHANGED <<day, events, raw, rolled, clicked, purged, spoilt>> /\ Days' = Days
      /\ Rested(r) /\ TimeType /\ ClickType
  BY DEF Finish, Days, ClickInv
<1>2. ClickType'
  BY <1>1, RestedType DEF ClickType
<1>3. ASSUME NEW p \in Spellings \X Days PROVE Kept(p)'
  BY <1>1 DEF ClickInv, Kept, Rolled
<1>4. QED
  BY <1>1, <1>2, <1>3, RestedType DEF ClickInv, TimeType

(* Deleting the rows of a day leaves its count, or spoils it.               *)
LEMMA DeleteRawStep ==
    ASSUME ClickInv, NEW r \in Rollups, DeleteRaw(r)
    PROVE  ClickInv'
<1> DEFINE P == Spellings \X Days
           gone == {p \in Spellings \X {rday[r]} : raw[p] > 0}
<1>1. /\ raw' = [p \in P |-> IF p \in gone THEN 0 ELSE raw[p]]
      /\ purged' = [p \in P |-> purged[p] \/ p \in gone]
      /\ spoilt' = [p \in P |-> spoilt[p] \/ (p \in gone /\ (purged[p] \/ rolled[p] = NoRow
                                                             \/ raw[p] > rolled[p]))]
      /\ UNCHANGED <<day, events, rolled, clicked>> /\ Days' = Days
      /\ Rested(r) /\ TimeType /\ ClickType
  BY DEF DeleteRaw, Days, ClickInv
<1> HIDE DEF gone
<1>2. ASSUME NEW p \in P
      PROVE  /\ raw'[p] = IF p \in gone THEN 0 ELSE raw[p]
             /\ purged'[p] = (purged[p] \/ p \in gone)
             /\ spoilt'[p] = (spoilt[p] \/ (p \in gone /\ (purged[p] \/ rolled[p] = NoRow
                                                           \/ raw[p] > rolled[p])))
  BY <1>1
<1>3. ClickType'
  <2>1. raw' \in [P -> 0..MaxEvents]
    BY <1>1, AnalyticsAssumption DEF ClickType
  <2>2. purged' \in [P -> BOOLEAN]
    BY <1>1, Zenon
  <2>3. spoilt' \in [P -> BOOLEAN]
    BY <1>1, Zenon
  <2>4. QED
    BY <1>1, <2>1, <2>2, <2>3, RestedType DEF ClickType
<1>4. ASSUME NEW p \in P PROVE Kept(p)'
  <2>1. Kept(p) /\ UNCHANGED <<clicked, events>> /\ Rolled(p)' = Rolled(p)
    BY <1>1 DEF ClickInv, Rolled
  <2>2. /\ raw[p] \in Nat /\ clicked[p] \in Nat /\ Rolled(p) \in Nat
        /\ rolled[p] # NoRow => Rolled(p) = rolled[p]
    BY <1>1, KeptTypes
  <2>3. CASE p \in gone
    <3>1. raw'[p] = 0 /\ purged'[p]
      BY <1>2, <2>3
    <3>2. spoilt'[p] \/ (~spoilt[p] /\ ~purged[p] /\ rolled[p] # NoRow /\ ~ (raw[p] > rolled[p]))
      BY <1>2, <2>3
    <3>3. QED
      BY <2>1, <2>2, <3>1, <3>2 DEF Kept
  <2>4. CASE p \notin gone
    <3>1. raw'[p] = raw[p] /\ purged'[p] = purged[p] /\ spoilt'[p] = spoilt[p]
      <4>1. raw'[p] = raw[p]
        BY <1>2, <2>4
      <4>2. purged'[p] = (purged[p] \/ FALSE) /\ spoilt'[p] = (spoilt[p] \/ FALSE)
        BY <1>2, <2>4
      <4>3. purged[p] \in BOOLEAN /\ spoilt[p] \in BOOLEAN
        BY <1>1, KeptTypes
      <4>4. QED
        BY <4>1, <4>2, <4>3
    <3>2. QED
      BY <2>1, <3>1 DEF Kept
  <2>5. QED
    BY <2>3, <2>4
<1>5. QED
  BY <1>1, <1>3, <1>4, RestedType DEF ClickInv, TimeType

(* Searches, and a new day, leave the clicks alone.                        *)
LEMMA ClicksStay ==
    ASSUME ClickInv, UNCHANGED clickVars, TimeType', events' >= events
    PROVE  ClickInv'
<1>1. /\ UNCHANGED <<raw, rolled, rpc, rday, rcount, clicked, purged, spoilt>> /\ Days' = Days
      /\ TimeType /\ ClickType
  BY DEF clickVars, Days, ClickInv
<1>2. ClickType'
  BY <1>1 DEF ClickType
<1>3. ASSUME NEW p \in Spellings \X Days PROVE Kept(p)'
  <2>1. Kept(p) /\ Rolled(p)' = Rolled(p) /\ clicked[p] \in Nat
    BY <1>1, KeptTypes DEF ClickInv, Rolled
  <2>2. events \in Nat /\ events' \in Nat
    BY <1>1, TimeFacts DEF TimeType
  <2>3. QED
    BY <1>1, <2>1, <2>2 DEF Kept
<1>4. QED
  BY <1>1, <1>2, <1>3 DEF ClickInv

-----------------------------------------------------------------------------
(* The counters together.                                                  *)

LEMMA AnalyticsInitInv ==
    ASSUME AnalyticsInit PROVE SearchInv /\ ClickInv
<1>1. /\ MaxEvents \in Nat /\ 0 \in 0..MaxEvents /\ TimeType
      /\ Idle \in [query : Queries, day : Days, zero : BOOLEAN]
  BY AnalyticsAssumption, QueriesFacts DEF AnalyticsInit, TimeType
<1>2. SearchType
  <2>1. None \in Rows
    BY <1>1 DEF None, Rows
  <2>2. QED
    BY <1>1, <2>1 DEF AnalyticsInit, SearchType
<1>3. ClickType
  BY <1>1, QueriesFacts DEF AnalyticsInit, ClickType
<1>4. ASSUME NEW q \in Queries, NEW d \in Days PROVE Exact(q, d)
  <2>1. InFlight(q, d) = {}
    BY DEF InFlight, AnalyticsInit
  <2>2. Flight(q, d) = 0
    BY <2>1, FS_EmptySet DEF Flight
  <2>3. /\ Row(<<q, d>>) = None /\ pending[<<q, d>>] = None
        /\ lost[<<q, d>>] = 0 /\ asked[<<q, d>>] = 0 /\ events = 0
    BY DEF Row, AnalyticsInit
  <2>4. QED
    BY <2>2, <2>3 DEF Exact, None
<1>5. ASSUME NEW p \in Spellings \X Days PROVE Kept(p)
  <2>1. raw[p] = 0 /\ clicked[p] = 0 /\ events = 0 /\ Rolled(p) = 0
    BY DEF AnalyticsInit, Rolled
  <2>2. QED
    BY <2>1 DEF Kept
<1>6. \A r \in Rollups, s \in Spellings : rcount[r][s] <= clicked[<<s, rday[r]>>]
  BY QueriesFacts DEF AnalyticsInit
<1>7. QED
  BY <1>1, <1>2, <1>3, <1>4, <1>5, <1>6 DEF SearchInv, ClickInv

LEMMA SameTime ==
    ASSUME TimeType, UNCHANGED <<day, events>>
    PROVE  TimeType' /\ events' >= events
BY TimeFacts DEF TimeType, Days

LEMMA AnalyticsLogStep ==
    ASSUME SearchInv, ClickInv, NEW w \in Searchers, NEW s \in Spellings, NEW zero \in BOOLEAN,
           Log(w, s, zero)
    PROVE  SearchInv' /\ ClickInv'
<1>1. SearchInv'
  BY LogStep
<1>2. UNCHANGED clickVars /\ TimeType' /\ events' >= events
  BY <1>1, TimeFacts DEF Log, SearchInv
<1>3. QED
  BY <1>1, <1>2, ClicksStay

LEMMA AnalyticsStep ==
    ASSUME SearchInv, ClickInv, AnalyticsNext
    PROVE  SearchInv' /\ ClickInv'
<1>0. TimeType
  BY DEF SearchInv
<1>1. ASSUME NEW w \in Searchers,
             \/ Update(w) \/ Create(w) \/ Retry(w) \/ Fail(w)
             \/ Begin(w) \/ Commit(w) \/ Rollback(w)
      PROVE  SearchInv' /\ ClickInv'
  <2>1. CASE Update(w) \/ Create(w) \/ Retry(w) \/ Fail(w)
    <3>1. /\ spc[w] # "idle"
          /\ \/ Counted(w) \/ Lost(w)
             \/ \E stage \in {"create", "retry"} : Goes(w, stage)
      BY <2>1 DEF Update, Create, Retry, Fail
    <3>2. SearchInv'
      BY <3>1, CountedStep, LostStep, GoesStep
    <3>3. UNCHANGED clickVars /\ UNCHANGED <<day, events>>
      BY <3>1 DEF Counted, Lost, Goes
    <3>4. QED
      BY <1>0, <3>2, <3>3, SameTime, ClicksStay
  <2>2. CASE Begin(w) \/ Commit(w) \/ Rollback(w)
    <3>1. SearchInv'
      BY <2>2, BeginStep, CommitStep, RollbackStep
    <3>2. UNCHANGED clickVars /\ UNCHANGED <<day, events>>
      BY <2>2 DEF Begin, Commit, Rollback
    <3>3. QED
      BY <1>0, <3>1, <3>2, SameTime, ClicksStay
  <2>3. QED
    BY <1>1, <2>1, <2>2
<1>2. ASSUME NEW keep \in Days, ClearAggregates(keep)
      PROVE  SearchInv' /\ ClickInv'
  <2>1. SearchInv'
    BY <1>2, ClearAggregatesStep
  <2>2. UNCHANGED clickVars /\ UNCHANGED <<day, events>>
    BY <1>2 DEF ClearAggregates
  <2>3. QED
    BY <1>0, <2>1, <2>2, SameTime, ClicksStay
<1>3. ASSUME NEW s \in Spellings, NEW d \in Days, Click(s, d)
      PROVE  SearchInv' /\ ClickInv'
  <2>1. ClickInv'
    BY <1>3, ClickStep
  <2>2. UNCHANGED searchVars /\ TimeType' /\ events' >= events
    BY <1>0, <1>3, <2>1, TimeFacts DEF Click, ClickInv
  <2>3. QED
    BY <2>1, <2>2, SearchesStay
<1>4. ASSUME NEW r \in Rollups,
             \/ DeleteRaw(r) \/ Finish(r)
             \/ \E d \in Days : Count(r, d)
             \/ \E s \in Spellings : Write(r, s)
      PROVE  SearchInv' /\ ClickInv'
  <2>1. ClickInv'
    BY <1>4, DeleteRawStep, FinishStep, CountStep, WriteStep
  <2>2. UNCHANGED searchVars /\ UNCHANGED <<day, events>>
    BY <1>4 DEF DeleteRaw, Finish, Count, Write
  <2>3. QED
    BY <1>0, <2>1, <2>2, SameTime, SearchesStay
<1>5. ASSUME Midnight PROVE SearchInv' /\ ClickInv'
  <2>1. UNCHANGED searchVars /\ UNCHANGED clickVars /\ events' = events
    BY <1>5 DEF Midnight
  <2>2. TimeType' /\ events' >= events
    BY <1>0, <1>5, TimeFacts, AnalyticsAssumption DEF Midnight, TimeType, Days
  <2>3. QED
    BY <2>1, <2>2, SearchesStay, ClicksStay
<1>6. QED
  BY <1>1, <1>2, <1>3, <1>4, <1>5 DEF AnalyticsNext

LEMMA AnalyticsStutter ==
    ASSUME SearchInv, ClickInv, UNCHANGED analyticsVars
    PROVE  SearchInv' /\ ClickInv'
<1>1. UNCHANGED searchVars /\ UNCHANGED clickVars /\ UNCHANGED <<day, events>> /\ TimeType
  BY DEF analyticsVars, SearchInv
<1>2. QED
  BY <1>1, SameTime, SearchesStay, ClicksStay

(* What the reports say follows from what each row says.                   *)
LEMMA Counting ==
    ASSUME SearchInv PROVE SearchesCounted
<1> SUFFICES ASSUME NEW days \in Days
             PROVE  /\ SumFunction([q \in Queries |-> Volume(q, days)])
                        = SumFunction([p \in Queries \X Window(days) |->
                            asked[p] - lost[p] - pending[p].n - Cardinality(InFlight(p[1], p[2]))])
                    /\ \A q \in Queries, d \in Window(days) : Row(<<q, d>>).z <= Row(<<q, d>>).n
  BY DEF SearchesCounted
<1> DEFINE W == Window(days)
           f == [p \in Queries \X W |->
                    asked[p] - lost[p] - pending[p].n - Cardinality(InFlight(p[1], p[2]))]
           rows == [q \in Queries |-> Volume(q, days)]
<1>1. W \in SUBSET Days /\ IsFiniteSet(W) /\ IsFiniteSet(Queries) /\ SearchType
  <2>1. W \in SUBSET Days
    BY DEF Window
  <2>2. QED
    BY <2>1, QueriesFacts, FS_Subset DEF SearchInv
<1> HIDE DEF W
<1>2. ASSUME NEW q \in Queries, NEW d \in W
      PROVE  /\ f[<<q, d>>] = Row(<<q, d>>).n /\ Row(<<q, d>>).n \in Int
             /\ Row(<<q, d>>).z <= Row(<<q, d>>).n
  <2>1. d \in Days
    BY <1>1
  <2>2. /\ Exact(q, d) /\ Flight(q, d) \in Nat /\ Row(<<q, d>>).n \in Nat
        /\ Row(<<q, d>>).z \in Nat /\ pending[<<q, d>>].n \in Nat
    BY <1>1, <2>1, FlightType, RowType DEF SearchInv
  <2>3. lost[<<q, d>>] \in Nat /\ asked[<<q, d>>] \in Nat
    BY <1>1, <2>1 DEF SearchType
  <2>4. f[<<q, d>>] = asked[<<q, d>>] - lost[<<q, d>>] - pending[<<q, d>>].n - Flight(q, d)
    BY DEF Flight
  <2> HIDE DEF f
  <2>5. QED
    BY <2>2, <2>3, <2>4 DEF Exact
<1>3. ASSUME NEW q \in Queries
      PROVE  /\ rows[q] = SumFunctionOnSet([d \in W |-> f[<<q, d>>]], W)
             /\ rows[q] \in Int
  <2> DEFINE n == [d \in W |-> Row(<<q, d>>).n]
  <2>1. rows[q] = SumFunctionOnSet(n, W)
    BY DEF Volume, SumFunction, W
  <2>2. \A d \in W : n[d] \in Int
    BY <1>2
  <2>3. [d \in W |-> f[<<q, d>>]] = n
    <3> HIDE DEF f
    <3>1. QED
      BY <1>2
  <2> HIDE DEF n, f, rows
  <2>4. SumFunctionOnSet(n, W) \in Int
    BY <1>1, <2>2, SumType
  <2>5. QED
    BY <2>1, <2>3, <2>4
<1>4. \A p \in Queries \X W : f[p] \in Int
  <2> HIDE DEF f
  <2>1. QED
    BY <1>2
<1>5. SumFunction([q \in Queries |-> Volume(q, days)]) = SumFunctionOnSet(rows, Queries)
  BY DEF SumFunction
<1>6. SumFunction(f) = SumFunctionOnSet(f, Queries \X W)
  BY DEF SumFunction
<1>7. f = [p \in Queries \X Window(days) |->
                asked[p] - lost[p] - pending[p].n - Cardinality(InFlight(p[1], p[2]))]
  BY DEF W
<1>8. \A q \in Queries, d \in Window(days) : Row(<<q, d>>).z <= Row(<<q, d>>).n
  BY <1>2 DEF W
<1> HIDE DEF f, rows
<1>9. SumFunctionOnSet(f, Queries \X W) = SumFunctionOnSet(rows, Queries)
  <2>1. \A q \in Queries : rows[q] = SumFunctionOnSet([d \in W |-> f[<<q, d>>]], W)
    BY <1>3
  <2>2. IsFiniteSet(W) /\ IsFiniteSet(Queries)
    BY <1>1
  <2>3. RowSums(Queries, W, f, rows)
    BY <1>4, <2>1 DEF RowSums
  <2>4. QED
    BY <2>2, <2>3, SumTable
<1>10. QED
  BY <1>5, <1>6, <1>7, <1>8, <1>9

LEMMA Clicking ==
    ASSUME ClickInv PROVE ClicksCounted
BY DEF ClickInv, Kept, Rolled, ClicksCounted

-----------------------------------------------------------------------------
(* The suggestions, as a list.                                             *)

LEMMA ListOfSet ==
    ASSUME NEW S, IsFiniteSet(S), S # {}
    PROVE  /\ SetToSeq(S) \in [1..Cardinality(S) -> S]
           /\ Cardinality(S) \in Nat /\ 1 <= Cardinality(S)
<1>1. Cardinality(S) \in Nat /\ ExistsBijection(1..Cardinality(S), S) /\ Cardinality(S) # 0
  BY FS_CardinalityType, FS_EmptySet
<1>2. \E f \in [1..Cardinality(S) -> S] : IsInjective(f)
  BY <1>1 DEF ExistsBijection, Bijection, Injection
<1>3. QED
  BY <1>1, <1>2 DEF SetToSeq

Suggestion == [source : Queries, target : Queries]

(* The types of what Intelligence adds; a run that works has work left.    *)
RewriteInv ==
    /\ rewrites \subseteq Rules
    /\ cpc \in [Creators -> {"idle", "check", "create"}]
    /\ todo \in [Creators -> Seq(Suggestion)]
    /\ \A c \in Creators : cpc[c] # "idle" => todo[c] # <<>>
    /\ overlapped \subseteq Queries

(* The query of a run that is about to make a rule.                        *)
Making(c, q) == cpc[c] = "create" /\ Head(todo[c]).source = q

(* It has no rule yet, and no other run makes one, unless they overlapped.  *)
RuleInv ==
    /\ RewriteInv
    /\ \A c \in Creators, q \in Queries : Making(c, q) /\ Known(q) => q \in overlapped
    /\ \A c, d \in Creators, q \in Queries :
            c # d /\ Making(c, q) /\ Making(d, q) => q \in overlapped
    /\ OneRulePerQuery

LEMMA HeadType ==
    ASSUME RewriteInv, NEW c \in Creators, cpc[c] # "idle"
    PROVE  /\ Head(todo[c]) \in Suggestion /\ Head(todo[c]).source \in Queries
           /\ Tail(todo[c]) \in Seq(Suggestion)
<1>1. todo[c] \in Seq(Suggestion) /\ todo[c] # <<>>
  BY DEF RewriteInv
<1>2. Head(todo[c]) \in Suggestion /\ Tail(todo[c]) \in Seq(Suggestion)
  BY <1>1
<1>3. QED
  BY <1>2 DEF Suggestion

LEMMA InitRule == ASSUME Init PROVE RuleInv
<1>1. RewriteInv
  BY DEF Init, RewriteInv
<1>2. QED
  BY <1>1 DEF Init, RuleInv, Making, OneRulePerQuery

LEMMA SuggestStep ==
    ASSUME RuleInv, NEW c \in Creators, Suggest(c)
    PROVE  RuleInv'
<1>1. PICK f \in Suggestions :
        /\ DOMAIN f # {}
        /\ todo' = [todo EXCEPT ![c] = [i \in DOMAIN SetToSeq(DOMAIN f) |->
                        [source |-> SetToSeq(DOMAIN f)[i], target |-> f[SetToSeq(DOMAIN f)[i]]]]]
  BY DEF Suggest
<1>2. PICK S \in SUBSET Queries : f \in [S -> Queries]
  BY DEF Suggestions
<1>3. S = DOMAIN f /\ IsFiniteSet(S) /\ S # {}
  BY <1>1, <1>2, QueriesFacts, FS_Subset
<1> DEFINE list == SetToSeq(S)
           n == Cardinality(S)
           work == [i \in DOMAIN list |-> [source |-> list[i], target |-> f[list[i]]]]
<1>4. list \in [1..n -> S] /\ n \in Nat /\ 1 <= n
  BY <1>3, ListOfSet
<1>5. work \in Seq(Suggestion) /\ work # <<>>
  <2> HIDE DEF list, n
  <2>1. work \in [1..n -> Suggestion]
    BY <1>2, <1>4 DEF Suggestion
  <2>2. work \in Seq(Suggestion) /\ Len(work) = n
    BY <1>4, <2>1
  <2>3. QED
    BY <1>4, <2>2
<1>6. /\ todo' = [todo EXCEPT ![c] = work] /\ cpc' = [cpc EXCEPT ![c] = "check"]
      /\ UNCHANGED <<rewrites, overlapped>> /\ Queries' = Queries /\ Rules' = Rules
  BY <1>1, <1>3 DEF Suggest, Queries, Rules
<1> HIDE DEF work
<1>7. RewriteInv
  BY DEF RuleInv
<1>8. RewriteInv'
  BY <1>5, <1>6, <1>7 DEF RewriteInv, Suggestion
<1>9. ASSUME NEW d \in Creators, NEW q \in Queries, Making(d, q)' PROVE Making(d, q) /\ d # c
  BY <1>6, <1>7, <1>9 DEF Making, RewriteInv
<1>10. OneRulePerQuery' /\ \A q : Known(q)' = Known(q)
  BY <1>6 DEF RuleInv, OneRulePerQuery, Known
<1>11. QED
  BY <1>6, <1>8, <1>9, <1>10 DEF RuleInv

(* A run that drops a suggestion makes nothing next.                       *)
LEMMA DroppedFacts ==
    ASSUME RewriteInv, NEW c \in Creators, cpc[c] # "idle", Dropped(c)
    PROVE  /\ cpc' \in [Creators -> {"idle", "check", "create"}]
           /\ todo' \in [Creators -> Seq(Suggestion)]
           /\ \A d \in Creators : cpc'[d] # "idle" => todo'[d] # <<>>
           /\ \A d \in Creators, q \in Queries : Making(d, q)' => Making(d, q) /\ d # c
<1>1. Tail(todo[c]) \in Seq(Suggestion)
  BY HeadType
<1> DEFINE next == IF Tail(todo[c]) = <<>> THEN "idle" ELSE "check"
<1>2. cpc' = [cpc EXCEPT ![c] = next] /\ todo' = [todo EXCEPT ![c] = Tail(todo[c])]
  BY DEF Dropped, RewriteInv
<1>3. cpc' \in [Creators -> {"idle", "check", "create"}] /\ todo' \in [Creators -> Seq(Suggestion)]
  BY <1>1, <1>2 DEF RewriteInv
<1>4. ASSUME NEW d \in Creators, cpc'[d] # "idle" PROVE todo'[d] # <<>>
  BY <1>2, <1>4 DEF RewriteInv
<1>5. ASSUME NEW d \in Creators, NEW q \in Queries, Making(d, q)'
      PROVE  Making(d, q) /\ d # c
  BY <1>2, <1>5 DEF RewriteInv, Making
<1>6. QED
  BY <1>3, <1>4, <1>5

LEMMA SkipStep ==
    ASSUME RuleInv, NEW c \in Creators, Skip(c)
    PROVE  RuleInv'
<1>1. /\ UNCHANGED <<rewrites, overlapped>> /\ Dropped(c) /\ cpc[c] # "idle"
      /\ Queries' = Queries /\ Rules' = Rules /\ Suggestion' = Suggestion /\ RewriteInv
  BY DEF Skip, Queries, Rules, Suggestion, RuleInv
<1>2. RewriteInv'
  BY <1>1, DroppedFacts DEF RewriteInv
<1>3. OneRulePerQuery' /\ \A q : Known(q)' = Known(q)
  BY <1>1 DEF RuleInv, OneRulePerQuery, Known
<1>4. QED
  BY <1>1, <1>2, <1>3, DroppedFacts DEF RuleInv

LEMMA CheckStep ==
    ASSUME RuleInv, NEW c \in Creators, Check(c)
    PROVE  RuleInv'
<1> DEFINE q == Head(todo[c]).source
<1>1. /\ cpc[c] = "check" /\ ~Known(q) /\ cpc' = [cpc EXCEPT ![c] = "create"]
      /\ UNCHANGED <<rewrites, todo>> /\ Queries' = Queries /\ Rules' = Rules
      /\ Suggestion' = Suggestion /\ RewriteInv
  BY DEF Check, Queries, Rules, Suggestion, RuleInv
<1>2. overlapped' = overlapped \cup
            {x \in {q} : \E d \in Creators \ {c} : cpc[d] = "create" /\ Head(todo[d]).source = x}
  BY DEF Check
<1>3. q \in Queries
  BY <1>1, HeadType
<1> HIDE DEF q
<1>4. RewriteInv'
  BY <1>1, <1>2, <1>3 DEF RewriteInv
<1>5. ASSUME NEW d \in Creators, NEW x \in Queries, Making(d, x)'
      PROVE  (d = c /\ x = q) \/ (d # c /\ Making(d, x))
  BY <1>1, <1>5 DEF Making, RewriteInv, q
<1>6. OneRulePerQuery' /\ \A x : Known(x)' = Known(x)
  BY <1>1, <1>2 DEF RuleInv, OneRulePerQuery, Known
<1>7. ASSUME NEW d \in Creators, NEW x \in Queries, Making(d, x)', Known(x)'
      PROVE  x \in overlapped'
  BY <1>1, <1>2, <1>5, <1>6, <1>7 DEF RuleInv
<1>8. ASSUME NEW d \in Creators, NEW e \in Creators, NEW x \in Queries,
             d # e, Making(d, x)', Making(e, x)'
      PROVE  x \in overlapped'
  <2>1. CASE d # c /\ e # c
    BY <1>2, <1>5, <1>8, <2>1 DEF RuleInv
  <2>2. ASSUME NEW z \in Creators, z # c, Making(z, x), x = q PROVE x \in overlapped'
    BY <1>2, <2>2 DEF Making
  <2>3. QED
    BY <1>5, <1>8, <2>1, <2>2
<1>9. QED
  BY <1>1, <1>4, <1>6, <1>7, <1>8 DEF RuleInv

LEMMA MakeStep ==
    ASSUME RuleInv, NEW c \in Creators, Make(c)
    PROVE  RuleInv'
<1> DEFINE s == Head(todo[c])
           r == [by |-> c, source |-> s.source, target |-> s.target]
<1>1. /\ cpc[c] = "create" /\ rewrites' = rewrites \cup {r} /\ Dropped(c)
      /\ UNCHANGED overlapped /\ Queries' = Queries /\ Rules' = Rules
      /\ Suggestion' = Suggestion /\ RewriteInv
  BY DEF Make, Queries, Rules, Suggestion, RuleInv
<1>2. s \in Suggestion /\ s.source \in Queries /\ Making(c, s.source)
  BY <1>1, HeadType DEF Making
<1>3. r \in Rules /\ r.source = s.source
  BY <1>2 DEF Rules, Suggestion
<1> HIDE DEF r, s
<1>4. RewriteInv'
  BY <1>1, <1>3, DroppedFacts DEF RewriteInv
<1>5. ASSUME NEW d \in Creators, NEW x \in Queries, Making(d, x)'
      PROVE  Making(d, x) /\ d # c
  BY <1>1, <1>5, DroppedFacts
<1>6. ASSUME NEW x, Known(x)' PROVE Known(x) \/ x = s.source
  BY <1>1, <1>3, <1>6 DEF Known
<1>7. OneRulePerQuery'
  <2>1. SUFFICES ASSUME NEW r1 \in rewrites', NEW r2 \in rewrites', r1.source = r2.source, r1 # r2
                 PROVE  r1.source \in overlapped
    BY <1>1 DEF OneRulePerQuery
  <2>2. CASE r1 \in rewrites /\ r2 \in rewrites
    BY <2>1, <2>2 DEF RuleInv, OneRulePerQuery
  <2>3. ASSUME NEW x \in rewrites, x.source = s.source PROVE s.source \in overlapped
    BY <1>2, <2>3 DEF RuleInv, Known
  <2>4. QED
    BY <1>1, <1>3, <2>1, <2>2, <2>3
<1>8. ASSUME NEW d \in Creators, NEW x \in Queries, Making(d, x)', Known(x)'
      PROVE  x \in overlapped'
  BY <1>1, <1>2, <1>5, <1>6, <1>8 DEF RuleInv
<1>9. QED
  BY <1>1, <1>4, <1>5, <1>7, <1>8 DEF RuleInv

LEMMA RulesStay ==
    ASSUME RuleInv, UNCHANGED intelligenceVars PROVE RuleInv'
BY DEF RuleInv, RewriteInv, intelligenceVars, OneRulePerQuery, Making, Known, Queries, Rules, Suggestion

-----------------------------------------------------------------------------
(* The inductive invariant.                                                *)

Inv == SearchInv /\ ClickInv /\ RuleInv

(* A search is rewritten to a query, which is a spelling.                  *)
LEMMA AskedSpelling ==
    ASSUME RewriteInv, NEW s \in Spellings PROVE Asked(s) \subseteq Spellings
<1>1. Queries \subseteq Spellings /\ \A r \in rewrites : r.target \in Queries
  BY AnalyticsAssumption DEF Queries, RewriteInv, Rules
<1>2. QED
  BY <1>1 DEF Asked

LEMMA InvInit == Init => Inv
BY AnalyticsInitInv, InitRule DEF Init, Inv

LEMMA InvStep == Inv /\ [Next]_vars => Inv'
<1> SUFFICES ASSUME Inv, [Next]_vars PROVE Inv'
  OBVIOUS
<1>0. SearchInv /\ ClickInv /\ RuleInv /\ RewriteInv
  BY DEF Inv, RuleInv
<1>1. CASE AnalyticsNext /\ UNCHANGED intelligenceVars
  BY <1>0, <1>1, AnalyticsStep, RulesStay DEF Inv
<1>2. ASSUME NEW w \in Searchers, NEW s \in Spellings, Search(w, s) PROVE Inv'
  <2>1. PICK t \in Asked(s), zero \in BOOLEAN : Log(w, t, zero)
    BY <1>2 DEF Search
  <2>2. t \in Spellings
    BY <1>0, AskedSpelling
  <2>3. UNCHANGED intelligenceVars
    BY <1>2 DEF Search
  <2>4. QED
    BY <1>0, <2>1, <2>2, <2>3, AnalyticsLogStep, RulesStay DEF Inv
<1>3. ASSUME NEW c \in Creators, Suggest(c) \/ Skip(c) \/ Check(c) \/ Make(c) PROVE Inv'
  <2>1. UNCHANGED analyticsVars
    BY <1>3 DEF Suggest, Skip, Check, Make
  <2>2. RuleInv'
    BY <1>0, <1>3, SuggestStep, SkipStep, CheckStep, MakeStep
  <2>3. QED
    BY <1>0, <2>1, <2>2, AnalyticsStutter DEF Inv
<1>4. CASE UNCHANGED vars
  <2>1. UNCHANGED analyticsVars /\ UNCHANGED intelligenceVars
    BY <1>4 DEF vars
  <2>2. QED
    BY <1>0, <2>1, AnalyticsStutter, RulesStay DEF Inv
<1>5. QED
  BY <1>1, <1>2, <1>3, <1>4 DEF Next

(* Every reachable state has the types that TypeOK says: counts stay within *)
(* what happened, and a run that makes rules works through a list.         *)
THEOREM TypeCorrect == Spec => []TypeOK
<1>1. Inv => TypeOK
  BY TypeParts DEF Inv, SearchInv, ClickInv, RuleInv, RewriteInv, TypeOK, Suggestion
<1>2. QED
  BY InvInit, InvStep, <1>1, PTL DEF Spec

(* Whatever searchers, transactions, cleanups and rewrites interleave, and  *)
(* for every window: the counters, with what open transactions will add,    *)
(* are the searches asked, less those on their way or recorded as lost      *)
(* (services/search.py:194).                                               *)
THEOREM SearchesAreCounted == Spec => []SearchesCounted
<1>1. Inv => SearchesCounted
  BY Counting DEF Inv
<1>2. QED
  BY InvInit, InvStep, <1>1, PTL DEF Spec

(* Whatever rollups overlap, and whenever their rows are deleted: the count *)
(* of a day is its clicks, but for the rows left and the spoilt counts.     *)
THEOREM ClicksAreCounted == Spec => []ClicksCounted
<1>1. Inv => ClicksCounted
  BY Clicking DEF Inv
<1>2. QED
  BY InvInit, InvStep, <1>1, PTL DEF Spec

(* Runs of auto_create_rewrites make two rules for a query only when one    *)
(* found none while another was about to make it.                          *)
THEOREM OneRule == Spec => []OneRulePerQuery
<1>1. Inv => OneRulePerQuery
  BY DEF Inv, RuleInv
<1>2. QED
  BY InvInit, InvStep, <1>1, PTL DEF Spec

-----------------------------------------------------------------------------
(* Clusters.                                                               *)

(* A set of numbers that is not empty has a least one.                     *)
LEMMA LeastNumber ==
    ASSUME NEW T \in SUBSET Nat, T # {}
    PROVE  \E m \in T : \A k \in T : m <= k
<1> DEFINE below == {0..n : n \in T}
<1>1. below \subseteq FiniteSubsetsOf(Nat) /\ below # {}
  <2>1. \A n \in T : 0..n \in SUBSET Nat /\ IsFiniteSet(0..n)
    BY FS_Interval
  <2>2. \A s \in below : s \in FiniteSubsetsOf(Nat)
    BY <2>1 DEF FiniteSubsetsOf
  <2>3. QED
    BY <2>2
<1>2. PICK s \in below : \A t \in below : ~ (<<t, s>> \in StrictSubsetOrdering(Nat))
  <2> HIDE DEF below
  <2>1. QED
    BY <1>1, FS_StrictSubsetOrderingWellFounded, WFMin
<1>3. PICK m \in T : s = 0..m
  BY <1>2
<1>4. ASSUME NEW k \in T, k < m PROVE FALSE
  <2>1. 0..k \in below /\ 0..k \subseteq 0..m /\ 0..k # 0..m
    BY <1>4
  <2>2. <<0..k, s>> \in StrictSubsetOrdering(Nat)
    BY <1>3, <2>1 DEF StrictSubsetOrdering
  <2>3. QED
    BY <1>2, <2>1, <2>2
<1>5. QED
  BY <1>4

(* A forest: g finds the root of each node, above which it is deep.        *)
Forest(parent, g, deep) ==
    /\ parent \in [Sample -> Sample] /\ g \in [Sample -> Sample] /\ deep \in [Sample -> Nat]
    /\ \A z \in Sample : /\ g[z] = IF parent[z] = z THEN z ELSE g[parent[z]]
                         /\ parent[g[z]] = g[z]
                         /\ parent[z] # z => deep[parent[z]] < deep[z]

Finds(c, parent) == c = [y \in DOMAIN parent |-> IF parent[y] = y THEN y ELSE c[parent[y]]]

(* Only one function finds the roots, so _UnionFind.find does.             *)
LEMMA RootFound ==
    ASSUME NEW parent, NEW g, NEW deep, Forest(parent, g, deep), NEW x \in Sample
    PROVE  Root(parent, x) = g[x]
<1> DEFINE c == CHOOSE c : Finds(c, parent)
<1>1. Root(parent, x) = c[x]
  BY DEF Root, Finds
<1>2. Finds(g, parent)
  BY DEF Forest, Finds
<1>3. Finds(c, parent)
  BY <1>2
<1> HIDE DEF c
<1>4. \A z \in Sample : c[z] = IF parent[z] = z THEN z ELSE c[parent[z]]
  BY <1>3 DEF Finds, Forest
<1> DEFINE wrong == {deep[z] : z \in {y \in Sample : c[y] # g[y]}}
<1>5. ASSUME wrong # {} PROVE FALSE
  <2>1. wrong \in SUBSET Nat
    BY DEF Forest
  <2>2. PICK m \in wrong : \A k \in wrong : m <= k
    <3> HIDE DEF wrong
    <3>1. QED
      BY <1>5, <2>1, LeastNumber
  <2>3. PICK z \in Sample : c[z] # g[z] /\ deep[z] = m
    BY <2>2
  <2>4. parent[z] # z /\ c[parent[z]] # g[parent[z]] /\ parent[z] \in Sample
    BY <1>4, <2>3 DEF Forest
  <2>5. deep[parent[z]] < deep[z] /\ deep[parent[z]] \in Nat /\ deep[z] \in Nat
    BY <2>3, <2>4 DEF Forest
  <2>6. deep[parent[z]] \in wrong
    BY <2>4
  <2> HIDE DEF wrong
  <2>7. deep[z] <= deep[parent[z]]
    BY <2>2, <2>3, <2>6
  <2>8. QED
    BY <2>5, <2>7
<1>6. QED
  BY <1>1, <1>5

(* _UnionFind.union hangs one tree under the root of the other.            *)
LEMMA UniteForest ==
    ASSUME NEW parent, NEW g, NEW deep, Forest(parent, g, deep), NEW pair \in Sample \X Sample
    PROVE  \E h, d : /\ Forest(Unite(parent, pair), h, d)
                     /\ \A z \in Sample :
                            h[z] = IF g[z] = g[pair[2]] THEN g[pair[1]] ELSE g[z]
<1> DEFINE x == g[pair[1]]
           y == g[pair[2]]
<1>1. /\ x \in Sample /\ y \in Sample
      /\ parent[x] = x /\ parent[y] = y
      /\ Unite(parent, pair) = IF x = y THEN parent ELSE [parent EXCEPT ![y] = x]
  <2>1. pair[1] \in Sample /\ pair[2] \in Sample
    OBVIOUS
  <2>2. Root(parent, pair[1]) = x /\ Root(parent, pair[2]) = y
    BY <2>1, RootFound
  <2>3. x \in Sample /\ y \in Sample /\ parent[x] = x /\ parent[y] = y
    BY <2>1 DEF Forest
  <2>4. QED
    BY <2>2, <2>3 DEF Unite
<1>2. g[x] = x /\ g[y] = y
  BY <1>1 DEF Forest
<1> HIDE DEF x, y
<1>3. CASE x = y
  <2>1. \A z \in Sample : g[z] = IF g[z] = y THEN x ELSE g[z]
    BY <1>3
  <2>2. Forest(Unite(parent, pair), g, deep)
    BY <1>1, <1>3
  <2>3. QED
    BY <2>1, <2>2 DEF x, y
<1>4. CASE x # y
  <2> DEFINE p == [parent EXCEPT ![y] = x]
             h == [z \in Sample |-> IF g[z] = y THEN x ELSE g[z]]
             d == [z \in Sample |-> IF g[z] = y THEN deep[z] + deep[x] + 1 ELSE deep[z]]
  <2>1. p \in [Sample -> Sample] /\ h \in [Sample -> Sample] /\ d \in [Sample -> Nat]
    BY <1>1 DEF Forest
  <2>2. ASSUME NEW z \in Sample
        PROVE  /\ h[z] = IF p[z] = z THEN z ELSE h[p[z]]
               /\ p[h[z]] = h[z]
               /\ p[z] # z => d[p[z]] < d[z]
    <3>1. p[z] = (IF z = y THEN x ELSE parent[z]) /\ p[z] \in Sample /\ parent[z] \in Sample
      BY <1>1, <2>1 DEF Forest
    <3>2. CASE z = y
      <4>1. p[z] = x /\ h[z] = x /\ h[x] = x /\ p[x] = x
        BY <1>1, <1>2, <1>4, <3>1, <3>2 DEF Forest
      <4>2. d[z] = deep[z] + deep[x] + 1 /\ d[x] = deep[x] /\ deep[z] \in Nat /\ deep[x] \in Nat
        BY <1>1, <1>2, <1>4, <3>2 DEF Forest
      <4> HIDE DEF p, h, d
      <4>3. QED
        BY <3>2, <4>1, <4>2
    <3>3. CASE z # y
      <4>1. p[z] = parent[z] /\ (parent[z] # z => g[parent[z]] = g[z])
        BY <3>1, <3>3 DEF Forest
      <4>2. h[z] = IF p[z] = z THEN z ELSE h[p[z]]
        BY <1>1, <1>2, <3>1, <3>3, <4>1 DEF Forest
      <4>3. p[h[z]] = h[z]
        BY <1>1, <1>4 DEF Forest
      <4>4. ASSUME p[z] # z PROVE d[p[z]] < d[z]
        <5>1. deep[parent[z]] < deep[z] /\ g[parent[z]] = g[z]
          BY <4>1, <4>4 DEF Forest
        <5>2. deep[parent[z]] \in Nat /\ deep[z] \in Nat /\ deep[x] \in Nat
          BY <1>1, <3>1 DEF Forest
        <5>3. /\ d[parent[z]] = IF g[z] = y THEN deep[parent[z]] + deep[x] + 1 ELSE deep[parent[z]]
              /\ d[z] = IF g[z] = y THEN deep[z] + deep[x] + 1 ELSE deep[z]
          BY <3>1, <5>1
        <5> HIDE DEF d, p
        <5>4. QED
          BY <4>1, <5>1, <5>2, <5>3
      <4>5. QED
        BY <4>2, <4>3, <4>4
    <3>4. QED
      BY <3>2, <3>3
  <2>3. Unite(parent, pair) = p
    BY <1>1, <1>4
  <2>4. \A z \in Sample : h[z] = IF g[z] = y THEN x ELSE g[z]
    OBVIOUS
  <2> HIDE DEF p, h, d
  <2>5. Forest(p, h, d)
    BY <2>1, <2>2 DEF Forest
  <2>6. QED
    BY <2>3, <2>4, <2>5 DEF x, y
<1>5. QED
  BY <1>3, <1>4

(* The forests of cluster_queries, one per pair united.                    *)
Alone == [q \in Sample |-> q]
United(u, pairs, n) == u = [i \in 0..n |-> IF i = 0 THEN Alone ELSE Unite(u[i - 1], pairs[i])]

LEMMA UnitedExists ==
    ASSUME NEW pairs, NEW n \in Nat
    PROVE  \E u : United(u, pairs, n)
<1> DEFINE bad == {m \in Nat : ~ \E u : United(u, pairs, m)}
<1> SUFFICES ASSUME bad # {} PROVE FALSE
  OBVIOUS
<1>1. PICK m \in bad : \A k \in bad : m <= k
  <2>1. bad \in SUBSET Nat
    OBVIOUS
  <2> HIDE DEF bad
  <2>2. QED
    BY <2>1, LeastNumber
<1>2. m # 0
  <2> DEFINE u == [i \in 0..0 |-> Alone]
  <2>1. United(u, pairs, 0)
    BY DEF United
  <2>2. QED
    BY <2>1
<1>3. PICK g : United(g, pairs, m - 1)
  <2>1. m - 1 \in Nat /\ ~ (m <= m - 1)
    BY <1>2
  <2>2. m - 1 \notin bad
    BY <1>1, <2>1
  <2>3. QED
    BY <2>1, <2>2
<1> DEFINE h == [i \in 0..m |-> IF i = m THEN Unite(g[m - 1], pairs[m]) ELSE g[i]]
<1>4. ASSUME NEW i \in 0..m PROVE h[i] = IF i = 0 THEN Alone ELSE Unite(h[i - 1], pairs[i])
  <2>1. CASE i = m
    BY <1>2, <2>1
  <2>2. CASE i # m
    BY <1>3, <2>2 DEF United
  <2>3. QED
    BY <2>1, <2>2
<1>5. United(h, pairs, m)
  BY <1>4 DEF United
<1>6. QED
  BY <1>5

(* After each pair the roots tell the pairs so far from the others: the two *)
(* of a pair have one root, and roots stay in the closed sets.             *)
Sorted(parent, pairs, n) ==
    \E g, deep :
        /\ Forest(parent, g, deep)
        /\ \A j \in 1..n : g[pairs[j][1]] = g[pairs[j][2]]
        /\ \A S \in SUBSET Sample : Closed(S, pairs) => \A z \in Sample : z \in S <=> g[z] \in S

LEMMA SortedStep ==
    ASSUME NEW parent, NEW n \in Nat, NEW i \in 1..n, NEW pairs \in [1..n -> Sample \X Sample],
           Sorted(parent, pairs, i - 1)
    PROVE  Sorted(Unite(parent, pairs[i]), pairs, i)
<1>1. PICK g, deep :
        /\ Forest(parent, g, deep)
        /\ \A j \in 1..(i - 1) : g[pairs[j][1]] = g[pairs[j][2]]
        /\ \A S \in SUBSET Sample : Closed(S, pairs) => \A z \in Sample : z \in S <=> g[z] \in S
  BY DEF Sorted
<1>2. \A j \in 1..n : pairs[j][1] \in Sample /\ pairs[j][2] \in Sample /\ pairs[j] \in Sample \X Sample
  OBVIOUS
<1> DEFINE a == pairs[i][1]
           b == pairs[i][2]
<1>3. PICK h, d : /\ Forest(Unite(parent, pairs[i]), h, d)
                  /\ \A z \in Sample : h[z] = IF g[z] = g[b] THEN g[a] ELSE g[z]
  BY <1>1, <1>2, UniteForest
<1>4. ASSUME NEW j \in 1..i PROVE h[pairs[j][1]] = h[pairs[j][2]]
  <2>1. pairs[j][1] \in Sample /\ pairs[j][2] \in Sample
    BY <1>2
  <2>2. CASE j = i
    BY <1>3, <2>1, <2>2
  <2>3. CASE j # i
    <3>1. g[pairs[j][1]] = g[pairs[j][2]]
      BY <1>1, <2>3
    <3>2. QED
      BY <1>3, <2>1, <3>1
  <2>4. QED
    BY <2>2, <2>3
<1>5. ASSUME NEW S \in SUBSET Sample, Closed(S, pairs), NEW z \in Sample
      PROVE  z \in S <=> h[z] \in S
  <2>1. a \in S <=> b \in S
    BY <1>5 DEF Closed
  <2>2. (a \in S <=> g[a] \in S) /\ (b \in S <=> g[b] \in S) /\ (z \in S <=> g[z] \in S)
    BY <1>1, <1>2, <1>5
  <2>3. QED
    BY <1>3, <2>1, <2>2
<1>6. QED
  BY <1>3, <1>4, <1>5 DEF Sorted

LEMMA AllSorted ==
    ASSUME NEW n \in Nat, NEW pairs \in [1..n -> Sample \X Sample], NEW u, United(u, pairs, n)
    PROVE  Sorted(u[n], pairs, n)
<1> DEFINE bad == {i \in 0..n : ~Sorted(u[i], pairs, i)}
<1>1. ASSUME bad # {} PROVE FALSE
  <2>1. PICK m \in bad : \A k \in bad : m <= k
    <3>1. bad \in SUBSET Nat
      OBVIOUS
    <3> HIDE DEF bad
    <3>2. QED
      BY <1>1, <3>1, LeastNumber
  <2>2. CASE m = 0
    <3> DEFINE zero == [q \in Sample |-> 0]
    <3>1. Forest(Alone, Alone, zero)
      BY DEF Forest, Alone
    <3>2. Sorted(Alone, pairs, 0)
      <4> HIDE DEF zero
      <4>1. \A S \in SUBSET Sample : \A z \in Sample : z \in S <=> Alone[z] \in S
        BY DEF Alone
      <4>2. \A j \in 1..0 : Alone[pairs[j][1]] = Alone[pairs[j][2]]
        OBVIOUS
      <4>3. QED
        BY <3>1, <4>1, <4>2 DEF Sorted
    <3>3. u[0] = Alone
      BY DEF United
    <3>4. QED
      BY <2>2, <3>2, <3>3
  <2>3. CASE m # 0
    <3>1. m \in 1..n /\ m - 1 \in 0..n /\ ~ (m <= m - 1)
      BY <2>3
    <3>2. m - 1 \notin bad
      BY <2>1, <3>1
    <3>3. Sorted(u[m - 1], pairs, m - 1)
      BY <3>1, <3>2
    <3>4. u[m] = Unite(u[m - 1], pairs[m])
      BY <3>1 DEF United
    <3>5. Sorted(u[m], pairs, m)
      BY <3>1, <3>3, <3>4, SortedStep
    <3>6. QED
      BY <3>5
  <2>4. QED
    BY <2>2, <2>3
<1>2. QED
  BY <1>1

(* cluster_queries makes a cluster of the queries with one root, which are  *)
(* those that the pairs connect.                                           *)
LEMMA Connecting ==
    ASSUME NEW n \in Nat, NEW pairs \in [1..n -> Sample \X Sample]
    PROVE  Clusters(Sample, pairs) = {Component(x, pairs) : x \in Sample}
<1> DEFINE u == CHOOSE u : United(u, pairs, n)
           parent == u[n]
<1>1. United(u, pairs, n)
  BY UnitedExists
<1>2. Clusters(Sample, pairs)
        = {{q \in Sample : Root(parent, q) = r} : r \in {Root(parent, q) : q \in Sample}}
  <2>1. Len(pairs) = n
    OBVIOUS
  <2>2. QED
    BY <2>1 DEF Clusters, United, Alone
<1> HIDE DEF u
<1>3. PICK g, deep :
        /\ Forest(parent, g, deep)
        /\ \A j \in 1..n : g[pairs[j][1]] = g[pairs[j][2]]
        /\ \A S \in SUBSET Sample : Closed(S, pairs) => \A z \in Sample : z \in S <=> g[z] \in S
  BY <1>1, AllSorted DEF Sorted
<1>4. \A q \in Sample : Root(parent, q) = g[q]
  BY <1>3, RootFound
<1> HIDE DEF parent
<1> DEFINE cluster(x) == {q \in Sample : g[q] = g[x]}
<1>5. Clusters(Sample, pairs) = {cluster(x) : x \in Sample}
  BY <1>2, <1>4
<1>6. ASSUME NEW x \in Sample PROVE cluster(x) = Component(x, pairs)
  <2>1. ASSUME NEW y \in cluster(x), NEW S \in SUBSET Sample, x \in S, Closed(S, pairs)
        PROVE  y \in S
    BY <1>3, <2>1
  <2>2. Closed(cluster(x), pairs)
    <3>1. \A j \in 1..n : pairs[j][1] \in Sample /\ pairs[j][2] \in Sample
      OBVIOUS
    <3>2. QED
      BY <1>3, <3>1 DEF Closed
  <2>3. ASSUME NEW y \in Component(x, pairs) PROVE y \in cluster(x)
    BY <2>2, <2>3 DEF Component
  <2>4. QED
    BY <2>1, <2>3 DEF Component
<1> HIDE DEF cluster
<1>7. {cluster(x) : x \in Sample} = {Component(x, pairs) : x \in Sample}
  BY <1>6
<1>8. QED
  BY <1>5, <1>7

(* Whichever similar pairs the database returns, and in which order, the    *)
(* clusters are the connected components of the queries.                   *)
THEOREM Connected == Spec => []ClustersConnect
<1>1. ASSUME NEW pairs \in BoundedSeq(SamplePairs, SampleLength)
      PROVE  Clusters(Sample, pairs) = {Component(x, pairs) : x \in Sample}
  <2>1. PICK n \in 0..SampleLength : pairs \in [1..n -> SamplePairs]
    BY DEF BoundedSeq, SeqOf
  <2>2. n \in Nat /\ pairs \in [1..n -> Sample \X Sample]
    BY <2>1, IntelligenceAssumption
  <2>3. QED
    BY <2>2, Connecting
<1>2. ClustersConnect
  BY <1>1 DEF ClustersConnect
<1>3. QED
  BY <1>2, PTL
=============================================================================
