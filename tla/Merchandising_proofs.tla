----------------------- MODULE Merchandising_proofs -----------------------
(***************************************************************************)
(* Proofs about merchandising: the pipeline of Merchandising and, in a     *)
(* second part, the cache of the rules that its stages look up.            *)
(***************************************************************************)
EXTENDS Merchandising, RuleCache, FiniteSetTheorems, SequenceTheorems, TLAPS

-----------------------------------------------------------------------------
(* The filters of the pipeline: whatever fields there are, what the caller *)
(* filters by is what the engine is asked.                                 *)

(* Before the preprocessor the filter is the caller's; after it, it has    *)
(* all that the caller's dict has.                                         *)
GivenType == given \in Filters("caller") \cup {Text}
Untouched == pc \in {"gate", "preprocess"} => filter = given
Extended == pc \in {"redirect", "rewrite"} /\ given # Text => given \subseteq filter
FilterInv == GivenType /\ Untouched /\ Extended /\ CallerFirst

(* A dict is not an engine's string.                                       *)
LEMMA DictPairs ==
    ASSUME NEW origin, NEW f \in Filters(origin)
    PROVE  /\ f \cap Text = {}
           /\ \A p \in f : \E k \in FilterKeys : p = <<k, origin>>
BY MerchandisingAssumption DEF Filters, Text

(* The higher filter of a merge is kept.                                   *)
LEMMA HigherKept ==
    ASSUME NEW low, NEW high, high \cap Text = {}
    PROVE  high \subseteq Merged(low, high)
BY DEF Merged

(* CallerFirst: a preprocessor's filters are merged under the caller's     *)
(* dict, so only a rewrite rule changes what it asks                       *)
(* (merchandising.py:151).                                                 *)
THEOREM CallersFilterHolds == Spec => []CallerFirst
<1>1. Init => FilterInv
  BY DEF Init, FilterInv, GivenType, Untouched, Extended, CallerFirst
<1>2. FilterInv /\ [Next]_vars => FilterInv'
  <2> SUFFICES ASSUME FilterInv, [Next]_vars PROVE FilterInv'
    OBVIOUS
  <2> USE DEF FilterInv
  <2>1. ASSUME given' \in Filters("caller") \cup {Text},
               pc' \notin {"gate", "preprocess", "redirect", "rewrite", "search"}
        PROVE  FilterInv'
    BY <2>1 DEF GivenType, Untouched, Extended, CallerFirst
  <2>2. CASE Gate
    <3>1. CASE pc' = "preprocess" /\ UNCHANGED <<filter, given>>
      BY <2>2, <3>1 DEF Gate, GivenType, Untouched, Extended, CallerFirst
    <3>2. CASE Engine /\ pc' = "done"
      <4>1. given' = {}
        BY <3>2 DEF Engine
      <4>2. {} \in Filters("caller")
        <5>1. {} \X {"caller"} = {}
          OBVIOUS
        <5>2. QED
          BY <5>1 DEF Filters
      <4>3. QED
        BY <2>1, <3>2, <4>1, <4>2
    <3>3. QED
      BY <2>2, <3>1, <3>2 DEF Gate, To
  <2>3. CASE Preprocess
    <3>1. UNCHANGED given /\ given \in Filters("caller") \cup {Text}
      BY <2>3 DEF Preprocess, Ends, GivenType
    <3>2. CASE pc' = "done"
      BY <2>1, <3>1, <3>2
    <3>3. ASSUME NEW extracted \in Filters("preprocess"), pc' = "redirect",
                 filter' = IF extracted = {} THEN filter ELSE MergedUnder(extracted)
          PROVE  FilterInv'
      <4>1. filter = given
        BY <2>3 DEF Preprocess, Untouched
      <4>2. ASSUME given # Text PROVE given \subseteq filter'
        <5>1. given \cap Text = {}
          BY <3>1, <4>2, DictPairs
        <5>2. given \subseteq MergedUnder(extracted)
          BY <5>1, HigherKept DEF MergedUnder
        <5>3. QED
          BY <3>3, <4>1, <5>2
      <4>3. QED
        BY <3>1, <3>3, <4>2 DEF GivenType, Untouched, Extended, CallerFirst
    <3>4. QED
      BY <2>3, <3>2, <3>3 DEF Preprocess, Ends, To
  <2>4. CASE Redirect
    BY <2>4 DEF Redirect, Ends, To, GivenType, Untouched, Extended, CallerFirst
  <2>5. CASE Rewrite
    <3>1. pc' = "search" /\ UNCHANGED given /\ given \in Filters("caller") \cup {Text}
      BY <2>5 DEF Rewrite, To, GivenType
    <3>2. PICK added \in Filters("rewrite"), merge \in BOOLEAN :
             filter' = IF added = {} THEN filter
                       ELSE IF merge THEN Merged(filter, added) ELSE added
      BY <2>5 DEF Rewrite
    <3>3. CASE added = {}
      BY <2>5, <3>1, <3>2, <3>3
         DEF Rewrite, GivenType, Untouched, Extended, CallerFirst
    <3>4. CASE added # {}
      <4>1. added \cap Text = {}
        BY DictPairs
      <4>2. added \subseteq filter'
        BY <3>2, <3>4, <4>1, HigherKept
      <4>3. \E k \in FilterKeys : <<k, "rewrite">> \in filter'
        BY <3>4, <4>2, DictPairs
      <4>4. QED
        BY <3>1, <4>3 DEF GivenType, Untouched, Extended, CallerFirst
    <3>5. QED
      BY <3>3, <3>4
  <2>6. CASE Search
    <3>1. given' = {} /\ pc' = "pins"
      BY <2>6 DEF Search, Engine, To
    <3>2. {} \X {"caller"} = {}
      OBVIOUS
    <3>3. given' \in Filters("caller")
      BY <3>1, <3>2 DEF Filters
    <3>4. QED
      BY <2>1, <3>1, <3>3
  <2>7. CASE Pin \/ Boost \/ Fallback \/ Alternative \/ Banners
    BY <2>1, <2>7 DEF Pin, Boost, Fallback, Alternative, Banners, Ends, To, GivenType
  <2>8. CASE UNCHANGED vars
    BY <2>8 DEF vars, GivenType, Untouched, Extended, CallerFirst
  <2>9. QED
    BY <2>2, <2>3, <2>4, <2>5, <2>6, <2>7, <2>8 DEF Next
<1>3. FilterInv => CallerFirst
  BY DEF FilterInv
<1>4. QED
  BY <1>1, <1>2, <1>3, PTL DEF Spec

-----------------------------------------------------------------------------
(* Pins and boosts.  First, that a set of numbers that is not empty has a  *)
(* least one: proofs about recursive functions take a least counterexample.*)
LEMMA LeastNumber ==
    ASSUME NEW T \in SUBSET Nat, T # {}
    PROVE  \E m \in T : \A k \in T : m <= k
<1> DEFINE below == {0..n : n \in T}
<1>1. below \subseteq FiniteSubsetsOf(Nat) /\ below # {}
  <2>1. \A n \in T : 0..n \in SUBSET Nat /\ IsFiniteSet(0..n)
    BY FS_Interval
  <2>2. \A s \in below : s \in FiniteSubsetsOf(Nat)
    BY <2>1 DEF FiniteSubsetsOf
  <2>3. QED
    BY <2>2
<1>2. PICK s \in below : \A t \in below : ~ (<<t, s>> \in StrictSubsetOrdering(Nat))
  <2> HIDE DEF below
  <2>1. QED
    BY <1>1, FS_StrictSubsetOrderingWellFounded, WFMin
<1>3. PICK m \in T : s = 0..m
  BY <1>2
<1>4. ASSUME NEW k \in T, k < m PROVE FALSE
  <2>1. 0..k \in below /\ 0..k \subseteq 0..m /\ 0..k # 0..m
    BY <1>4
  <2>2. <<0..k, s>> \in StrictSubsetOrdering(Nat)
    BY <1>3, <2>1 DEF StrictSubsetOrdering
  <2>3. QED
    BY <1>2, <2>1, <2>2
<1>5. QED
  BY <1>4

-----------------------------------------------------------------------------
(* Hits, taken out and put in.                                             *)

LEMMA TakenOut ==
    ASSUME NEW W, NEW s \in Seq(W), NEW i \in 1..Len(s)
    PROVE  /\ RemoveAt(s, i) \in Seq(W) /\ Len(RemoveAt(s, i)) = Len(s) - 1
           /\ \A j \in 1..(Len(s) - 1) :
                RemoveAt(s, i)[j] = IF j < i THEN s[j] ELSE s[j + 1]
<1> DEFINE n == Len(s)
           a == SubSeq(s, 1, i - 1)
           b == SubSeq(s, i + 1, n)
<1>1. n \in Nat /\ i \in 1..n /\ i - 1 \in 0..n
  OBVIOUS
<1>2. /\ a \in Seq(W) /\ Len(a) = i - 1 /\ \A j \in 1..(i - 1) : a[j] = s[j]
      /\ b \in Seq(W) /\ Len(b) = n - i /\ \A j \in 1..(n - i) : b[j] = s[i + j]
  <2>1. /\ Len(a) = (IF 1 <= i - 1 THEN (i - 1) - 1 + 1 ELSE 0)
        /\ \A j \in 1..((i - 1) - 1 + 1) : a[j] = s[1 + j - 1]
        /\ a \in Seq(W)
    <3>1. \A j \in 1..(i - 1) : s[j] \in W
      BY <1>1
    <3>2. QED
      BY <1>1, <3>1, SubSeqProperties
  <2>2. /\ Len(b) = (IF i + 1 <= n THEN n - (i + 1) + 1 ELSE 0)
        /\ \A j \in 1..(n - (i + 1) + 1) : b[j] = s[(i + 1) + j - 1]
        /\ b \in Seq(W)
    <3>1. \A j \in (i + 1)..n : s[j] \in W
      BY <1>1
    <3>2. QED
      BY <1>1, <3>1, SubSeqProperties
  <2> HIDE DEF a, b
  <2>3. QED
    BY <1>1, <2>1, <2>2
<1>3. RemoveAt(s, i) = a \o b
  BY DEF RemoveAt
<1> HIDE DEF a, b, n
<1>4. /\ a \o b \in Seq(W) /\ Len(a \o b) = n - 1
      /\ \A j \in 1..(n - 1) : (a \o b)[j] = IF j <= i - 1 THEN a[j] ELSE b[j - (i - 1)]
  <2>1. /\ a \o b \in Seq(W) /\ Len(a \o b) = Len(a) + Len(b)
        /\ \A j \in 1..(Len(a) + Len(b)) : (a \o b)[j] = IF j <= Len(a) THEN a[j] ELSE b[j - Len(a)]
    BY <1>2, ConcatProperties
  <2>2. QED
    BY <1>1, <1>2, <2>1
<1>5. ASSUME NEW j \in 1..(n - 1)
      PROVE  (a \o b)[j] = IF j < i THEN s[j] ELSE s[j + 1]
  <2>1. CASE j < i
    <3>1. j \in 1..(i - 1) /\ j <= i - 1
      BY <1>1, <2>1
    <3>2. QED
      BY <1>2, <1>4, <2>1, <3>1
  <2>2. CASE ~ (j < i)
    <3>1. j - (i - 1) \in 1..(n - i) /\ i + (j - (i - 1)) = j + 1 /\ ~ (j <= i - 1)
      BY <1>1, <2>2
    <3>2. b[j - (i - 1)] = s[j + 1]
      BY <1>2, <3>1
    <3>3. QED
      BY <1>4, <2>2, <3>1, <3>2
  <2>3. QED
    BY <2>1, <2>2
<1>6. QED
  BY <1>3, <1>4, <1>5 DEF n

LEMMA PutIn ==
    ASSUME NEW W, NEW s \in Seq(W), NEW i \in 1..(Len(s) + 1), NEW e \in W
    PROVE  /\ InsertAt(s, i, e) \in Seq(W) /\ Len(InsertAt(s, i, e)) = Len(s) + 1
           /\ \A j \in 1..(Len(s) + 1) :
                InsertAt(s, i, e)[j] = IF j < i THEN s[j] ELSE IF j = i THEN e ELSE s[j - 1]
<1> DEFINE n == Len(s)
           a == SubSeq(s, 1, i - 1)
           b == SubSeq(s, i, n)
<1>1. n \in Nat /\ i \in 1..(n + 1) /\ i - 1 \in 0..n
  OBVIOUS
<1>2. /\ a \in Seq(W) /\ Len(a) = i - 1 /\ \A j \in 1..(i - 1) : a[j] = s[j]
      /\ b \in Seq(W) /\ Len(b) = (n - i) + 1 /\ \A j \in 1..((n - i) + 1) : b[j] = s[(i + j) - 1]
  <2>1. /\ Len(a) = (IF 1 <= i - 1 THEN (i - 1) - 1 + 1 ELSE 0)
        /\ \A j \in 1..((i - 1) - 1 + 1) : a[j] = s[1 + j - 1]
        /\ a \in Seq(W)
    <3>1. \A j \in 1..(i - 1) : s[j] \in W
      BY <1>1
    <3>2. QED
      BY <1>1, <3>1, SubSeqProperties
  <2>2. /\ Len(b) = (IF i <= n THEN n - i + 1 ELSE 0)
        /\ \A j \in 1..(n - i + 1) : b[j] = s[i + j - 1]
        /\ b \in Seq(W)
    <3>1. \A j \in i..n : s[j] \in W
      BY <1>1
    <3>2. QED
      BY <1>1, <3>1, SubSeqProperties
  <2> HIDE DEF a, b
  <2>3. QED
    BY <1>1, <2>1, <2>2
<1>3. InsertAt(s, i, e) = (a \o <<e>>) \o b
  BY DEF InsertAt
<1> HIDE DEF a, b, n
<1> DEFINE c == a \o <<e>>
<1>4. c \in Seq(W) /\ Len(c) = i /\ \A j \in 1..i : c[j] = IF j < i THEN s[j] ELSE e
  <2>0. <<e>> \in Seq(W) /\ Len(<<e>>) = 1 /\ <<e>>[1] = e
    OBVIOUS
  <2>1. /\ c \in Seq(W) /\ Len(c) = Len(a) + Len(<<e>>)
        /\ \A j \in 1..(Len(a) + Len(<<e>>)) : c[j] = IF j <= Len(a) THEN a[j] ELSE <<e>>[j - Len(a)]
    BY <1>2, <2>0, ConcatProperties
  <2> HIDE DEF c
  <2>2. Len(c) = i
    BY <1>1, <1>2, <2>0, <2>1
  <2>3. ASSUME NEW j \in 1..i PROVE c[j] = IF j < i THEN s[j] ELSE e
    <3>1. CASE j < i
      <4>1. j \in 1..(i - 1) /\ j <= i - 1
        BY <1>1, <3>1
      <4>2. QED
        BY <1>1, <1>2, <2>0, <2>1, <3>1, <4>1
    <3>2. CASE j = i
      <4>1. j - (i - 1) = 1 /\ ~ (j <= i - 1) /\ j \in 1..((i - 1) + 1)
        BY <1>1, <3>2
      <4>2. QED
        BY <1>1, <1>2, <2>0, <2>1, <3>2, <4>1
    <3>3. QED
      BY <1>1, <3>1, <3>2
  <2>4. QED
    BY <2>1, <2>2, <2>3
<1> HIDE DEF c
<1>5. /\ c \o b \in Seq(W) /\ Len(c \o b) = n + 1
      /\ \A j \in 1..(n + 1) : (c \o b)[j] = IF j <= i THEN c[j] ELSE b[j - i]
  <2>1. /\ c \o b \in Seq(W) /\ Len(c \o b) = Len(c) + Len(b)
        /\ \A j \in 1..(Len(c) + Len(b)) : (c \o b)[j] = IF j <= Len(c) THEN c[j] ELSE b[j - Len(c)]
    BY <1>2, <1>4, ConcatProperties
  <2>2. QED
    BY <1>1, <1>2, <1>4, <2>1
<1>6. ASSUME NEW j \in 1..(n + 1)
      PROVE  (c \o b)[j] = IF j < i THEN s[j] ELSE IF j = i THEN e ELSE s[j - 1]
  <2>1. CASE j <= i
    <3>1. j \in 1..i
      BY <1>1, <2>1
    <3>2. QED
      BY <1>1, <1>4, <1>5, <2>1, <3>1
  <2>2. CASE ~ (j <= i)
    <3>1. j - i \in 1..((n - i) + 1) /\ (i + (j - i)) - 1 = j - 1 /\ ~ (j < i) /\ j # i
      BY <1>1, <2>2
    <3>2. b[j - i] = s[j - 1]
      BY <1>2, <3>1
    <3>3. QED
      BY <1>5, <2>2, <3>1, <3>2
  <2>3. QED
    BY <2>1, <2>2
<1>7. InsertAt(s, i, e) = c \o b
  BY <1>3 DEF c
<1>8. QED
  BY <1>5, <1>6, <1>7 DEF n

(* Hits are documents, each at most once.                                  *)
Distinct(h) ==
    h \in Seq(Docs) /\ \A i, j \in 1..Len(h) : h[i] = h[j] => i = j

LEMMA Positions ==
    ASSUME NEW h \in Seq(Docs), NEW d
    PROVE  /\ PositionOf(h, d) \in 0..Len(h)
           /\ PositionOf(h, d) = 0 <=> \A i \in 1..Len(h) : h[i] # d
           /\ PositionOf(h, d) # 0 => h[PositionOf(h, d)] = d
           /\ d \in ToSet(h) <=> PositionOf(h, d) # 0
<1> DEFINE T == {i \in 1..Len(h) : h[i] = d}
<1>1. PositionOf(h, d) = IF T # {} THEN Min(T) ELSE 0
  BY DEF PositionOf, SelectInSeq
<1>2. T # {} => Min(T) \in T
  <2> SUFFICES ASSUME T # {} PROVE Min(T) \in T
    OBVIOUS
  <2>1. T \in SUBSET Nat
    OBVIOUS
  <2> HIDE DEF T
  <2>2. \E m \in T : \A k \in T : m <= k
    BY <2>1, LeastNumber
  <2>3. QED
    BY <2>2 DEF Min
<1>3. DOMAIN h = 1..Len(h)
  OBVIOUS
<1>4. d \in ToSet(h) <=> T # {}
  BY <1>3 DEF ToSet
<1>5. T \subseteq 1..Len(h) /\ 0 \notin T /\ Len(h) \in Nat /\ (T = {} <=> \A i \in 1..Len(h) : h[i] # d)
      /\ \A i \in T : h[i] = d
  OBVIOUS
<1> HIDE DEF T
<1>6. CASE T = {}
  BY <1>1, <1>4, <1>5, <1>6
<1>7. CASE T # {}
  <2>1. PICK at \in T : at = PositionOf(h, d)
    BY <1>1, <1>2, <1>7
  <2>2. at \in 0..Len(h) /\ at # 0 /\ h[at] = d
    BY <1>5
  <2>3. QED
    BY <1>4, <1>5, <1>7, <2>1, <2>2
<1>8. QED
  BY <1>6, <1>7

LEMMA PositionIs ==
    ASSUME NEW h, Distinct(h), NEW i \in 1..Len(h)
    PROVE  PositionOf(h, h[i]) = i
<1>1. PositionOf(h, h[i]) # 0 /\ h[PositionOf(h, h[i])] = h[i] /\ PositionOf(h, h[i]) \in 1..Len(h)
  <2>0. h \in Seq(Docs) /\ Len(h) \in Nat
    BY DEF Distinct
  <2>1. PositionOf(h, h[i]) # 0 /\ PositionOf(h, h[i]) \in 0..Len(h) /\ h[PositionOf(h, h[i])] = h[i]
    BY <2>0, Positions
  <2>2. QED
    BY <2>0, <2>1
<1>2. QED
  BY <1>1 DEF Distinct
-----------------------------------------------------------------------------
(* Sorting: of places in a strict total order, each gets one turn, and      *)
(* whoever is ahead has the earlier one.                                   *)

Total(n, ahead) ==
    /\ \A i \in 1..n : <<i, i>> \notin ahead
    /\ \A i, j \in 1..n : i = j \/ <<i, j>> \in ahead \/ <<j, i>> \in ahead
    /\ \A i, j, k \in 1..n : <<i, j>> \in ahead /\ <<j, k>> \in ahead => <<i, k>> \in ahead

Turns(n, order) ==
    /\ order = [k \in 1..n |-> order[k]]
    /\ \A k \in 1..n : order[k] \in 1..n
    /\ \A k, l \in 1..n : order[k] = order[l] => k = l
    /\ \A i \in 1..n : \E k \in 1..n : order[k] = i

LEMMA SortedTurns ==
    ASSUME NEW n \in Nat, NEW ahead, Total(n, ahead)
    PROVE  /\ Turns(n, Sorted(n, ahead))
           /\ \A k, l \in 1..n : k < l => <<Sorted(n, ahead)[k], Sorted(n, ahead)[l]>> \in ahead
<1> DEFINE before(i) == {j \in 1..n : <<j, i>> \in ahead}
           place(i) == Cardinality(before(i)) + 1
           S == Sorted(n, ahead)
<1>1. IsFiniteSet(1..n) /\ Cardinality(1..n) = n
  BY FS_Interval
<1>2. ASSUME NEW i \in 1..n
      PROVE  IsFiniteSet(before(i)) /\ Cardinality(before(i)) \in Nat /\ place(i) \in 1..n
  <2>1. before(i) \in SUBSET (1..n) /\ before(i) # 1..n
    BY DEF Total
  <2>2. IsFiniteSet(before(i)) /\ Cardinality(before(i)) \in Nat
        /\ Cardinality(before(i)) <= n /\ Cardinality(before(i)) # n
    <3> HIDE DEF before
    <3>1. QED
      BY <1>1, <2>1, FS_Subset, FS_CardinalityType
  <2> HIDE DEF before
  <2>3. QED
    BY <2>2
<1>3. ASSUME NEW i \in 1..n, NEW j \in 1..n, <<i, j>> \in ahead PROVE place(i) < place(j)
  <2>1. before(i) \in SUBSET before(j) /\ i \in before(j) /\ i \notin before(i)
    BY <1>3 DEF Total
  <2>2. Cardinality(before(i)) <= Cardinality(before(j))
        /\ Cardinality(before(i)) # Cardinality(before(j))
    <3>1. IsFiniteSet(before(j))
      BY <1>2
    <3> HIDE DEF before
    <3>2. QED
      BY <2>1, <3>1, FS_Subset
  <2>3. Cardinality(before(i)) \in Nat /\ Cardinality(before(j)) \in Nat
    BY <1>2
  <2> HIDE DEF before
  <2>4. QED
    BY <2>2, <2>3
<1> HIDE DEF before
<1>4. ASSUME NEW i \in 1..n, NEW j \in 1..n, place(i) = place(j) PROVE i = j
  <2>1. place(i) \in 1..n /\ place(j) \in 1..n
    BY <1>2
  <2> HIDE DEF place
  <2>2. <<i, j>> \notin ahead /\ <<j, i>> \notin ahead
    BY <1>3, <1>4, <2>1
  <2>3. QED
    BY <2>2 DEF Total
<1>5. \A k \in 1..n : \E i \in 1..n : place(i) = k
  <2> DEFINE T == 1..n
             p == [i \in T |-> place(i)]
  <2>1. p \in Injection(T, T)
    <3>1. p \in [T -> T]
      BY <1>2
    <3>2. \A i, j \in T : p[i] = p[j] => i = j
      BY <1>4
    <3>3. QED
      BY <3>1, <3>2 DEF Injection, IsInjective
  <2>2. p \in Surjection(T, T)
    <3> HIDE DEF p
    <3>1. QED
      BY <1>1, <2>1, FS_Injection
  <2>3. QED
    BY <2>2 DEF Surjection
<1>6. S = [k \in 1..n |-> CHOOSE i \in 1..n : place(i) = k]
  BY DEF Sorted, before
<1> HIDE DEF place, S
<1>7. ASSUME NEW k \in 1..n PROVE S[k] \in 1..n /\ place(S[k]) = k
  BY <1>5, <1>6
<1>8. ASSUME NEW i \in 1..n PROVE \E k \in 1..n : S[k] = i
  <2>1. PICK k \in 1..n : k = place(i)
    BY <1>2 DEF place
  <2>2. S[k] \in 1..n /\ place(S[k]) = place(i)
    BY <1>7, <2>1
  <2>3. QED
    BY <1>4, <2>2
<1>9. ASSUME NEW k \in 1..n, NEW l \in 1..n, k < l PROVE <<S[k], S[l]>> \in ahead
  <2>1. S[k] \in 1..n /\ S[l] \in 1..n /\ place(S[k]) = k /\ place(S[l]) = l
    BY <1>7
  <2>2. S[k] # S[l] /\ ~ (l < k) /\ k # l
    BY <1>9, <2>1
  <2>3. <<S[l], S[k]>> \notin ahead
    BY <1>3, <2>1, <2>2
  <2>4. QED
    BY <2>1, <2>2, <2>3 DEF Total
<1>10. \A k, l \in 1..n : S[k] = S[l] => k = l
  BY <1>7
<1>11. S = [k \in 1..n |-> S[k]]
  BY <1>6
<1>12. Turns(n, S)
  BY <1>7, <1>8, <1>10, <1>11 DEF Turns
<1>13. QED
  BY <1>9, <1>12 DEF S

(* The pins in their order are the same pins.                              *)
Pins == [doc : Docs, position : Nat \cup {Buried}]

LEMMA PinsInOrder ==
    ASSUME NEW ps \in Seq(Pins)
    PROVE  \E order :
             /\ Turns(Len(ps), order)
             /\ InPinOrder(ps) \in Seq(Pins) /\ Len(InPinOrder(ps)) = Len(ps)
             /\ \A i \in 1..Len(ps) : InPinOrder(ps)[i] = ps[order[i]]
             /\ \A i, j \in 1..Len(ps) : i < j => PinAhead(ps, order[i], order[j])
<1> DEFINE n == Len(ps)
           ahead == {x \in (1..n) \X (1..n) : PinAhead(ps, x[1], x[2])}
           order == Sorted(n, ahead)
<1>1. n \in Nat /\ DOMAIN ps = 1..n
  OBVIOUS
<1>2. \A i, j \in 1..n : <<i, j>> \in ahead <=> PinAhead(ps, i, j)
  OBVIOUS
<1>3. \A i \in 1..n : ps[i].position \in Nat \cup {-1}
  <2>1. \A i \in 1..n : ps[i] \in Pins
    OBVIOUS
  <2>2. QED
    BY <2>1 DEF Pins, Buried
<1>4. InPinOrder(ps) = [i \in 1..n |-> ps[order[i]]]
  BY <1>1 DEF InPinOrder
<1> HIDE DEF ahead
<1>5. Total(n, ahead)
  <2>1. \A i \in 1..n : ~PinAhead(ps, i, i)
    BY <1>3 DEF PinAhead, Buried
  <2>2. \A i, j \in 1..n : i = j \/ PinAhead(ps, i, j) \/ PinAhead(ps, j, i)
    BY <1>1, <1>3 DEF PinAhead, Buried
  <2>3. ASSUME NEW i \in 1..n, NEW j \in 1..n, NEW k \in 1..n,
               PinAhead(ps, i, j), PinAhead(ps, j, k)
        PROVE  PinAhead(ps, i, k)
    BY <1>1, <1>3, <2>3 DEF PinAhead, Buried
  <2>4. QED
    BY <1>2, <2>1, <2>2, <2>3 DEF Total
<1>6. Turns(n, order) /\ \A k, l \in 1..n : k < l => <<order[k], order[l]>> \in ahead
  BY <1>1, <1>5, SortedTurns
<1> HIDE DEF order, n
<1>7. \A k, l \in 1..n : k < l => PinAhead(ps, order[k], order[l])
  BY <1>2, <1>6 DEF Turns
<1>8. \A i \in 1..n : ps[order[i]] \in Pins
  BY <1>6 DEF Turns, n
<1>9. InPinOrder(ps) \in Seq(Pins) /\ Len(InPinOrder(ps)) = n
      /\ \A i \in 1..n : InPinOrder(ps)[i] = ps[order[i]]
  BY <1>1, <1>4, <1>8
<1>10. QED
  BY <1>6, <1>7, <1>9 DEF n
-----------------------------------------------------------------------------
(* One pin: every other hit comes from a place of its own.                 *)

From(at, to, j) ==
    LET left == IF j < to THEN j ELSE j - 1
    IN  IF at = 0 \/ left < at THEN left ELSE left + 1

(* The list g is h with the element at place at, if any, moved to place to. *)
Moves(h, g, at, to) ==
    /\ at \in 0..Len(h)
    /\ Len(g) = Len(h) + (IF at = 0 THEN 1 ELSE 0) /\ to \in 1..Len(g)
    /\ \A j \in 1..Len(g) : j # to =>
        /\ From(at, to, j) \in 1..Len(h) /\ From(at, to, j) # at
        /\ g[j] = h[From(at, to, j)]

Places(n, m, at, to) ==
    /\ n \in Nat /\ m \in Nat /\ at \in 0..n
    /\ m = n + (IF at = 0 THEN 1 ELSE 0) /\ to \in 1..m

LEMMA FromPlace ==
    ASSUME NEW n, NEW m, NEW at, NEW to, Places(n, m, at, to)
    PROVE  /\ \A j \in 1..m : j # to => From(at, to, j) \in 1..n /\ From(at, to, j) # at
           /\ \A i \in 1..n : i # at => \E j \in 1..m : j # to /\ From(at, to, j) = i
           /\ \A i, j \in 1..m : i # to /\ j # to /\ From(at, to, i) = From(at, to, j) => i = j
<1>1. ASSUME NEW j \in 1..m, j # to PROVE From(at, to, j) \in 1..n /\ From(at, to, j) # at
  BY <1>1 DEF From, Places
<1>2. ASSUME NEW i \in 1..n, i # at PROVE \E j \in 1..m : j # to /\ From(at, to, j) = i
  <2>1. PICK l \in Int : l = IF at = 0 \/ i < at THEN i ELSE i - 1
    BY DEF Places
  <2>2. PICK j \in Int : j = IF l < to THEN l ELSE l + 1
    BY <2>1
  <2>3. j \in 1..m /\ j # to
    BY <1>2, <2>1, <2>2 DEF Places
  <2>4. (IF j < to THEN j ELSE j - 1) = l
    BY <2>1, <2>2 DEF Places
  <2>5. From(at, to, j) = i
    BY <1>2, <2>1, <2>4 DEF From, Places
  <2>6. QED
    BY <2>3, <2>5
<1>3. ASSUME NEW i \in 1..m, NEW j \in 1..m, i # to, j # to, From(at, to, i) = From(at, to, j)
      PROVE  i = j
  BY <1>3 DEF From, Places
<1>4. QED
  BY <1>1, <1>2, <1>3

(* A list whose element at place at is taken out, and e put in at to.      *)
Without(s, at) == IF at = 0 THEN s ELSE RemoveAt(s, at)

MoveType(W, s, at, to, e) ==
    /\ s \in Seq(W) /\ at \in 0..Len(s) /\ e \in W
    /\ to \in 1..(Len(s) + (IF at = 0 THEN 1 ELSE 0))

LEMMA MovedList ==
    ASSUME NEW W, NEW s, NEW at, NEW to, NEW e, MoveType(W, s, at, to, e)
    PROVE  /\ Without(s, at) \in Seq(W) /\ Len(Without(s, at)) = Len(s) - (IF at = 0 THEN 0 ELSE 1)
           /\ InsertAt(Without(s, at), to, e) \in Seq(W)
           /\ InsertAt(Without(s, at), to, e)[to] = e
           /\ Moves(s, InsertAt(Without(s, at), to, e), at, to)
<1> PICK left : left = Without(s, at)
  OBVIOUS
<1> DEFINE g == InsertAt(left, to, e)
<1>1. s \in Seq(W) /\ Len(s) \in Nat /\ at \in 0..Len(s) /\ e \in W
      /\ to \in 1..(Len(s) + (IF at = 0 THEN 1 ELSE 0))
  BY DEF MoveType
<1>0. left = (IF at = 0 THEN s ELSE RemoveAt(s, at))
  BY DEF Without
<1>2. /\ left \in Seq(W) /\ Len(left) = Len(s) - (IF at = 0 THEN 0 ELSE 1)
      /\ \A j \in 1..Len(left) : left[j] = s[IF at = 0 \/ j < at THEN j ELSE j + 1]
  <2>1. CASE at = 0
    BY <1>0, <1>1, <2>1
  <2>2. CASE at # 0
    <3>1. /\ RemoveAt(s, at) \in Seq(W) /\ Len(RemoveAt(s, at)) = Len(s) - 1
          /\ \A j \in 1..(Len(s) - 1) :
               RemoveAt(s, at)[j] = IF j < at THEN s[j] ELSE s[j + 1]
      <4>1. at \in 1..Len(s)
        BY <1>1, <2>2
      <4>2. QED
        BY <1>1, <4>1, TakenOut, Zenon
    <3>2. left = RemoveAt(s, at)
      BY <1>0, <2>2
    <3> HIDE DEF g
    <3>3. QED
      BY <1>1, <2>2, <3>1, <3>2
  <2>3. QED
    BY <2>1, <2>2
<1>3. /\ g \in Seq(W) /\ Len(g) = Len(left) + 1
      /\ \A j \in 1..(Len(left) + 1) :
            g[j] = IF j < to THEN left[j] ELSE IF j = to THEN e ELSE left[j - 1]
  <2>1. left \in Seq(W) /\ to \in 1..(Len(left) + 1) /\ e \in W
    BY <1>1, <1>2
  <2>2. \A t \in Seq(W) : \A i \in 1..(Len(t) + 1) : \A x \in W :
          /\ InsertAt(t, i, x) \in Seq(W) /\ Len(InsertAt(t, i, x)) = Len(t) + 1
          /\ \A j \in 1..(Len(t) + 1) :
               InsertAt(t, i, x)[j] = IF j < i THEN t[j] ELSE IF j = i THEN x ELSE t[j - 1]
    BY PutIn
  <2> HIDE DEF g
  <2>3. \A i \in 1..(Len(left) + 1) : \A x \in W :
          /\ InsertAt(left, i, x) \in Seq(W) /\ Len(InsertAt(left, i, x)) = Len(left) + 1
          /\ \A j \in 1..(Len(left) + 1) :
               InsertAt(left, i, x)[j] = IF j < i THEN left[j] ELSE IF j = i THEN x ELSE left[j - 1]
    <3>1. left \in Seq(W)
      BY <2>1
    <3> HIDE <2>1
    <3>2. QED
      BY <3>1, <2>2, Zenon
  <2>4. g = InsertAt(left, to, e)
    BY DEF g
  <2>5. QED
    BY <2>1, <2>3, <2>4
<1> HIDE DEF g
<1>4. Len(g) \in Nat /\ Len(g) = Len(s) + (IF at = 0 THEN 1 ELSE 0) /\ to \in 1..Len(g)
      /\ g[to] = e
  BY <1>1, <1>2, <1>3
<1>5. ASSUME NEW j \in 1..Len(g), j # to
      PROVE  /\ From(at, to, j) \in 1..Len(s) /\ From(at, to, j) # at
             /\ g[j] = s[From(at, to, j)]
  <2>0. PICK n \in Nat, m \in Nat : n = Len(s) /\ m = Len(g)
    BY <1>1, <1>4
  <2>1. From(at, to, j) \in 1..Len(s) /\ From(at, to, j) # at
    <3>1. Places(n, m, at, to) /\ j \in 1..m
      BY <1>1, <1>4, <2>0 DEF Places
    <3>2. From(at, to, j) \in 1..n /\ From(at, to, j) # at
      BY <1>5, <3>1, FromPlace
    <3>3. QED
      BY <2>0, <3>2
  <2>2. PICK l \in Int : l = IF j < to THEN j ELSE j - 1
    OBVIOUS
  <2>3. l \in 1..Len(left) /\ g[j] = left[l]
    BY <1>1, <1>2, <1>3, <1>4, <1>5, <2>2
  <2>4. g[j] = s[IF at = 0 \/ l < at THEN l ELSE l + 1]
    BY <1>2, <2>3
  <2>5. QED
    BY <2>1, <2>2, <2>4 DEF From
<1>6. QED
  BY <1>1, <1>2, <1>3, <1>4, <1>5 DEF Moves, g

LEMMA MovedHits ==
    ASSUME NEW h, Distinct(h), NEW g \in Seq(Docs), NEW d \in Docs, NEW at, NEW to,
           Moves(h, g, at, to), at = PositionOf(h, d), g[to] = d
    PROVE  Distinct(g) /\ ToSet(g) = ToSet(h) \cup {d}
<1>1. /\ h \in Seq(Docs) /\ Len(h) \in Nat /\ Len(g) \in Nat
      /\ at \in 0..Len(h) /\ to \in 1..Len(g)
      /\ Len(g) = Len(h) + (IF at = 0 THEN 1 ELSE 0)
      /\ \A j \in 1..Len(g) : j # to =>
           /\ From(at, to, j) \in 1..Len(h) /\ From(at, to, j) # at
           /\ g[j] = h[From(at, to, j)]
  BY DEF Distinct, Moves
<1> PICK n \in Nat, m \in Nat : n = Len(h) /\ m = Len(g)
  BY <1>1
<1>0. Places(n, m, at, to)
  BY <1>1 DEF Places
<1>2. \A i \in 1..Len(h) : h[i] = d => i = at
  BY <1>1, PositionIs
<1>3. at # 0 => h[at] = d
  BY <1>1, Positions
<1>4. ASSUME NEW i \in 1..Len(g), NEW j \in 1..Len(g), g[i] = g[j] PROVE i = j
  <2>1. \A l \in 1..Len(g) : l # to => g[l] # d
    BY <1>1, <1>2
  <2>2. CASE i = to \/ j = to
    BY <1>4, <2>1, <2>2
  <2>3. CASE i # to /\ j # to
    <3>1. From(at, to, i) = From(at, to, j)
      BY <1>1, <1>4, <2>3 DEF Distinct
    <3>2. QED
      <4>1. i \in 1..m /\ j \in 1..m
        OBVIOUS
      <4>2. QED
        BY <1>0, <2>3, <3>1, <4>1, FromPlace
  <2>4. QED
    BY <2>2, <2>3
<1>5. DOMAIN g = 1..Len(g) /\ DOMAIN h = 1..Len(h)
  BY <1>1
<1>6. ASSUME NEW x \in ToSet(g) PROVE x \in ToSet(h) \cup {d}
  <2>1. PICK j \in 1..Len(g) : x = g[j]
    BY <1>5 DEF ToSet
  <2>2. QED
    BY <1>1, <1>5, <2>1 DEF ToSet
<1>7. ASSUME NEW x \in ToSet(h) PROVE x \in ToSet(g)
  <2>1. PICK i \in 1..Len(h) : x = h[i]
    BY <1>5 DEF ToSet
  <2>2. CASE i = at
    BY <1>1, <1>3, <1>5, <2>1, <2>2 DEF ToSet
  <2>3. CASE i # at
    <3>1. PICK j \in 1..Len(g) : j # to /\ From(at, to, j) = i
      <4>1. i \in 1..n
        OBVIOUS
      <4>2. \E j \in 1..m : j # to /\ From(at, to, j) = i
        BY <1>0, <2>3, <4>1, FromPlace
      <4>3. QED
        BY <4>2
    <3>2. QED
      BY <1>1, <1>5, <2>1, <3>1 DEF ToSet
  <2>4. QED
    BY <2>2, <2>3
<1>8. d \in ToSet(g)
  BY <1>1, <1>5 DEF ToSet
<1>9. QED
  BY <1>4, <1>6, <1>7, <1>8 DEF Distinct
Scores == Seq(Int \cup {NoScore})

(* A page of hits, their scores or none, and a total.                      *)
PageType(r) ==
    /\ r = Result(r.hits, r.scores, r.total)
    /\ Distinct(r.hits) /\ r.scores \in Scores /\ Len(r.scores) \in {0, Len(r.hits)}
    /\ r.total \in Nat

(* Where ApplyPin puts the document of a pin that was at place at of n.    *)
Target(n, at, p) ==
    LET m == IF at = 0 THEN n ELSE n - 1
    IN  IF p = Buried \/ p > m THEN m + 1 ELSE p + 1

TargetType(n, at, p) == n \in Nat /\ at \in 0..n /\ p \in Nat \cup {Buried}

LEMMA TargetPlace ==
    ASSUME NEW n, NEW at, NEW p, TargetType(n, at, p)
    PROVE  Target(n, at, p) \in 1..(n + (IF at = 0 THEN 1 ELSE 0))
BY DEF Target, TargetType, Buried

(* The hits and the total after one pin.                                   *)
LEMMA PinnedHits ==
    ASSUME NEW r, PageType(r), NEW pin \in Pins,
           NEW at, at = PositionOf(r.hits, pin.doc),
           NEW to, to = Target(Len(r.hits), at, pin.position)
    PROVE  LET new == ApplyPin(r, pin)
           IN  /\ new = Result(new.hits, new.scores, new.total)
               /\ new.hits \in Seq(Docs) /\ new.hits[to] = pin.doc
               /\ Moves(r.hits, new.hits, at, to)
               /\ new.total = r.total + (IF at = 0 THEN 1 ELSE 0)
<1> DEFINE left == IF at = 0 THEN r.hits ELSE RemoveAt(r.hits, at)
           new == ApplyPin(r, pin)
           place == IF pin.position = Buried \/ pin.position > Len(left)
                    THEN Len(left) + 1 ELSE pin.position + 1
<1>1. /\ r.hits \in Seq(Docs) /\ Len(r.hits) \in Nat /\ at \in 0..Len(r.hits)
      /\ pin.doc \in Docs /\ pin.position \in Nat \cup {Buried}
  <2>1. r.hits \in Seq(Docs) /\ Len(r.hits) \in Nat
    BY DEF PageType, Distinct
  <2>2. QED
    BY <2>1, Positions DEF Pins
<1>2. new = Result(InsertAt(left, place, pin.doc), new.scores,
                   r.total + (IF at = 0 THEN 1 ELSE 0))
  BY DEF ApplyPin, Result
<1>3. new.hits = InsertAt(left, place, pin.doc) /\ new.total = r.total + (IF at = 0 THEN 1 ELSE 0)
      /\ new = Result(new.hits, new.scores, new.total)
  BY <1>2 DEF Result
<1>4. PICK h, d : h = r.hits /\ d = pin.doc
  OBVIOUS
<1>5. left = Without(h, at)
  BY <1>4 DEF Without
<1>6. MoveType(Docs, h, at, to, d)
  <2>1. PICK n, p : n = Len(h) /\ p = pin.position
    OBVIOUS
  <2>2. TargetType(n, at, p) /\ to = Target(n, at, p)
    BY <1>1, <1>4, <2>1 DEF TargetType
  <2>3. to \in 1..(n + (IF at = 0 THEN 1 ELSE 0))
    BY <2>2, TargetPlace
  <2>4. QED
    BY <1>1, <1>4, <2>1, <2>3 DEF MoveType
<1>7. /\ Len(Without(h, at)) = Len(h) - (IF at = 0 THEN 0 ELSE 1)
      /\ InsertAt(Without(h, at), to, d) \in Seq(Docs) /\ InsertAt(Without(h, at), to, d)[to] = d
      /\ Moves(h, InsertAt(Without(h, at), to, d), at, to)
  BY <1>6, MovedList
<1>8. place = to
  BY <1>1, <1>4, <1>5, <1>7 DEF Target
<1> HIDE DEF place, left, new
<1>9. new.hits = InsertAt(Without(h, at), to, d)
  BY <1>3, <1>4, <1>5, <1>8
<1>10. QED
  BY <1>3, <1>4, <1>7, <1>9 DEF new

(* The page's only hit is d.                                               *)
Alone(h, d) == Len(h) = 1 /\ h[1] = d

(* The scores after one pin: none are left if it took the only hit.        *)
LEMMA PinnedScores ==
    ASSUME NEW r, PageType(r), NEW pin \in Pins,
           NEW at, at = PositionOf(r.hits, pin.doc),
           NEW to, to = Target(Len(r.hits), at, pin.position)
    PROVE  LET sc == ApplyPin(r, pin).scores
           IN  /\ sc \in Scores
               /\ sc = <<>> <=> r.scores = <<>> \/ Alone(r.hits, pin.doc)
               /\ \/ sc = <<>>
                  \/ /\ Len(r.scores) = Len(r.hits) /\ Moves(r.scores, sc, at, to)
                     /\ sc[to] = IF at = 0 THEN NoScore ELSE r.scores[at]
<1> DEFINE sc == ApplyPin(r, pin).scores
           scoredHit == at \in DOMAIN r.scores
           left == IF scoredHit THEN RemoveAt(r.scores, at) ELSE r.scores
           hits == IF at = 0 THEN r.hits ELSE RemoveAt(r.hits, at)
           place == IF pin.position = Buried \/ pin.position > Len(hits)
                    THEN Len(hits) + 1 ELSE pin.position + 1
           own == IF scoredHit THEN r.scores[at] ELSE NoScore
<1>1. /\ r.hits \in Seq(Docs) /\ Len(r.hits) \in Nat /\ at \in 0..Len(r.hits)
      /\ r.scores \in Scores /\ Len(r.scores) \in {0, Len(r.hits)}
      /\ pin.doc \in Docs /\ pin.position \in Nat \cup {Buried}
  <2>1. r.hits \in Seq(Docs) /\ Len(r.hits) \in Nat
    BY DEF PageType, Distinct
  <2>2. QED
    BY <2>1, Positions DEF PageType, Pins
<1>2. sc = IF left = <<>> THEN <<>> ELSE InsertAt(left, place, own)
  BY DEF ApplyPin, Result
<1> HIDE DEF sc
<1>3. PICK n, h, p, s, d : n = Len(h) /\ h = r.hits /\ p = pin.position /\ s = r.scores
                           /\ d = pin.doc
  OBVIOUS
<1>4. to \in 1..(n + (IF at = 0 THEN 1 ELSE 0)) /\ to = Target(n, at, p)
  <2>1. TargetType(n, at, p) /\ to = Target(n, at, p)
    BY <1>1, <1>3 DEF TargetType
  <2>2. QED
    BY <2>1, TargetPlace
<1>5. hits = Without(h, at)
  BY <1>3 DEF Without
<1>6. Len(Without(h, at)) = n - (IF at = 0 THEN 0 ELSE 1)
  <2>1. MoveType(Docs, h, at, to, d)
    BY <1>1, <1>3, <1>4 DEF MoveType
  <2>2. QED
    BY <1>3, <2>1, MovedList
<1>7. place = to
  BY <1>1, <1>3, <1>4, <1>5, <1>6 DEF Target
<1> HIDE DEF place, hits
<1>8. CASE s = <<>>
  <2>1. left = <<>>
    BY <1>3, <1>8
  <2>2. sc = <<>>
    BY <1>2, <2>1
  <2>3. <<>> \in Scores
    BY DEF Scores
  <2>4. QED
    BY <1>3, <1>8, <2>2, <2>3 DEF sc
<1>9. CASE s # <<>>
  <2>1. Len(s) = n /\ DOMAIN s = 1..n /\ n \in Nat /\ at \in 0..n /\ s \in Seq(Int \cup {NoScore})
    BY <1>1, <1>3, <1>9 DEF Scores
  <2>2. scoredHit <=> at # 0
    BY <1>3, <2>1
  <2>3. PICK e : e = own
    OBVIOUS
  <2>4. left = Without(s, at) /\ e = (IF at = 0 THEN NoScore ELSE s[at])
    BY <1>3, <2>2, <2>3 DEF Without
  <2>5. sc = IF Without(s, at) = <<>> THEN <<>> ELSE InsertAt(Without(s, at), to, e)
    BY <1>2, <1>7, <2>3, <2>4
  <2> HIDE DEF left, own, scoredHit
  <2>6. e \in Int \cup {NoScore}
    BY <2>1, <2>4
  <2>7. MoveType(Int \cup {NoScore}, s, at, to, e)
    BY <1>4, <2>1, <2>6 DEF MoveType
  <2>8. InsertAt(Without(s, at), to, e) \in Scores /\ InsertAt(Without(s, at), to, e)[to] = e
        /\ Moves(s, InsertAt(Without(s, at), to, e), at, to)
    BY <2>7, MovedList DEF Scores
  <2>9. <<>> \in Scores
    BY DEF Scores
  <2>12. Without(s, at) = <<>> <=> Alone(h, d)
    <3>1. Without(s, at) \in Seq(Int \cup {NoScore})
          /\ Len(Without(s, at)) = n - (IF at = 0 THEN 0 ELSE 1)
      BY <2>1, <2>7, MovedList
    <3>2. n # 0
      BY <1>9, <2>1
    <3>3. \A w \in Seq(Int \cup {NoScore}) : w = <<>> <=> Len(w) = 0
      OBVIOUS
    <3>4. Without(s, at) = <<>> <=> Len(Without(s, at)) = 0
      BY <3>1, <3>3
    <3>5. Without(s, at) = <<>> <=> n = 1 /\ at # 0
      BY <2>1, <3>1, <3>2, <3>4
    <3>6. /\ h \in Seq(Docs) /\ at = PositionOf(h, d)
          /\ (at = 0 <=> \A j \in 1..n : h[j] # d) /\ (at # 0 => h[at] = d)
      BY <1>1, <1>3, Positions
    <3>7. n = 1 => (at # 0 <=> h[1] = d)
      BY <2>1, <3>6
    <3>8. QED
      BY <1>3, <3>5, <3>7 DEF Alone
  <2>13. InsertAt(Without(s, at), to, e) # <<>>
    <3>1. Len(InsertAt(Without(s, at), to, e)) = Len(s) + (IF at = 0 THEN 1 ELSE 0)
      BY <2>8 DEF Moves
    <3>2. Len(s) # 0
      BY <1>9, <2>1
    <3>3. Len(<<>>) = 0
      OBVIOUS
    <3>4. QED
      BY <2>1, <3>1, <3>2, <3>3
  <2>10. /\ sc \in Scores
         /\ sc = <<>> <=> Alone(h, d)
         /\ \/ sc = <<>>
            \/ Len(s) = n /\ Moves(s, sc, at, to) /\ sc[to] = IF at = 0 THEN NoScore ELSE s[at]
    <3>1. CASE Without(s, at) = <<>>
      BY <2>5, <2>9, <2>12, <3>1
    <3>2. CASE Without(s, at) # <<>>
      BY <2>1, <2>4, <2>5, <2>8, <2>12, <2>13, <3>2
    <3>3. QED
      BY <3>1, <3>2
  <2>11. QED
    BY <1>3, <1>9, <2>10 DEF sc
<1>10. QED
  BY <1>8, <1>9
-----------------------------------------------------------------------------
(* One pin after the other.                                                *)

(* Induction up to n, for the set T of the numbers where something holds.   *)
LEMMA UpTo ==
    ASSUME NEW n \in Nat, NEW T, 0 \in T, \A i \in 0..(n - 1) : i \in T => i + 1 \in T
    PROVE  \A i \in 0..n : i \in T
<1> DEFINE bad == {i \in 0..n : i \notin T}
<1> SUFFICES ASSUME bad # {} PROVE FALSE
  OBVIOUS
<1>1. PICK m \in bad : \A j \in bad : m <= j
  <2>1. bad \in SUBSET Nat
    OBVIOUS
  <2> HIDE DEF bad
  <2>2. QED
    BY <2>1, LeastNumber
<1>2. m \in 1..n /\ m - 1 \in 0..(n - 1) /\ m - 1 \in 0..n /\ ~ (m <= m - 1)
  OBVIOUS
<1>3. m - 1 \in T
  BY <1>1, <1>2
<1>4. (m - 1) + 1 \in T
  BY <1>2, <1>3
<1>5. QED
  BY <1>2, <1>4

Pinning(g, res, ps, n) ==
    g = [i \in 0..n |-> IF i = 0 THEN res ELSE ApplyPin(g[i - 1], ps[i])]

LEMMA PinningExists ==
    ASSUME NEW res, NEW ps, NEW n \in Nat
    PROVE  \E g : Pinning(g, res, ps, n)
<1> DEFINE T == {m \in Nat : \E g : Pinning(g, res, ps, m)}
<1>1. 0 \in T
  <2> DEFINE g == [i \in 0..0 |-> res]
  <2>1. Pinning(g, res, ps, 0)
    BY DEF Pinning
  <2>2. QED
    BY <2>1
<1>2. ASSUME NEW m \in 0..(n - 1), m \in T PROVE m + 1 \in T
  <2>1. PICK g : Pinning(g, res, ps, m)
    BY <1>2
  <2>2. PICK k \in Nat : k = m + 1
    OBVIOUS
  <2> DEFINE h == [i \in 0..k |-> IF i = k THEN ApplyPin(g[m], ps[k]) ELSE g[i]]
  <2>3. ASSUME NEW i \in 0..k PROVE h[i] = IF i = 0 THEN res ELSE ApplyPin(h[i - 1], ps[i])
    <3>1. CASE i = k
      BY <2>2, <3>1
    <3>2. CASE i # k
      <4>1. i \in 0..m /\ (i # 0 => i - 1 \in 0..k /\ i - 1 # k)
        BY <2>2, <3>2
      <4>2. QED
        BY <2>1, <3>2, <4>1 DEF Pinning
    <3>3. QED
      BY <3>1, <3>2
  <2>4. Pinning(h, res, ps, k)
    BY <2>3 DEF Pinning
  <2>5. QED
    BY <2>2, <2>4
<1> HIDE DEF T
<1>3. \A i \in 0..n : i \in T
  BY <1>1, <1>2, UpTo
<1>4. n \in T
  BY <1>3
<1>5. QED
  BY <1>4 DEF T

Stepwise(g, res, ps, n) ==
    /\ g[0] = res /\ g[n] = PinInTurn(res, ps)
    /\ \A i \in 1..n : g[i] = ApplyPin(g[i - 1], ps[i])

LEMMA PinningPins ==
    ASSUME NEW res, NEW ps, Len(ps) \in Nat
    PROVE  \E g : Stepwise(g, res, ps, Len(ps))
<1> PICK n \in Nat : n = Len(ps)
  OBVIOUS
<1> DEFINE c == CHOOSE g : Pinning(g, res, ps, n)
<1>1. Pinning(c, res, ps, n)
  BY PinningExists
<1>2. PinInTurn(res, ps) = c[n]
  BY DEF PinInTurn, Pinning
<1> HIDE DEF c
<1>3. c[0] = res /\ \A i \in 1..n : c[i] = ApplyPin(c[i - 1], ps[i])
  BY <1>1 DEF Pinning
<1>4. Stepwise(c, res, ps, Len(ps))
  BY <1>2, <1>3 DEF Stepwise
<1>5. QED
  BY <1>4

(* The score that the engine gave a document of its page.                  *)
Own(r0, d) ==
    LET at == PositionOf(r0.hits, d) IN IF at = 0 THEN NoScore ELSE r0.scores[at]

(* The page r is r0 with the documents of D pinned, by k rules.            *)
Pinned(r0, r, D, k) ==
    /\ PageType(r) /\ Len(r.hits) <= Len(r0.hits) + k
    /\ ToSet(r.hits) = ToSet(r0.hits) \cup D
    /\ r.total = r0.total + Cardinality(ToSet(r.hits) \ ToSet(r0.hits))
    /\ \A i \in 1..Len(r.scores) : r.scores[i] = Own(r0, r.hits[i])

LEMMA HitsFinite ==
    ASSUME NEW h \in Seq(Docs)
    PROVE  ToSet(h) \subseteq Docs /\ IsFiniteSet(ToSet(h)) /\ DOMAIN h = 1..Len(h)
<1>1. ToSet(h) \in SUBSET Docs /\ DOMAIN h = 1..Len(h)
  BY DEF ToSet
<1>2. QED
  BY <1>1, FS_Subset, MerchandisingAssumption

LEMMA PinStep ==
    ASSUME NEW r0, PageType(r0), NEW r, NEW D, NEW k \in Nat, Pinned(r0, r, D, k),
           NEW pin \in Pins
    PROVE  Pinned(r0, ApplyPin(r, pin), D \cup {pin.doc}, k + 1)
<1> PICK new : new = ApplyPin(r, pin)
  OBVIOUS
<1> PICK at, to : at = PositionOf(r.hits, pin.doc) /\ to = Target(Len(r.hits), at, pin.position)
  OBVIOUS
<1>1. /\ PageType(r) /\ Distinct(r.hits) /\ r.hits \in Seq(Docs) /\ pin.doc \in Docs
      /\ r.total \in Nat /\ Len(r.hits) \in Nat /\ Len(r0.hits) \in Nat
      /\ r0.hits \in Seq(Docs)
      /\ at \in 0..Len(r.hits)
      /\ Len(r.hits) <= Len(r0.hits) + k
      /\ ToSet(r.hits) = ToSet(r0.hits) \cup D
      /\ r.total = r0.total + Cardinality(ToSet(r.hits) \ ToSet(r0.hits))
      /\ \A i \in 1..Len(r.scores) : r.scores[i] = Own(r0, r.hits[i])
      /\ r0.total \in Nat
  <2>1. PageType(r) /\ Distinct(r.hits) /\ r.hits \in Seq(Docs) /\ pin.doc \in Docs
        /\ r.total \in Nat /\ Len(r.hits) \in Nat /\ Len(r0.hits) \in Nat
        /\ r0.hits \in Seq(Docs) /\ r0.total \in Nat
    BY DEF Pinned, PageType, Distinct, Pins
  <2>2. at \in 0..Len(r.hits)
    BY <2>1, Positions
  <2>3. QED
    BY <2>1, <2>2 DEF Pinned
<1>2. /\ new = Result(new.hits, new.scores, new.total)
      /\ new.hits \in Seq(Docs) /\ new.hits[to] = pin.doc
      /\ Moves(r.hits, new.hits, at, to)
      /\ new.total = r.total + (IF at = 0 THEN 1 ELSE 0)
  BY <1>1, PinnedHits
<1>3. Distinct(new.hits) /\ ToSet(new.hits) = ToSet(r.hits) \cup {pin.doc}
  <2> PICK h, g, d : h = r.hits /\ g = new.hits /\ d = pin.doc
    OBVIOUS
  <2>1. Distinct(h) /\ g \in Seq(Docs) /\ d \in Docs /\ Moves(h, g, at, to)
        /\ at = PositionOf(h, d) /\ g[to] = d
    BY <1>1, <1>2
  <2>2. Distinct(g) /\ ToSet(g) = ToSet(h) \cup {d}
    BY <2>1, MovedHits
  <2>3. QED
    BY <2>2
<1>4. Len(new.hits) \in Nat /\ Len(new.hits) = Len(r.hits) + (IF at = 0 THEN 1 ELSE 0)
      /\ to \in 1..Len(new.hits)
  <2>1. Len(new.hits) \in Nat
    BY <1>2
  <2>2. QED
    BY <1>2, <2>1 DEF Moves
<1>5. /\ new.scores \in Scores
      /\ \/ new.scores = <<>>
         \/ /\ Len(r.scores) = Len(r.hits) /\ Moves(r.scores, new.scores, at, to)
            /\ new.scores[to] = IF at = 0 THEN NoScore ELSE r.scores[at]
  BY <1>1, PinnedScores
<1>6. Len(new.scores) \in {0, Len(new.hits)}
  BY <1>4, <1>5 DEF Moves
<1>7. new.total \in Nat
  BY <1>1, <1>2
<1>8. PageType(new)
  BY <1>2, <1>3, <1>5, <1>6, <1>7 DEF PageType
<1>9. at = 0 <=> pin.doc \notin ToSet(r.hits)
  BY <1>1, Positions
<1>10. new.total = r0.total + Cardinality(ToSet(new.hits) \ ToSet(r0.hits))
  <2> DEFINE S == ToSet(r.hits) \ ToSet(r0.hits)
  <2>1. IsFiniteSet(S) /\ Cardinality(S) \in Nat
    <3>1. IsFiniteSet(ToSet(r.hits)) /\ S \in SUBSET ToSet(r.hits)
      BY <1>1, HitsFinite
    <3> HIDE DEF S
    <3>2. QED
      BY <3>1, FS_Subset, FS_CardinalityType
  <2>2. CASE at = 0
    <3>1. ToSet(new.hits) \ ToSet(r0.hits) = S \cup {pin.doc} /\ pin.doc \notin S
      BY <1>1, <1>3, <1>9, <2>2
    <3>2. Cardinality(S \cup {pin.doc}) = Cardinality(S) + 1
      <4> HIDE DEF S
      <4>1. QED
        BY <2>1, <3>1, FS_AddElement
    <3>3. QED
      <4>1. new.total = (r0.total + Cardinality(S)) + 1
        BY <1>1, <1>2, <2>2
      <4>2. Cardinality(ToSet(new.hits) \ ToSet(r0.hits)) = Cardinality(S) + 1
        BY <3>1, <3>2
      <4> HIDE DEF S
      <4>3. PICK a \in Nat, t0 \in Nat : a = Cardinality(S) /\ t0 = r0.total
        BY <1>1, <2>1
      <4>4. (t0 + a) + 1 = t0 + (a + 1)
        OBVIOUS
      <4>5. QED
        BY <4>1, <4>2, <4>3, <4>4
  <2>3. CASE at # 0
    <3>1. ToSet(new.hits) = ToSet(r.hits)
      BY <1>1, <1>3, <1>9, <2>3
    <3>2. new.total = r.total
      BY <1>1, <1>2, <2>3
    <3>3. QED
      BY <1>1, <3>1, <3>2
  <2>4. QED
    BY <2>2, <2>3
<1>11. ASSUME NEW i \in 1..Len(new.scores) PROVE new.scores[i] = Own(r0, new.hits[i])
  <2>1. new.scores # <<>>
    <3>1. CASE new.scores = <<>>
      BY <3>1
    <3>2. QED
      BY <3>1
  <2>2. /\ Len(r.scores) = Len(r.hits) /\ Moves(r.scores, new.scores, at, to)
        /\ new.scores[to] = IF at = 0 THEN NoScore ELSE r.scores[at]
    BY <1>5, <2>1
  <2>3. Len(new.scores) = Len(new.hits)
    BY <1>1, <1>4, <2>2 DEF Moves
  <2>4. CASE i = to
    <3>1. CASE at = 0
      <4>1. pin.doc \notin ToSet(r0.hits)
        BY <1>1, <1>9, <3>1
      <4>2. PositionOf(r0.hits, pin.doc) = 0
        BY <1>1, <4>1, Positions
      <4>3. QED
        BY <1>2, <2>2, <2>4, <3>1, <4>2 DEF Own
    <3>2. CASE at # 0
      <4>1. r.hits[at] = pin.doc
        BY <1>1, <3>2, Positions
      <4>2. at \in 1..Len(r.scores)
        BY <1>1, <2>2, <3>2
      <4>3. QED
        BY <1>1, <1>2, <2>2, <2>4, <3>2, <4>1, <4>2
    <3>3. QED
      BY <3>1, <3>2
  <2>5. CASE i # to
    <3>1. /\ From(at, to, i) \in 1..Len(r.scores)
          /\ new.scores[i] = r.scores[From(at, to, i)]
      BY <2>2, <2>5 DEF Moves
    <3>2. new.hits[i] = r.hits[From(at, to, i)]
      BY <1>2, <2>3, <2>5 DEF Moves
    <3>3. QED
      BY <1>1, <3>1, <3>2
  <2>6. QED
    BY <2>4, <2>5
<1>12. Len(new.hits) <= Len(r0.hits) + (k + 1)
  <2>1. \A x, y, z, j \in Nat : y <= z + j /\ (x = y \/ x = y + 1) => x <= z + (j + 1)
    OBVIOUS
  <2>2. Len(new.hits) = Len(r.hits) \/ Len(new.hits) = Len(r.hits) + 1
    <3>1. CASE at = 0
      BY <1>4, <3>1
    <3>2. CASE at # 0
      BY <1>1, <1>4, <3>2
    <3>3. QED
      BY <3>1, <3>2
  <2>3. QED
    BY <1>1, <1>4, <2>1, <2>2
<1>13. ToSet(new.hits) = ToSet(r0.hits) \cup (D \cup {pin.doc})
  BY <1>1, <1>3
<1>14. QED
  BY <1>8, <1>10, <1>11, <1>12, <1>13 DEF Pinned

LEMMA PinAllKeeps ==
    ASSUME NEW r0, PageType(r0), NEW q \in Seq(Pins), NEW n \in Nat, n = Len(q), NEW g,
           g[0] = r0, \A i \in 1..n : g[i] = ApplyPin(g[i - 1], q[i])
    PROVE  \A i \in 0..n : Pinned(r0, g[i], {q[l].doc : l \in 1..i}, i)
<1> DEFINE D(i) == {q[l].doc : l \in 1..i}
           T == {i \in 0..n : Pinned(r0, g[i], D(i), i)}
<1>1. 0 \in T
  <2>1. r0.hits \in Seq(Docs) /\ Len(r0.hits) \in Nat /\ r0.total \in Nat /\ Len(r0.scores) \in {0, Len(r0.hits)}
    BY DEF PageType, Distinct
  <2>2. ToSet(r0.hits) = ToSet(r0.hits) \cup D(0)
    OBVIOUS
  <2>3. r0.total = r0.total + Cardinality(ToSet(r0.hits) \ ToSet(r0.hits))
    <3>1. ToSet(r0.hits) \ ToSet(r0.hits) = {}
      OBVIOUS
    <3>2. QED
      <4>1. Cardinality(ToSet(r0.hits) \ ToSet(r0.hits)) = 0
        BY <3>1, FS_EmptySet
      <4>2. QED
        BY <2>1, <4>1
  <2>4. ASSUME NEW i \in 1..Len(r0.scores) PROVE r0.scores[i] = Own(r0, r0.hits[i])
    <3>1. i \in 1..Len(r0.hits)
      BY <2>1
    <3> PICK h : h = r0.hits
      OBVIOUS
    <3>2. PositionOf(h, h[i]) = i
      BY <3>1, PositionIs DEF PageType
    <3>3. QED
      BY <3>1, <3>2 DEF Own
  <2>5. Pinned(r0, r0, D(0), 0)
    BY <2>1, <2>2, <2>3, <2>4 DEF Pinned
  <2>6. QED
    BY <2>5
<1>2. ASSUME NEW i \in 0..(n - 1), i \in T PROVE i + 1 \in T
  <2> PICK j \in Nat : j = i + 1
    OBVIOUS
  <2>1. j \in 1..n /\ j - 1 = i /\ q[j] \in Pins /\ i \in Nat
    OBVIOUS
  <2>2. g[j] = ApplyPin(g[i], q[j]) /\ Pinned(r0, g[i], D(i), i)
    BY <1>2, <2>1
  <2>3. D(j) = D(i) \cup {q[j].doc}
    <3>1. \A l : l \in 1..j <=> l \in 1..i \/ l = j
      BY <2>1
    <3>2. QED
      BY <3>1
  <2> HIDE DEF D
  <2>4. Pinned(r0, g[j], D(j), j)
    <3> PICK r, E, pin : r = g[i] /\ E = D(i) /\ pin = q[j]
      OBVIOUS
    <3>1. Pinned(r0, ApplyPin(r, pin), E \cup {pin.doc}, i + 1)
      BY <2>1, <2>2, PinStep
    <3>2. QED
      BY <2>2, <2>3, <3>1
  <2>5. QED
    BY <2>1, <2>4
<1> HIDE DEF T
<1>3. \A i \in 0..n : i \in T
  BY <1>1, <1>2, UpTo
<1>4. QED
  BY <1>3 DEF T

(* The page r has no scores where r0 had none or one hit only, d.          *)
Scoreless(r0, r, d) == r.scores = <<>> <=> r0.scores = <<>> \/ Alone(r0.hits, d)

(* Whether a page keeps its scores is settled by the first pin: a later one *)
(* finds its document alone only on a page that has no scores any more.    *)
LEMMA FirstPinDrops ==
    ASSUME NEW r0, PageType(r0), NEW q \in Seq(Pins), NEW n \in Nat, n = Len(q), NEW g,
           g[0] = r0, \A i \in 1..n : g[i] = ApplyPin(g[i - 1], q[i])
    PROVE  \A i \in 1..n : Scoreless(r0, g[i], q[1].doc)
<1> DEFINE T == {i \in 0..n : i # 0 => Scoreless(r0, g[i], q[1].doc)}
<1>1. 0 \in T
  OBVIOUS
<1>2. ASSUME NEW i \in 0..(n - 1), i \in T PROVE i + 1 \in T
  <2> PICK j \in Nat : j = i + 1
    OBVIOUS
  <2>1. j \in 1..n /\ j - 1 = i /\ q[j] \in Pins /\ i \in Nat /\ i \in 0..n
    OBVIOUS
  <2>2. PICK r, pin, d : r = g[i] /\ pin = q[j] /\ d = q[1].doc
    OBVIOUS
  <2>3. Pinned(r0, r, {q[l].doc : l \in 1..i}, i)
    <3>1. \A k \in 0..n : Pinned(r0, g[k], {q[l].doc : l \in 1..k}, k)
      BY PinAllKeeps
    <3>2. QED
      BY <2>1, <2>2, <3>1
  <2>4. PageType(r) /\ pin \in Pins /\ g[j] = ApplyPin(r, pin)
    BY <2>1, <2>2, <2>3 DEF Pinned
  <2>5. g[j].scores = <<>> <=> r.scores = <<>> \/ Alone(r.hits, pin.doc)
    <3>1. PICK at, to : at = PositionOf(r.hits, pin.doc)
                        /\ to = Target(Len(r.hits), at, pin.position)
      OBVIOUS
    <3>2. ApplyPin(r, pin).scores = <<>> <=> r.scores = <<>> \/ Alone(r.hits, pin.doc)
      BY <2>4, <3>1, PinnedScores
    <3>3. QED
      BY <2>4, <3>2
  <2>6. CASE i = 0
    <3>1. r = r0 /\ pin.doc = d
      BY <2>1, <2>2, <2>6
    <3>2. QED
      BY <2>1, <2>2, <2>5, <3>1 DEF Scoreless
  <2>7. CASE i # 0
    <3>1. r.scores = <<>> <=> r0.scores = <<>> \/ Alone(r0.hits, d)
      BY <1>2, <2>2, <2>7 DEF Scoreless
    <3>2. ASSUME Alone(r.hits, pin.doc) PROVE r0.scores = <<>> \/ Alone(r0.hits, d)
      <4>1. PICK h, h0 : h = r.hits /\ h0 = r0.hits
        OBVIOUS
      <4>2. /\ h \in Seq(Docs) /\ h0 \in Seq(Docs) /\ Len(h0) \in Nat
            /\ \A k, l \in 1..Len(h0) : h0[k] = h0[l] => k = l
            /\ DOMAIN h = 1..Len(h) /\ DOMAIN h0 = 1..Len(h0)
        BY <2>4, <4>1 DEF PageType, Distinct
      <4>3. d \in ToSet(h) /\ \A k \in 1..Len(h0) : h0[k] \in ToSet(h)
        <5>1. ToSet(h) = ToSet(h0) \cup {q[l].doc : l \in 1..i}
          BY <2>3, <4>1 DEF Pinned
        <5>2. 1 \in 1..i
          BY <2>1, <2>7
        <5>3. \A k \in 1..Len(h0) : h0[k] \in ToSet(h0)
          BY <4>2 DEF ToSet
        <5>4. QED
          BY <2>2, <5>1, <5>2, <5>3
      <4>4. \A x \in ToSet(h) : x = h[1]
        BY <3>2, <4>1, <4>2 DEF Alone, ToSet
      <4>5. \A k \in 1..Len(h0) : h0[k] = d
        BY <4>3, <4>4
      <4>6. Len(h0) = 0 \/ Len(h0) = 1
        <5>1. CASE Len(h0) > 1
          <6>1. 1 \in 1..Len(h0) /\ 2 \in 1..Len(h0)
            BY <4>2, <5>1
          <6>2. h0[1] = h0[2]
            BY <4>5, <6>1
          <6>3. QED
            BY <4>2, <6>1, <6>2
        <5>2. QED
          BY <4>2, <5>1
      <4>7. CASE Len(h0) = 0
        <5>1. r0.scores \in Scores /\ Len(r0.scores) = 0
          BY <4>1, <4>7 DEF PageType
        <5>2. QED
          BY <5>1 DEF Scores
      <4>8. CASE Len(h0) = 1
        BY <4>1, <4>5, <4>8 DEF Alone
      <4>9. QED
        BY <4>6, <4>7, <4>8
    <3>3. g[j].scores = <<>> <=> r0.scores = <<>> \/ Alone(r0.hits, d)
      BY <2>5, <3>1, <3>2
    <3>4. QED
      BY <2>1, <2>2, <3>3 DEF Scoreless
  <2>8. QED
    BY <2>6, <2>7
<1> HIDE DEF T
<1>3. \A i \in 0..n : i \in T
  BY <1>1, <1>2, UpTo
<1>4. QED
  BY <1>3 DEF T
-----------------------------------------------------------------------------
(* Where pins land that only raise documents.                              *)

Rising(q) ==
    /\ \A i \in 1..Len(q) : q[i].position \in Nat
    /\ \A i, j \in 1..Len(q) : i < j => q[i].position < q[j].position
    /\ \A i, j \in 1..Len(q) : q[i].doc = q[j].doc => i = j

(* After i pins: those are in place or at an end of pinned documents only,  *)
(* and the documents of the others are still below their places.           *)
Placed(h, q, i, k, at) ==
    /\ h[at] = q[k].doc
    /\ \/ at = q[k].position + 1
       \/ /\ at <= q[k].position
          /\ \A j \in at..Len(h) : \E l \in 1..i : h[j] = q[l].doc
Landed(h, q, i) ==
    /\ \A k \in 1..i : \E at \in 1..Len(h) : Placed(h, q, i, k, at)
    /\ \A k \in (i + 1)..Len(q) : \A j \in 1..Len(h) : h[j] = q[k].doc => j > q[k].position

LEMMA LandStep ==
    ASSUME NEW r, PageType(r), NEW q \in Seq(Pins), Rising(q), NEW i \in Nat, NEW s \in 1..Len(q),
           s = i + 1, Landed(r.hits, q, i)
    PROVE  Landed(ApplyPin(r, q[s]).hits, q, s)
<1> PICK h, g, d, p : h = r.hits /\ g = ApplyPin(r, q[s]).hits /\ d = q[s].doc /\ p = q[s].position
  OBVIOUS
<1> PICK at, to : at = PositionOf(h, d) /\ to = Target(Len(h), at, p)
  OBVIOUS
<1> PICK n, m, c : n = Len(h) /\ m = Len(g) /\ c = Len(q)
  OBVIOUS
<1>1. /\ h \in Seq(Docs) /\ n \in Nat /\ c \in Nat /\ at \in 0..n /\ p \in Nat
      /\ at = 0 => \A j \in 1..n : h[j] # d
      /\ at # 0 => h[at] = d
  <2>1. h \in Seq(Docs) /\ n \in Nat /\ c \in Nat
    BY DEF PageType, Distinct
  <2>2. at \in 0..n /\ (at = 0 <=> \A j \in 1..n : h[j] # d) /\ (at # 0 => h[at] = d)
    BY <2>1, Positions
  <2>3. p \in Nat
    BY DEF Rising
  <2>4. QED
    BY <2>1, <2>2, <2>3
<1>2. /\ m \in Nat /\ (at = 0 => m = n + 1) /\ (at # 0 => m = n) /\ to \in 1..m /\ g[to] = d
      /\ \A j \in 1..m : j # to =>
            From(at, to, j) \in 1..n /\ From(at, to, j) # at /\ g[j] = h[From(at, to, j)]
  <2>1. q[s] \in Pins /\ at = PositionOf(r.hits, q[s].doc) /\ to = Target(Len(r.hits), at, q[s].position)
    OBVIOUS
  <2>2. g \in Seq(Docs) /\ g[to] = d /\ Moves(h, g, at, to)
    <3> PICK pin \in Pins : pin = q[s]
      BY <2>1
    <3>1. at = PositionOf(r.hits, pin.doc) /\ to = Target(Len(r.hits), at, pin.position)
      BY <2>1
    <3>2. /\ ApplyPin(r, pin).hits \in Seq(Docs) /\ ApplyPin(r, pin).hits[to] = pin.doc
          /\ Moves(r.hits, ApplyPin(r, pin).hits, at, to)
      BY <3>1, PinnedHits
    <3>3. QED
      BY <3>2
  <2>3. m \in Nat
    BY <2>2
  <2>4. CASE at = 0
    BY <1>1, <2>2, <2>3, <2>4 DEF Moves
  <2>5. CASE at # 0
    BY <1>1, <2>2, <2>3, <2>5 DEF Moves
  <2>6. QED
    BY <2>4, <2>5
<1>3. /\ \A k \in 1..i : \E a \in 1..n : Placed(h, q, i, k, a)
      /\ \A k \in (i + 1)..c : \A j \in 1..n : h[j] = q[k].doc => j > q[k].position
      /\ \A k \in 1..c : q[k].position \in Nat
      /\ \A k, l \in 1..c : k < l => q[k].position < q[l].position
      /\ \A k, l \in 1..c : q[k].doc = q[l].doc => k = l
  BY DEF Landed, Rising
<1>4. /\ at = 0 \/ at > p
      /\ to = IF at = 0 /\ p > n THEN n + 1 ELSE p + 1
  <2>1. at = 0 \/ at > p
    BY <1>1, <1>3
  <2>2. QED
    BY <1>1, <2>1 DEF Target, Buried
<1>5. /\ \A j \in 1..m : j < to => From(at, to, j) = j
      /\ \A j \in 1..m : j > to => From(at, to, j) \in {j - 1, j}
  BY <1>1, <1>2, <1>4 DEF From
<1>6. Placed(g, q, s, s, to)
  <2>1. CASE to = p + 1
    BY <1>2, <2>1 DEF Placed
  <2>2. CASE to # p + 1
    <3>1. to = m /\ to <= p
      BY <1>1, <1>2, <1>4, <2>2
    <3>2. \A j \in to..m : j = to
      BY <1>2, <3>1
    <3>3. s \in 1..s
      OBVIOUS
    <3>4. \A j \in to..Len(g) : \E l \in 1..s : g[j] = q[l].doc
      BY <1>2, <3>2, <3>3
    <3>5. QED
      BY <1>2, <3>1, <3>4 DEF Placed
  <2>3. QED
    BY <2>1, <2>2
<1>7. ASSUME NEW k \in 1..i PROVE \E a \in 1..m : Placed(g, q, s, k, a)
  <2>1. PICK a \in 1..n : Placed(h, q, i, k, a)
    BY <1>3
  <2>2. k \in 1..c /\ k < s /\ q[k].position \in Nat /\ q[k].position < p
    BY <1>3
  <2>3. a <= q[k].position + 1 /\ a \in Nat
    BY <1>1, <2>1, <2>2 DEF Placed
  <2>4. a < to
    BY <1>1, <1>4, <2>2, <2>3
  <2>5. a \in 1..m /\ a # to /\ g[a] = q[k].doc
    BY <1>2, <1>5, <2>1, <2>4 DEF Placed
  <2>6. CASE a = q[k].position + 1
    BY <2>5, <2>6 DEF Placed
  <2>7. CASE a # q[k].position + 1
    <3>1. a <= q[k].position /\ \A j \in a..n : \E l \in 1..i : h[j] = q[l].doc
      BY <2>1, <2>7 DEF Placed
    <3>2. ASSUME NEW j \in a..m PROVE \E l \in 1..s : g[j] = q[l].doc
      <4>1. CASE j = to
        BY <1>2, <4>1
      <4>2. CASE j # to
        <5>1. j \in 1..m
          BY <1>2, <2>3, <2>1
        <5>2. From(at, to, j) \in a..n
          <6>1. From(at, to, j) \in 1..n
            BY <1>2, <4>2, <5>1
          <6>2. CASE j < to
            BY <1>5, <5>1, <6>1, <6>2
          <6>3. CASE ~ (j < to)
            <7>1. j > to /\ From(at, to, j) \in {j - 1, j}
              BY <1>2, <1>5, <4>2, <5>1, <6>3
            <7>2. QED
              BY <1>2, <2>4, <5>1, <6>1, <7>1
          <6>4. QED
            BY <6>2, <6>3
        <5>3. PICK l \in 1..i : h[From(at, to, j)] = q[l].doc
          BY <3>1, <5>2
        <5>4. l \in 1..s
          OBVIOUS
        <5>5. g[j] = q[l].doc
          BY <1>2, <4>2, <5>1, <5>3
        <5>6. QED
          BY <5>4, <5>5
      <4>3. QED
        BY <4>1, <4>2
    <3>3. Placed(g, q, s, k, a)
      BY <2>5, <3>1, <3>2 DEF Placed
    <3>4. QED
      BY <2>5, <3>3
  <2>8. QED
    BY <2>6, <2>7
<1>8. ASSUME NEW k \in (s + 1)..c, NEW j \in 1..m, g[j] = q[k].doc PROVE j > q[k].position
  <2>1. k \in 1..c /\ k # s /\ k \in (i + 1)..c
    BY <1>1
  <2>2. j # to
    BY <1>2, <1>3, <1>8, <2>1
  <2>3. /\ From(at, to, j) \in 1..n /\ h[From(at, to, j)] = q[k].doc
        /\ From(at, to, j) <= j
    <3>1. From(at, to, j) \in 1..n /\ h[From(at, to, j)] = q[k].doc
      BY <1>2, <1>8, <2>2
    <3>2. CASE j < to
      BY <1>5, <3>1, <3>2
    <3>3. CASE ~ (j < to)
      <4>1. j > to
        BY <1>2, <2>2, <3>3
      <4>2. From(at, to, j) \in {j - 1, j}
        BY <1>5, <4>1
      <4>3. QED
        BY <3>1, <4>2
    <3>4. QED
      BY <3>1, <3>2, <3>3
  <2>4. From(at, to, j) > q[k].position
    BY <1>3, <2>1, <2>3
  <2>5. q[k].position \in Nat
    BY <1>3, <2>1
  <2>6. QED
    BY <1>1, <2>3, <2>4, <2>5
<1>9. ASSUME NEW k \in 1..s PROVE \E a \in 1..m : Placed(g, q, s, k, a)
  <2>1. CASE k = s
    BY <1>2, <1>6, <2>1
  <2>2. CASE k # s
    <3>1. k \in 1..i
      BY <2>2
    <3>2. QED
      BY <1>7, <3>1
  <2>3. QED
    BY <2>1, <2>2
<1>10. Landed(g, q, s)
  BY <1>8, <1>9 DEF Landed
<1>11. QED
  BY <1>10
(* All the pins, in their order.                                           *)
PinDocs(ps) == {ps[i].doc : i \in DOMAIN ps}

Raises(h0, ps) ==
    /\ \A i, j \in 1..Len(ps) : ps[i].doc = ps[j].doc => i = j
    /\ \A i, j \in 1..Len(ps) : ps[i].position = ps[j].position => i = j
    /\ \A i \in 1..Len(ps) :
        /\ ps[i].position # Buried
        /\ \/ PositionOf(h0, ps[i].doc) = 0
           \/ PositionOf(h0, ps[i].doc) > ps[i].position

(* What the pins leave of the page's scores.                               *)
KeepsScores(r0, r, ps) ==
    r.scores = <<>> <=> \/ r0.scores = <<>>
                        \/ ps # <<>> /\ Alone(r0.hits, InPinOrder(ps)[1].doc)

LEMMA PinsKeep ==
    ASSUME NEW r0, PageType(r0), NEW ps \in Seq(Pins)
    PROVE  /\ Pinned(r0, ApplyPins(r0, ps), PinDocs(ps), Len(ps))
           /\ KeepsScores(r0, ApplyPins(r0, ps), ps)
<1>1. PICK order :
        /\ Turns(Len(ps), order)
        /\ InPinOrder(ps) \in Seq(Pins) /\ Len(InPinOrder(ps)) = Len(ps)
        /\ \A i \in 1..Len(ps) : InPinOrder(ps)[i] = ps[order[i]]
        /\ \A i, j \in 1..Len(ps) : i < j => PinAhead(ps, order[i], order[j])
  BY PinsInOrder
<1>2. PICK q \in Seq(Pins), n \in Nat : q = InPinOrder(ps) /\ n = Len(q) /\ n = Len(ps)
  BY <1>1
<1>3. PICK g : /\ PinInTurn(r0, q) = g[n] /\ g[0] = r0
               /\ \A i \in 1..n : g[i] = ApplyPin(g[i - 1], q[i])
  <2>1. \E g : Stepwise(g, r0, q, Len(q))
    BY <1>2, PinningPins
  <2>2. QED
    BY <1>2, <2>1 DEF Stepwise
<1>4. Pinned(r0, g[n], {q[l].doc : l \in 1..n}, n)
  <2>1. \A i \in 0..n : Pinned(r0, g[i], {q[l].doc : l \in 1..i}, i)
    BY <1>2, <1>3, PinAllKeeps
  <2>2. n \in 0..n
    OBVIOUS
  <2>3. QED
    BY <2>1, <2>2, Zenon
<1>5. {q[l].doc : l \in 1..n} = PinDocs(ps)
  <2>1. DOMAIN ps = 1..n
    BY <1>2
  <2>2. \A l \in 1..n : q[l] = ps[order[l]]
    BY <1>1, <1>2
  <2>3. /\ \A l \in 1..n : order[l] \in 1..n
        /\ \A j \in 1..n : \E l \in 1..n : order[l] = j
    BY <1>1, <1>2 DEF Turns
  <2>4. ASSUME NEW l \in 1..n PROVE q[l].doc \in PinDocs(ps)
    BY <2>1, <2>2, <2>3 DEF PinDocs
  <2>5. ASSUME NEW x \in PinDocs(ps) PROVE \E l \in 1..n : x = q[l].doc
    <3>1. PICK j \in 1..n : x = ps[j].doc
      BY <2>1 DEF PinDocs
    <3>2. PICK l \in 1..n : order[l] = j
      BY <2>3
    <3>3. x = q[l].doc
      BY <2>2, <3>1, <3>2
    <3>4. QED
      BY <3>3
  <2>6. QED
    BY <2>4, <2>5
<1>6. ApplyPins(r0, ps) = g[n]
  BY <1>2, <1>3 DEF ApplyPins
<1>7. KeepsScores(r0, g[n], ps)
  <2>1. CASE n = 0
    <3>1. ps = <<>>
      <4>1. PICK W : ps \in Seq(W)
        OBVIOUS
      <4>2. Len(ps) = 0
        BY <1>2, <2>1
      <4>3. QED
        BY <4>1, <4>2
    <3>2. PICK r : r = g[n]
      OBVIOUS
    <3>3. r = r0
      BY <1>3, <2>1, <3>2
    <3>4. KeepsScores(r0, r, ps)
      BY <3>1, <3>3 DEF KeepsScores
    <3>5. QED
      BY <3>2, <3>4
  <2>2. CASE n # 0
    <3>1. \A i \in 1..n : Scoreless(r0, g[i], q[1].doc)
      BY <1>2, <1>3, FirstPinDrops
    <3>2. Scoreless(r0, g[n], q[1].doc) /\ ps # <<>>
      BY <1>2, <2>2, <3>1
    <3>3. QED
      BY <1>2, <3>2 DEF KeepsScores, Scoreless
  <2>3. QED
    BY <2>1, <2>2
<1>8. QED
  BY <1>2, <1>4, <1>5, <1>6, <1>7

LEMMA PinAllLand ==
    ASSUME NEW r0, PageType(r0), NEW q \in Seq(Pins), NEW n \in Nat, n = Len(q), NEW g,
           g[0] = r0, \A i \in 1..n : g[i] = ApplyPin(g[i - 1], q[i]),
           Rising(q), Landed(r0.hits, q, 0)
    PROVE  \A i \in 0..n : Landed(g[i].hits, q, i)
<1> DEFINE T == {i \in 0..n : Landed(g[i].hits, q, i)}
<1>0. \A i \in 0..n : Pinned(r0, g[i], {q[l].doc : l \in 1..i}, i)
  BY PinAllKeeps
<1>1. 0 \in T
  OBVIOUS
<1>2. ASSUME NEW i \in 0..(n - 1), i \in T PROVE i + 1 \in T
  <2> PICK s \in 1..Len(q) : s = i + 1
    OBVIOUS
  <2>1. s \in 1..n /\ s - 1 = i /\ i \in Nat /\ i \in 0..n
    OBVIOUS
  <2>2. g[s] = ApplyPin(g[i], q[s]) /\ Landed(g[i].hits, q, i)
    BY <1>2, <2>1
  <2>3. PICK r : r = g[i]
    OBVIOUS
  <2>4. PageType(r) /\ Landed(r.hits, q, i)
    BY <1>0, <2>1, <2>2, <2>3 DEF Pinned
  <2>5. Landed(ApplyPin(r, q[s]).hits, q, s)
    BY <2>1, <2>4, LandStep
  <2>6. QED
    BY <2>1, <2>2, <2>3, <2>5
<1> HIDE DEF T
<1>3. \A i \in 0..n : i \in T
  BY <1>1, <1>2, UpTo
<1>4. QED
  BY <1>3 DEF T

LEMMA PinsLandAll ==
    ASSUME NEW r0, PageType(r0), NEW ps \in Seq(Pins), Raises(r0.hits, ps),
           NEW hits, hits = ApplyPins(r0, ps).hits, NEW i \in 1..Len(ps)
    PROVE  LET at == PositionOf(hits, ps[i].doc)
           IN  \/ at = ps[i].position + 1
               \/ /\ at \in 1..ps[i].position
                  /\ \A j \in at..Len(hits) : hits[j] \in PinDocs(ps)
<1>1. PICK order :
        /\ Turns(Len(ps), order)
        /\ InPinOrder(ps) \in Seq(Pins) /\ Len(InPinOrder(ps)) = Len(ps)
        /\ \A k \in 1..Len(ps) : InPinOrder(ps)[k] = ps[order[k]]
        /\ \A k, l \in 1..Len(ps) : k < l => PinAhead(ps, order[k], order[l])
  BY PinsInOrder
<1>2. PICK q \in Seq(Pins), n \in Nat : q = InPinOrder(ps) /\ n = Len(q) /\ n = Len(ps)
  BY <1>1
<1>3. PICK g : /\ PinInTurn(r0, q) = g[n] /\ g[0] = r0
               /\ \A k \in 1..n : g[k] = ApplyPin(g[k - 1], q[k])
  <2>1. \E g : Stepwise(g, r0, q, Len(q))
    BY <1>2, PinningPins
  <2>2. QED
    BY <1>2, <2>1 DEF Stepwise
<1>4. /\ \A k \in 1..n : order[k] \in 1..n /\ q[k] = ps[order[k]]
      /\ \A k, l \in 1..n : order[k] = order[l] => k = l
      /\ \A j \in 1..n : \E k \in 1..n : order[k] = j
      /\ \A j \in 1..n : ps[j].position \in Nat
  <2>1. \A j \in 1..n : ps[j] \in Pins /\ ps[j].position # Buried
    BY <1>2 DEF Raises
  <2>2. \A j \in 1..n : ps[j].position \in Nat
    BY <2>1 DEF Pins
  <2>3. QED
    BY <1>1, <1>2, <2>2 DEF Turns
<1>5. Rising(q)
  <2>1. \A k \in 1..n : q[k].position \in Nat
    BY <1>4
  <2>2. ASSUME NEW k \in 1..n, NEW l \in 1..n, k < l PROVE q[k].position < q[l].position
    <3>1. PinAhead(ps, order[k], order[l]) /\ order[k] # order[l]
      BY <1>1, <1>2, <1>4, <2>2
    <3>2. ps[order[k]].position # ps[order[l]].position /\ ps[order[l]].position # Buried
      BY <1>2, <1>4, <3>1 DEF Raises
    <3>3. QED
      BY <1>4, <3>1, <3>2 DEF PinAhead
  <2>3. ASSUME NEW k \in 1..n, NEW l \in 1..n, q[k].doc = q[l].doc PROVE k = l
    <3>1. ps[order[k]].doc = ps[order[l]].doc /\ order[k] \in 1..n /\ order[l] \in 1..n
      BY <1>4, <2>3
    <3>2. order[k] = order[l]
      BY <1>2, <3>1 DEF Raises
    <3>3. QED
      BY <1>4, <3>2
  <2>4. QED
    BY <1>2, <2>1, <2>2, <2>3 DEF Rising
<1>6. Landed(r0.hits, q, 0)
  <2>0. Distinct(r0.hits) /\ Len(r0.hits) \in Nat
    BY DEF PageType, Distinct
  <2>1. ASSUME NEW k \in 1..n, NEW j \in 1..Len(r0.hits), r0.hits[j] = q[k].doc
        PROVE  j > q[k].position
    <3> PICK h : h = r0.hits
      OBVIOUS
    <3>1. PositionOf(h, h[j]) = j
      BY <2>0, PositionIs
    <3>2. j = PositionOf(r0.hits, ps[order[k]].doc) /\ j # 0
      <4>1. h[j] = ps[order[k]].doc
        BY <1>4, <2>1
      <4>2. QED
        BY <2>0, <3>1, <4>1
    <3>3. QED
      BY <1>2, <1>4, <3>2 DEF Raises
  <2>2. QED
    BY <1>2, <2>1 DEF Landed
<1>7. Landed(g[n].hits, q, n)
  <2>1. \A k \in 0..n : Landed(g[k].hits, q, k)
    BY <1>2, <1>3, <1>5, <1>6, PinAllLand
  <2>2. QED
    BY <2>1
<1>8. hits = g[n].hits
  BY <1>2, <1>3 DEF ApplyPins
<1>9. Distinct(hits)
  BY PinsKeep DEF Pinned, PageType
<1>10. PICK k \in 1..n : order[k] = i
  BY <1>2, <1>4
<1>11. PICK at \in 1..Len(hits) : Placed(hits, q, n, k, at)
  BY <1>7, <1>8 DEF Landed
<1>12. PositionOf(hits, ps[i].doc) = at
  <2>1. hits[at] = ps[i].doc
    BY <1>4, <1>10, <1>11 DEF Placed
  <2>2. PositionOf(hits, hits[at]) = at
    BY <1>9, PositionIs
  <2>3. QED
    BY <2>1, <2>2
<1>13. ASSUME NEW j, NEW l \in 1..n, hits[j] = q[l].doc PROVE hits[j] \in PinDocs(ps)
  <2>1. DOMAIN ps = 1..n
    BY <1>2
  <2>2. hits[j] = ps[order[l]].doc /\ order[l] \in DOMAIN ps
    BY <1>4, <1>13, <2>1
  <2>3. QED
    BY <2>2 DEF PinDocs
<1>14. ps[i].position = q[k].position /\ q[k].position \in Nat
  BY <1>4, <1>10
<1>15. CASE at = q[k].position + 1
  BY <1>12, <1>14, <1>15
<1>16. CASE at # q[k].position + 1
  <2>1. at <= q[k].position /\ \A j \in at..Len(hits) : \E l \in 1..n : hits[j] = q[l].doc
    BY <1>11, <1>16 DEF Placed
  <2>2. \A j \in at..Len(hits) : hits[j] \in PinDocs(ps)
    BY <1>13, <2>1
  <2>3. at \in 1..ps[i].position
    BY <1>9, <1>14, <2>1 DEF Distinct
  <2>4. QED
    BY <1>12, <2>2, <2>3
<1>17. QED
  BY <1>15, <1>16
-----------------------------------------------------------------------------
(* Boosts sort the page.                                                   *)

BoostType(bs) == Len(bs) \in Nat /\ \A i \in 1..Len(bs) : bs[i].weight \in Int

Multiplying(g, d, bs, n) ==
    g = [i \in 0..n |->
            IF i = 0 THEN 1
            ELSE g[i - 1] * (IF Satisfies(d, bs[i]) THEN bs[i].weight ELSE 2)]

LEMMA MultiplyingExists ==
    ASSUME NEW d, NEW bs, NEW n \in Nat
    PROVE  \E g : Multiplying(g, d, bs, n)
<1> DEFINE by(i) == IF Satisfies(d, bs[i]) THEN bs[i].weight ELSE 2
           T == {m \in Nat : \E g : Multiplying(g, d, bs, m)}
<1>1. 0 \in T
  <2> DEFINE g == [i \in 0..0 |-> 1]
  <2>1. Multiplying(g, d, bs, 0)
    BY DEF Multiplying
  <2>2. QED
    BY <2>1
<1>2. ASSUME NEW m \in 0..(n - 1), m \in T PROVE m + 1 \in T
  <2>1. PICK g : Multiplying(g, d, bs, m)
    BY <1>2
  <2>2. \A i \in 0..m : g[i] = IF i = 0 THEN 1 ELSE g[i - 1] * by(i)
    BY <2>1 DEF Multiplying
  <2>3. PICK k \in Nat : k = m + 1
    OBVIOUS
  <2> DEFINE h == [i \in 0..k |-> IF i = k THEN g[m] * by(k) ELSE g[i]]
  <2>4. ASSUME NEW i \in 0..k PROVE h[i] = IF i = 0 THEN 1 ELSE h[i - 1] * by(i)
    <3> HIDE DEF by
    <3>1. CASE i = k
      BY <2>3, <3>1
    <3>2. CASE i # k
      <4>1. i \in 0..m /\ (i # 0 => i - 1 \in 0..k /\ i - 1 # k)
        BY <2>3, <3>2
      <4>2. QED
        BY <2>2, <3>2, <4>1
    <3>3. QED
      BY <3>1, <3>2
  <2>5. Multiplying(h, d, bs, k)
    BY <2>4 DEF Multiplying
  <2>6. QED
    BY <2>3, <2>5
<1> HIDE DEF T
<1>3. \A i \in 0..n : i \in T
  BY <1>1, <1>2, UpTo
<1>4. n \in T
  BY <1>3
<1>5. QED
  BY <1>4 DEF T

LEMMA FactorType ==
    ASSUME NEW d, NEW bs, BoostType(bs)
    PROVE  Factor(d, bs) \in Int
<1> PICK n \in Nat : n = Len(bs)
  BY DEF BoostType
<1> DEFINE c == CHOOSE g : Multiplying(g, d, bs, n)
           T == {i \in 0..n : c[i] \in Int}
<1>1. Multiplying(c, d, bs, n)
  BY MultiplyingExists
<1>2. Factor(d, bs) = c[n]
  BY DEF Factor, Multiplying
<1> HIDE DEF c
<1>3. /\ c[0] = 1
      /\ \A i \in 1..n : c[i] = c[i - 1] * (IF Satisfies(d, bs[i]) THEN bs[i].weight ELSE 2)
  BY <1>1 DEF Multiplying
<1>4. 0 \in T
  BY <1>3
<1>5. ASSUME NEW i \in 0..(n - 1), i \in T PROVE i + 1 \in T
  <2>1. PICK j \in 1..n : j = i + 1 /\ j - 1 = i
    OBVIOUS
  <2>2. PICK w \in Int : w = IF Satisfies(d, bs[j]) THEN bs[j].weight ELSE 2
    BY DEF BoostType
  <2>3. PICK v \in Int : v = c[i]
    BY <1>5
  <2>4. c[j] = v * w
    BY <1>3, <2>1, <2>2, <2>3
  <2>5. c[j] \in Int
    BY <2>4
  <2>6. QED
    BY <2>1, <2>5
<1> HIDE DEF T
<1>6. \A i \in 0..n : i \in T
  BY <1>4, <1>5, UpTo
<1>7. QED
  BY <1>2, <1>6 DEF T

LEMMA BoostsKeep ==
    ASSUME NEW r, PageType(r), NEW bs, BoostType(bs), NEW new, new = ApplyBoosts(r, bs)
    PROVE  /\ PageType(new) /\ Len(new.hits) = Len(r.hits)
           /\ ToSet(new.hits) = ToSet(r.hits) /\ new.total = r.total
<1> DEFINE n == Len(r.hits)
           score(i) == IF i \in DOMAIN r.scores /\ r.scores[i] # NoScore
                       THEN r.scores[i] ELSE Scale - (Scale * (i - 1)) \div n
           final == [i \in 1..n |-> score(i) * Factor(r.hits[i], bs)]
           ahead == {x \in (1..n) \X (1..n) :
                       \/ final[x[1]] > final[x[2]]
                       \/ final[x[1]] = final[x[2]] /\ x[1] < x[2]}
           order == Sorted(n, ahead)
<1>1. /\ n \in Nat /\ r.hits \in Seq(Docs) /\ r.scores \in Scores
      /\ Distinct(r.hits) /\ r.total \in Nat /\ Scale \in Nat
  BY MerchandisingAssumption DEF PageType, Distinct
<1>2. CASE bs = <<>> \/ n = 0
  <2>1. new = r
    BY <1>2 DEF ApplyBoosts
  <2>2. QED
    BY <2>1
<1>3. CASE ~ (bs = <<>> \/ n = 0)
  <2>1. new = Result([i \in 1..n |-> r.hits[order[i]]], [i \in 1..n |-> final[order[i]]], r.total)
    BY <1>3 DEF ApplyBoosts
  <2>2. ASSUME NEW i \in 1..n PROVE final[i] \in Int
    <3>1. score(i) \in Int
      <4>1. CASE i \in DOMAIN r.scores /\ r.scores[i] # NoScore
        BY <1>1, <4>1 DEF Scores
      <4>2. CASE ~ (i \in DOMAIN r.scores /\ r.scores[i] # NoScore)
        <5>1. PICK a \in Int : a = Scale * (i - 1)
          BY <1>1
        <5>2. a \div n \in Int
          BY <1>1, <1>3
        <5>3. QED
          BY <1>1, <4>2, <5>1, <5>2
      <4>3. QED
        BY <4>1, <4>2
    <3>2. PICK u \in Int, v \in Int : u = score(i) /\ v = Factor(r.hits[i], bs)
      BY <3>1, FactorType
    <3>3. u * v \in Int
      OBVIOUS
    <3>4. final[i] = u * v
      BY <3>2
    <3>5. QED
      BY <3>3, <3>4
  <2> HIDE DEF final
  <2>3. \A i, j \in 1..n : <<i, j>> \in ahead <=> final[i] > final[j] \/ (final[i] = final[j] /\ i < j)
    OBVIOUS
  <2> HIDE DEF ahead
  <2>4. Total(n, ahead)
    <3>1. \A i \in 1..n : <<i, i>> \notin ahead
      BY <1>1, <2>2, <2>3
    <3>2. ASSUME NEW i \in 1..n, NEW j \in 1..n, i # j, <<i, j>> \notin ahead
          PROVE  <<j, i>> \in ahead
      <4>1. final[i] \in Int /\ final[j] \in Int /\ (i < j \/ j < i)
        BY <1>1, <2>2, <3>2
      <4>2. ~ (final[i] > final[j]) /\ ~ (final[i] = final[j] /\ i < j)
        BY <2>3, <3>2
      <4>3. final[j] > final[i] \/ (final[j] = final[i] /\ j < i)
        BY <4>1, <4>2
      <4>4. QED
        BY <2>3, <4>3
    <3>3. ASSUME NEW i \in 1..n, NEW j \in 1..n, NEW k \in 1..n,
                 <<i, j>> \in ahead, <<j, k>> \in ahead
          PROVE  <<i, k>> \in ahead
      BY <1>1, <2>2, <2>3, <3>3
    <3>4. QED
      BY <3>1, <3>2, <3>3 DEF Total
  <2>5. Turns(n, order)
    <3> PICK m \in Nat : m = n
      BY <1>1
    <3>1. Total(m, ahead)
      BY <2>4
    <3>2. Turns(m, Sorted(m, ahead))
      BY <3>1, SortedTurns
    <3>3. QED
      BY <3>2
  <2> HIDE DEF order
  <2>6. /\ \A i \in 1..n : order[i] \in 1..n
        /\ \A i, j \in 1..n : order[i] = order[j] => i = j
        /\ \A i \in 1..n : \E k \in 1..n : order[k] = i
    BY <2>5 DEF Turns
  <2>7. /\ new.hits = [i \in 1..n |-> r.hits[order[i]]]
        /\ new.scores = [i \in 1..n |-> final[order[i]]]
        /\ new.total = r.total /\ new = Result(new.hits, new.scores, new.total)
    BY <2>1 DEF Result
  <2>8. new.hits \in Seq(Docs) /\ Len(new.hits) = n
    BY <1>1, <2>6, <2>7
  <2>9. new.scores \in Scores /\ Len(new.scores) = n
    BY <1>1, <2>2, <2>6, <2>7 DEF Scores
  <2>10. Distinct(new.hits)
    <3>1. ASSUME NEW i \in 1..n, NEW j \in 1..n, new.hits[i] = new.hits[j] PROVE i = j
      <4>1. r.hits[order[i]] = r.hits[order[j]] /\ order[i] \in 1..n /\ order[j] \in 1..n
        BY <2>6, <2>7, <3>1
      <4>2. order[i] = order[j]
        BY <1>1, <4>1 DEF Distinct
      <4>3. QED
        BY <2>6, <4>2
    <3>2. QED
      BY <2>8, <3>1 DEF Distinct
  <2>11. ToSet(new.hits) = ToSet(r.hits)
    <3>1. DOMAIN new.hits = 1..n /\ DOMAIN r.hits = 1..n
      BY <1>1, <2>7
    <3>2. ASSUME NEW i \in 1..n PROVE new.hits[i] \in ToSet(r.hits)
      <4>1. new.hits[i] = r.hits[order[i]] /\ order[i] \in DOMAIN r.hits
        BY <2>6, <2>7, <3>1
      <4>2. QED
        BY <4>1 DEF ToSet
    <3>3. ASSUME NEW i \in 1..n PROVE r.hits[i] \in ToSet(new.hits)
      <4>1. PICK k \in 1..n : order[k] = i
        BY <2>6
      <4>2. r.hits[i] = new.hits[k] /\ k \in DOMAIN new.hits
        BY <2>7, <3>1, <4>1
      <4>3. QED
        BY <4>2 DEF ToSet
    <3>4. QED
      BY <3>1, <3>2, <3>3 DEF ToSet
  <2>12. PageType(new)
    BY <1>1, <2>7, <2>8, <2>9, <2>10 DEF PageType
  <2>13. QED
    BY <2>7, <2>8, <2>11, <2>12
<1>4. QED
  BY <1>2, <1>3
-----------------------------------------------------------------------------
(* What the engine answers is a page.                                      *)

Found == UNION {Perms(S) : S \in SUBSET Docs}

LEMMA FoundDistinct ==
    ASSUME NEW found \in Found
    PROVE  Distinct(found)
<1>1. PICK S \in SUBSET Docs : found \in Perms(S)
  BY DEF Found
<1>2. Cardinality(S) \in Nat
  BY FS_Subset, FS_CardinalityType, MerchandisingAssumption
<1>3. /\ found \in [1..Cardinality(S) -> S]
      /\ \A i, j \in DOMAIN found : found[i] = found[j] => i = j
  BY <1>1 DEF Perms, IsInjective
<1>4. found \in Seq(Docs) /\ Len(found) = Cardinality(S)
  BY <1>2, <1>3
<1>5. QED
  BY <1>3, <1>4 DEF Distinct

LEMMA Least ==
    ASSUME NEW a \in Int, NEW b \in Int
    PROVE  Min({a, b}) = IF a <= b THEN a ELSE b
BY DEF Min

LEMMA AnswerPage ==
    ASSUME NEW found \in Found, NEW withScores \in BOOLEAN, NEW k \in Nat,
           NEW r, r = PageOf(found, withScores, k)
    PROVE  PageType(r) /\ Len(r.hits) <= Limit /\ r.total = Len(found)
<1>1. PICK start \in Nat : start = k * Limit
  BY MerchandisingAssumption
<1>2. found \in Seq(Docs) /\ Len(found) \in Nat /\ Limit \in Nat
      /\ \A i, j \in 1..Len(found) : found[i] = found[j] => i = j
  BY FoundDistinct, MerchandisingAssumption DEF Distinct
<1>3. PICK a \in Int, b \in Int : a = start + Limit /\ b = Len(found)
  BY <1>2
<1>4. PICK end \in Int : end = Min({a, b}) /\ end = IF a <= b THEN a ELSE b
  BY Least
<1> DEFINE hits == SubSeq(found, start + 1, end)
<1>5. r = Result(hits, IF withScores THEN [i \in DOMAIN hits |-> Scale - start - i] ELSE <<>>,
                 Len(found))
  BY <1>1, <1>3, <1>4 DEF PageOf
<1>6. /\ hits \in Seq(Docs) /\ Len(hits) = (IF start + 1 <= end THEN end - start ELSE 0)
      /\ \A i \in 1..(end - start) : hits[i] = found[start + i]
  <2>1. \A i \in (start + 1)..end : found[i] \in Docs
    BY <1>2, <1>3, <1>4
  <2>2. PICK c \in Int : c = start + 1
    OBVIOUS
  <2>3. /\ SubSeq(found, c, end) \in Seq(Docs)
        /\ Len(SubSeq(found, c, end)) = (IF c <= end THEN end - c + 1 ELSE 0)
        /\ \A i \in 1..(end - c + 1) : SubSeq(found, c, end)[i] = found[c + i - 1]
    BY <2>1, <2>2, SubSeqProperties
  <2>4. end - c + 1 = end - start /\ \A i \in Int : c + i - 1 = start + i
    BY <2>2
  <2>5. \A i \in 1..(end - start) : SubSeq(found, c, end)[i] = found[start + i]
    BY <2>3, <2>4
  <2>6. QED
    BY <2>2, <2>3, <2>4, <2>5
<1> HIDE DEF hits
<1>7. Len(hits) \in Nat /\ Len(hits) <= Limit /\ DOMAIN hits = 1..Len(hits)
      /\ \A i \in 1..Len(hits) : i \in 1..(end - start) /\ start + i \in 1..Len(found)
  BY <1>2, <1>3, <1>4, <1>6
<1>8. Distinct(hits)
  <2>1. ASSUME NEW i \in 1..Len(hits), NEW j \in 1..Len(hits), hits[i] = hits[j] PROVE i = j
    <3>1. found[start + i] = found[start + j]
      BY <1>6, <1>7, <2>1
    <3>2. start + i = start + j
      BY <1>2, <1>7, <3>1
    <3>3. QED
      BY <3>2
  <2>2. QED
    BY <1>6, <2>1 DEF Distinct
<1>9. r.hits = hits /\ r.total = Len(found) /\ r = Result(r.hits, r.scores, r.total)
      /\ r.scores = (IF withScores THEN [i \in DOMAIN hits |-> Scale - start - i] ELSE <<>>)
  BY <1>5 DEF Result
<1>10. r.scores \in Scores /\ Len(r.scores) \in {0, Len(r.hits)}
  <2>1. CASE withScores
    <3>1. r.scores = [i \in 1..Len(hits) |-> Scale - start - i]
      BY <1>7, <1>9, <2>1
    <3>2. \A i \in 1..Len(hits) : Scale - start - i \in Int
      BY <1>7, MerchandisingAssumption
    <3>3. QED
      BY <1>7, <1>9, <3>1, <3>2 DEF Scores
  <2>2. CASE ~withScores
    BY <1>9, <2>2 DEF Scores
  <2>3. QED
    BY <2>1, <2>2
<1>11. QED
  BY <1>2, <1>7, <1>8, <1>9, <1>10 DEF PageType
-----------------------------------------------------------------------------
(* The pipeline.                                                           *)

Early == {"gate", "preprocess", "redirect", "rewrite", "search", "pins", "boosts", "fallback"}
Tried ==
    /\ pc \in Early => tries = 0
    /\ pc = "alternative" => tries = 0 \/ tries < Retries
Open == pc \notin {"banners", "done"} => outcome = "none"

(* What the result is to the engine's page, stage by stage.                *)
Rearranged(r0, r, D) ==
    /\ PageType(r) /\ ToSet(r.hits) = ToSet(r0.hits) \cup D
    /\ r.total = r0.total + Cardinality(ToSet(r.hits) \ ToSet(r0.hits))
Pages ==
    /\ pc = "pins" => result = Searched
    /\ pc = "boosts" => /\ Pinned(Searched, result, PinnedDocs, Len(pins))
                        /\ KeepsScores(Searched, result, pins)
    /\ pc = "fallback" => Rearranged(Searched, result, PinnedDocs)

(* A fallback goes on only where there is nothing.                         *)
Nothing == pc = "alternative" \/ outcome = "fallback" => matches = <<>> /\ pins = <<>>
Logged == logged > 0 => log \/ tries > 0

PipeInv == TypeOK /\ Tried /\ Open /\ Pages /\ PinsLand /\ Nothing /\ Logged

LEMMA PinListType ==
    ASSUME NEW ps \in PinLists
    PROVE  ps \in Seq(Pins) /\ Len(ps) \in Nat /\ DOMAIN ps = 1..Len(ps)
<1>1. ps \in Seq(Pins)
  <2>1. \A qs \in PinLists : qs \in Seq(Pins)
    BY MerchandisingAssumption DEF Pins
  <2>2. QED
    BY <2>1
<1>2. QED
  BY <1>1

LEMMA BoostListType ==
    ASSUME NEW bs \in BoostLists
    PROVE  BoostType(bs)
BY MerchandisingAssumption DEF BoostType

LEMMA SearchedPage ==
    ASSUME TypeOK
    PROVE  /\ PageType(Searched) /\ Len(Searched.hits) <= Limit
           /\ Searched.total = Len(matches) /\ Len(matches) \in Nat
<1>1. matches \in Found /\ scored \in BOOLEAN /\ page \in Nat
  BY MerchandisingAssumption DEF TypeOK, Found
<1>2. PICK found, w, k, r :
        /\ found \in Found /\ w \in BOOLEAN /\ k \in Nat
        /\ found = matches /\ w = scored /\ k = page /\ r = PageOf(found, w, k)
  BY <1>1
<1>3. PageType(r) /\ Len(r.hits) <= Limit /\ r.total = Len(found)
  BY <1>2, AnswerPage
<1>4. Len(found) \in Nat
  BY FoundDistinct DEF Distinct
<1>5. QED
  BY <1>2, <1>3, <1>4 DEF Searched

LEMMA PipeInit == Init => PipeInv
<1> SUFFICES ASSUME Init PROVE PipeInv
  OBVIOUS
<1>1. <<>> \in UNION {Perms(S) : S \in SUBSET Docs}
  <2>1. {} \in SUBSET Docs /\ Cardinality({}) = 0
    BY FS_EmptySet
  <2>2. <<>> \in Perms({})
    BY <2>1 DEF Perms, IsInjective
  <2>3. QED
    BY <2>1, <2>2
<1>2. result.hits = <<>> /\ result.scores = <<>> /\ result.total = 0
  BY DEF Init, Empty, Result
<1>3. /\ <<>> \in PinLists /\ <<>> \in BoostLists /\ 0 \in 0..(MaxPages - 1)
      /\ Limit \in Nat /\ Retries \in Nat
  BY MerchandisingAssumption
<1>4. TypeOK
  <2>1. given \in AllFilters
    <3>1. \A f \in Filters("caller") : f \in AllFilters
      BY DEF AllFilters, Filters
    <3>2. Text \in AllFilters
      BY DEF AllFilters
    <3>3. QED
      BY <3>1, <3>2 DEF Init
  <2>2. tries \in 0..(IF Retries = 0 THEN 1 ELSE Retries) /\ logged \in 0..(1 + tries)
    BY <1>3 DEF Init
  <2>3. /\ Len(result.hits) <= Limit + Len(pins) /\ Len(result.scores) \in {0, Len(result.hits)}
        /\ result.total \in Nat
    BY <1>2, <1>3 DEF Init
  <2>4. QED
    BY <1>1, <1>3, <2>1, <2>2, <2>3 DEF Init, TypeOK
<1>5. QED
  BY <1>4 DEF Init, PipeInv, Tried, Open, Pages, PinsLand, Nothing, Logged

(* Types, action by action.                                                *)
Stages == Early \cup {"alternative", "banners", "done"}
Outcomes == {"none", "plain", "merchandised", "redirect", "skipped", "fallback"}

LEMMA MergedType ==
    ASSUME NEW low \in AllFilters, NEW high \in AllFilters
    PROVE  Merged(low, high) \in AllFilters
BY DEF Merged, AllFilters

LEMMA OriginType ==
    ASSUME NEW origin \in {"caller", "preprocess", "rewrite"}, NEW f \in Filters(origin)
    PROVE  f \in AllFilters
BY DEF Filters, AllFilters

LEMMA NoFilter == {} \in AllFilters /\ {} \in Filters("caller")
<1>1. {} = {} \X {"caller"} /\ {} \in SUBSET FilterKeys
  OBVIOUS
<1>2. QED
  BY <1>1 DEF AllFilters, Filters

(* A stage that only moves on, or changes the filter or the outcome.        *)
LEMMA OnlyMoves ==
    ASSUME TypeOK, pc' \in Stages, filter' \in AllFilters, outcome' \in Outcomes,
           UNCHANGED <<inputs, log, given, result, tries, logged>>
    PROVE  TypeOK'
BY DEF TypeOK, inputs, Stages, Early, Outcomes

LEMMA EngineType ==
    ASSUME TypeOK, Engine, tries = 0, pc' \in Stages, outcome' \in Outcomes
    PROVE  TypeOK' /\ PageType(result') /\ result' = Searched'
<1>1. /\ matches' \in Found /\ scored' \in BOOLEAN /\ page' \in 0..(MaxPages - 1)
      /\ result' = PageOf(matches', scored', page')
      /\ logged' = (IF log THEN 1 ELSE 0) /\ filter' = {} /\ given' = {}
      /\ UNCHANGED <<pins, boosts, log, tries>>
  BY DEF Engine, Found
<1>2. PICK found, w, k, r :
        /\ found \in Found /\ w \in BOOLEAN /\ k \in Nat
        /\ found = matches' /\ w = scored' /\ k = page' /\ r = PageOf(found, w, k)
  BY <1>1, MerchandisingAssumption
<1>3. PageType(r) /\ Len(r.hits) <= Limit /\ r.total = Len(found)
  BY <1>2, AnswerPage
<1>4. r = result'
  BY <1>1, <1>2
<1>5. Len(pins) \in Nat /\ Limit \in Nat
  BY PinListType, MerchandisingAssumption DEF TypeOK
<1>6. Len(r.hits) \in Nat
  BY <1>3 DEF PageType, Distinct
<1>7. /\ Len(result'.hits) <= Limit + Len(pins') /\ Len(result'.scores) \in {0, Len(result'.hits)}
      /\ result'.total \in Nat
  <2>1. Len(r.hits) <= Limit + Len(pins)
    BY <1>3, <1>5, <1>6
  <2>2. QED
    BY <1>1, <1>3, <1>4, <2>1 DEF PageType
<1>8. logged' \in 0..(1 + tries')
  BY <1>1
<1>9. filter' \in AllFilters /\ given' \in Filters("caller") \cup {Text}
  BY <1>1, NoFilter
<1>10. TypeOK'
  BY <1>1, <1>7, <1>8, <1>9 DEF TypeOK, Found, Stages, Early, Outcomes
<1>11. QED
  BY <1>1, <1>3, <1>4, <1>10 DEF Searched

LEMMA PinType ==
    ASSUME PipeInv, Pin
    PROVE  /\ TypeOK' /\ Pinned(Searched', result', PinnedDocs', Len(pins')) /\ PinsLand'
           /\ KeepsScores(Searched', result', pins')
<1>1. /\ pc = "pins" /\ pins' \in PinLists /\ result' = ApplyPins(result, pins') /\ pc' = "boosts"
      /\ UNCHANGED <<matches, boosts, scored, page, log, filter, given, outcome, tries, logged>>
  BY DEF Pin, To
<1>2. TypeOK /\ result = Searched
  BY <1>1 DEF PipeInv, Pages
<1>3. PICK r0, ps, r : r0 = Searched /\ ps = pins' /\ r = result'
  OBVIOUS
<1>4. PageType(r0) /\ Len(r0.hits) <= Limit /\ Limit \in Nat
  BY <1>2, <1>3, SearchedPage, MerchandisingAssumption
<1>5. ps \in Seq(Pins) /\ Len(ps) \in Nat /\ DOMAIN ps = 1..Len(ps)
  BY <1>1, <1>3, PinListType
<1>6. r = ApplyPins(r0, ps)
  BY <1>1, <1>2, <1>3
<1>7. Pinned(r0, r, PinDocs(ps), Len(ps)) /\ KeepsScores(r0, r, ps)
  BY <1>4, <1>5, <1>6, PinsKeep
<1>8. Searched' = r0 /\ PinnedDocs' = PinDocs(ps) /\ Slice' = ToSet(r0.hits)
  BY <1>1, <1>3 DEF Searched, PinnedDocs, PinDocs, Slice
<1>9. /\ Len(r.hits) <= Limit + Len(ps) /\ Len(r.scores) \in {0, Len(r.hits)} /\ r.total \in Nat
  <2>1. PageType(r) /\ Len(r.hits) <= Len(r0.hits) + Len(ps)
    BY <1>7 DEF Pinned
  <2>2. Len(r.hits) \in Nat /\ Len(r0.hits) \in Nat
    BY <1>4, <2>1 DEF PageType, Distinct
  <2>3. \A x, y, z, l \in Nat : x <= y + z /\ y <= l => x <= l + z
    OBVIOUS
  <2>4. Len(r.hits) <= Limit + Len(ps)
    BY <1>4, <1>5, <2>1, <2>2, <2>3
  <2>5. QED
    BY <2>1, <2>4 DEF PageType
<1>10. TypeOK'
  <2>1. /\ Len(result'.hits) <= Limit + Len(pins') /\ Len(result'.scores) \in {0, Len(result'.hits)}
        /\ result'.total \in Nat
    BY <1>3, <1>9
  <2>2. QED
    BY <1>1, <1>2, <2>1 DEF TypeOK
<1>11. PinsLand'
  <2>1. ASSUME OnlyRaise' PROVE Raises(r0.hits, ps)
    <3>1. /\ IsInjective([i \in DOMAIN ps |-> ps[i].doc])
          /\ IsInjective([i \in DOMAIN ps |-> ps[i].position])
          /\ \A i \in DOMAIN ps : /\ ps[i].position # Buried
                                  /\ \/ PositionOf(r0.hits, ps[i].doc) = 0
                                     \/ PositionOf(r0.hits, ps[i].doc) > ps[i].position
      BY <1>3, <1>8, <2>1 DEF OnlyRaise
    <3>2. \A i, j \in DOMAIN ps : ps[i].doc = ps[j].doc => i = j
      BY <3>1 DEF IsInjective
    <3>3. \A i, j \in DOMAIN ps : ps[i].position = ps[j].position => i = j
      BY <3>1 DEF IsInjective
    <3>4. QED
      BY <1>5, <3>1, <3>2, <3>3 DEF Raises
  <2>2. ASSUME OnlyRaise', NEW i \in DOMAIN ps
        PROVE  LET at == PositionOf(r.hits, ps[i].doc)
               IN  \/ at = ps[i].position + 1
                   \/ /\ at \in 1..ps[i].position
                      /\ \A j \in at..Len(r.hits) : r.hits[j] \in PinDocs(ps)
    <3>1. Raises(r0.hits, ps) /\ i \in 1..Len(ps)
      BY <1>5, <2>1, <2>2
    <3>2. PICK hits : hits = ApplyPins(r0, ps).hits
      OBVIOUS
    <3>3. r.hits = hits
      BY <1>6, <3>2
    <3>4. LET at == PositionOf(hits, ps[i].doc)
          IN  \/ at = ps[i].position + 1
              \/ /\ at \in 1..ps[i].position
                 /\ \A j \in at..Len(hits) : hits[j] \in PinDocs(ps)
      BY <1>4, <1>5, <3>1, <3>2, PinsLandAll
    <3>5. QED
      BY <3>3, <3>4
  <2>3. QED
    BY <1>3, <1>8, <2>2 DEF PinsLand
<1>12. QED
  BY <1>3, <1>7, <1>8, <1>10, <1>11

LEMMA BoostKeeps ==
    ASSUME PipeInv, Boost
    PROVE  TypeOK' /\ Rearranged(Searched', result', PinnedDocs')
<1>1. /\ pc = "boosts" /\ boosts' \in BoostLists /\ result' = ApplyBoosts(result, boosts')
      /\ pc' = "fallback"
      /\ UNCHANGED <<matches, pins, scored, page, log, filter, given, outcome, tries, logged>>
  BY DEF Boost, To
<1>2. TypeOK /\ Pinned(Searched, result, PinnedDocs, Len(pins))
  BY <1>1 DEF PipeInv, Pages
<1>3. PICK r0, r, bs, new : r0 = Searched /\ r = result /\ bs = boosts' /\ new = result'
  OBVIOUS
<1>4. PageType(r) /\ BoostType(bs) /\ new = ApplyBoosts(r, bs)
  BY <1>1, <1>2, <1>3, BoostListType DEF Pinned
<1>5. /\ PageType(new) /\ Len(new.hits) = Len(r.hits)
      /\ ToSet(new.hits) = ToSet(r.hits) /\ new.total = r.total
  BY <1>4, BoostsKeep
<1>6. Rearranged(r0, new, PinnedDocs)
  BY <1>2, <1>3, <1>5 DEF Pinned, Rearranged
<1>7. Searched' = r0 /\ PinnedDocs' = PinnedDocs
  BY <1>1, <1>3 DEF Searched, PinnedDocs
<1>8. /\ Len(result'.hits) <= Limit + Len(pins') /\ Len(result'.scores) \in {0, Len(result'.hits)}
      /\ result'.total \in Nat
  <2>1. Len(r.hits) <= Limit + Len(pins)
    BY <1>2, <1>3 DEF TypeOK
  <2>2. QED
    BY <1>1, <1>3, <1>5, <2>1 DEF PageType
<1>9. TypeOK'
  BY <1>1, <1>2, <1>8 DEF TypeOK
<1>10. QED
  BY <1>3, <1>6, <1>7, <1>9

(* A page with nothing on it and no total: nothing was found or pinned.     *)
LEMMA NothingThere ==
    ASSUME TypeOK, Rearranged(Searched, result, PinnedDocs), NothingFound(result)
    PROVE  matches = <<>> /\ pins = <<>>
<1>1. result.hits = <<>> /\ result.total = 0
  BY DEF NothingFound
<1>2. ToSet(result.hits) = {}
  BY <1>1 DEF ToSet
<1>3. /\ ToSet(result.hits) = ToSet(Searched.hits) \cup PinnedDocs
      /\ result.total = Searched.total + Cardinality(ToSet(result.hits) \ ToSet(Searched.hits))
  BY DEF Rearranged
<1>4. pins = <<>>
  <2>1. PICK ps : ps = pins
    OBVIOUS
  <2>2. ps \in Seq(Pins) /\ Len(ps) \in Nat /\ DOMAIN ps = 1..Len(ps)
    BY <2>1, PinListType DEF TypeOK
  <2>3. PinDocs(ps) = {}
    BY <1>2, <1>3, <2>1 DEF PinnedDocs, PinDocs
  <2>4. 1 \notin 1..Len(ps)
    BY <2>2, <2>3 DEF PinDocs
  <2>5. Len(ps) = 0
    BY <2>2, <2>4
  <2>6. QED
    BY <2>1, <2>2, <2>5
<1>5. matches = <<>>
  <2>1. Searched.total = Len(matches) /\ Len(matches) \in Nat
    BY SearchedPage
  <2>2. ToSet(result.hits) \ ToSet(Searched.hits) = {}
    BY <1>2
  <2>3. Cardinality(ToSet(result.hits) \ ToSet(Searched.hits)) = 0
    BY <2>2, FS_EmptySet
  <2>4. Len(matches) = 0
    BY <1>1, <1>3, <2>1, <2>3
  <2>5. PICK found \in Found : found = matches
    BY DEF TypeOK, Found
  <2>6. found \in Seq(Docs)
    BY FoundDistinct DEF Distinct
  <2>7. QED
    BY <2>4, <2>5, <2>6
<1>6. QED
  BY <1>4, <1>5

LEMMA AlternativeType ==
    ASSUME TypeOK, Tried, Alternative
    PROVE  TypeOK' /\ Tried' /\ tries' > 0
<1>1. /\ pc = "alternative" /\ tries' = tries + 1 /\ logged' = logged + 1
      /\ UNCHANGED <<inputs, log, filter, given>>
  BY DEF Alternative
<1>2. PICK found \in {<<>>} \cup {<<d>> : d \in Docs} :
        /\ result' = Result(found, <<>>, Len(found))
        /\ \/ pc' = "banners" /\ outcome' = "fallback"
           \/ pc' = "alternative" /\ outcome' = outcome /\ tries' < Retries
  BY DEF Alternative, To, Retry
<1>3. Len(found) \in {0, 1}
  BY <1>2
<1>4. /\ tries \in Nat /\ Retries \in Nat /\ (tries = 0 \/ tries < Retries)
      /\ tries \in 0..(IF Retries = 0 THEN 1 ELSE Retries) /\ logged \in 0..(1 + tries)
  BY <1>1, MerchandisingAssumption DEF TypeOK, Tried
<1>5. /\ tries' \in 0..(IF Retries = 0 THEN 1 ELSE Retries) /\ logged' \in 0..(1 + tries')
      /\ tries' > 0
  <2>1. CASE Retries = 0
    BY <1>1, <1>4, <2>1
  <2>2. CASE Retries # 0
    BY <1>1, <1>4, <2>2
  <2>3. QED
    BY <2>1, <2>2
<1>6. /\ Len(result'.hits) <= Limit + Len(pins') /\ Len(result'.scores) \in {0, Len(result'.hits)}
      /\ result'.total \in Nat
  <2>1. Len(pins) \in Nat /\ Limit \in Nat \ {0} /\ pins' = pins
    BY <1>1, PinListType, MerchandisingAssumption DEF TypeOK, inputs
  <2>2. result'.hits = found /\ result'.scores = <<>> /\ result'.total = Len(found)
    BY <1>2 DEF Result
  <2>3. \A n \in {0, 1} : \A l \in Nat \ {0} : \A m \in Nat : n <= l + m
    OBVIOUS
  <2>4. Len(found) <= Limit + Len(pins)
    BY <1>3, <2>1, <2>3
  <2>5. QED
    BY <1>3, <2>1, <2>2, <2>4
<1>7. TypeOK'
  BY <1>1, <1>2, <1>5, <1>6 DEF TypeOK, inputs
<1>8. QED
  BY <1>1, <1>2, <1>5, <1>7 DEF Tried, Early

LEMMA PipeStep == PipeInv /\ [Next]_vars => PipeInv'
<1> SUFFICES ASSUME PipeInv, [Next]_vars PROVE PipeInv'
  OBVIOUS
<1>0. /\ TypeOK /\ Tried /\ Open /\ Pages /\ PinsLand /\ Nothing /\ Logged
      /\ pc \in Stages /\ outcome \in Outcomes /\ filter \in AllFilters
      /\ given \in Filters("caller") \cup {Text}
  BY DEF PipeInv, TypeOK, Stages, Early, Outcomes
(* A stage before the search, or after the boosts, that moves on.           *)
<1>1. ASSUME pc \in Early, pc \notin {"pins", "boosts"},
             pc' \in (Early \ {"pins", "boosts", "fallback"}) \cup {"done", "banners"},
             filter' \in AllFilters,
             outcome' = outcome \/ (pc' = "done" /\ outcome' \in {"redirect", "skipped"}),
             UNCHANGED <<inputs, log, given, result, tries, logged>>
      PROVE  PipeInv'
  <2>1. TypeOK'
    <3>1. pc' \in Stages /\ outcome' \in Outcomes
      BY <1>0, <1>1 DEF Stages, Early, Outcomes
    <3>2. QED
      BY <1>0, <1>1, <3>1, OnlyMoves
  <2>2. outcome = "none" /\ tries = 0
    BY <1>0, <1>1 DEF Open, Tried, Early
  <2>3. Tried' /\ Open' /\ Logged'
    BY <1>0, <1>1, <2>2 DEF Tried, Open, Logged, Early
  <2>4. Pages' /\ PinsLand' /\ Nothing'
    BY <1>1, <2>2 DEF Pages, PinsLand, Nothing, Early
  <2>5. QED
    BY <2>1, <2>3, <2>4 DEF PipeInv
<1>2. ASSUME pc \in Early, tries = 0, Engine, pc' \in {"pins", "done"},
             outcome' \in {"none", "plain"}, pc' = "pins" => outcome' = "none"
      PROVE  PipeInv'
  <2>1. TypeOK' /\ result' = Searched'
    <3>1. pc' \in Stages /\ outcome' \in Outcomes
      BY <1>2 DEF Stages, Early, Outcomes
    <3>2. QED
      BY <1>0, <1>2, <3>1, EngineType
  <2>2. Tried' /\ Open' /\ Pages' /\ PinsLand' /\ Nothing'
    BY <1>2, <2>1 DEF Engine, Tried, Open, Pages, PinsLand, Nothing, Early
  <2>3. Logged'
    BY <1>2 DEF Engine, Logged
  <2>4. QED
    BY <2>1, <2>2, <2>3 DEF PipeInv
<1>3. CASE Gate
  <2>1. pc = "gate" /\ outcome = "none" /\ tries = 0 /\ pc \in Early
    BY <1>0, <1>3 DEF Gate, Tried, Open, Early
  <2>2. CASE Engine /\ outcome' = "plain" /\ pc' = "done"
    BY <1>2, <2>1, <2>2
  <2>3. CASE /\ pc' = "preprocess"
             /\ UNCHANGED <<inputs, log, filter, given, result, outcome, tries, logged>>
    BY <1>0, <1>1, <2>1, <2>3 DEF Early
  <2>4. QED
    BY <1>3, <2>2, <2>3 DEF Gate, To
<1>4. CASE Preprocess
  <2>1. pc = "preprocess" /\ pc \in Early
    BY <1>4 DEF Preprocess, Early
  <2>2. ASSUME NEW extracted \in Filters("preprocess"),
               filter' = (IF extracted = {} THEN filter ELSE MergedUnder(extracted)),
               pc' = "redirect", UNCHANGED <<inputs, log, given, result, outcome, tries, logged>>
        PROVE  PipeInv'
    <3>1. extracted \in AllFilters /\ given \in AllFilters
      <4>1. Text \in AllFilters
        BY DEF AllFilters
      <4>2. QED
        BY <1>0, <2>2, <4>1, OriginType
    <3>2. filter' \in AllFilters
      BY <1>0, <2>2, <3>1, MergedType DEF MergedUnder
    <3>3. QED
      BY <1>1, <2>1, <2>2, <3>2 DEF Early
  <2>3. ASSUME NEW how \in {"redirect", "skipped"}, Ends(how) PROVE PipeInv'
    BY <1>1, <2>1, <2>3, NoFilter DEF Ends, To, Early
  <2>4. QED
    BY <1>4, <2>2, <2>3 DEF Preprocess, To
<1>5. CASE Redirect
  <2>1. pc = "redirect" /\ pc \in Early
    BY <1>5 DEF Redirect, Early
  <2>2. CASE Ends("redirect")
    BY <1>1, <2>1, <2>2, NoFilter DEF Ends, To, Early
  <2>3. CASE /\ pc' = "rewrite"
             /\ UNCHANGED <<inputs, log, filter, given, result, outcome, tries, logged>>
    BY <1>0, <1>1, <2>1, <2>3 DEF Early
  <2>4. QED
    BY <1>5, <2>2, <2>3 DEF Redirect, To
<1>6. CASE Rewrite
  <2>1. PICK added \in Filters("rewrite"), merge \in BOOLEAN :
          filter' = IF added = {} THEN filter
                    ELSE IF merge THEN Merged(filter, added) ELSE added
    BY <1>6 DEF Rewrite
  <2>2. added \in AllFilters
    BY OriginType
  <2>3. filter' \in AllFilters
    BY <1>0, <2>1, <2>2, MergedType
  <2>4. QED
    BY <1>1, <1>6, <2>3 DEF Rewrite, To, Early
<1>7. CASE Search
  <2>1. pc = "search" /\ outcome = "none" /\ tries = 0 /\ pc \in Early
    BY <1>0, <1>7 DEF Search, Tried, Open, Early
  <2>2. QED
    BY <1>2, <1>7, <2>1 DEF Search, To
<1>8. CASE Pin
  <2>1. /\ TypeOK' /\ Pinned(Searched', result', PinnedDocs', Len(pins')) /\ PinsLand'
        /\ KeepsScores(Searched', result', pins')
    BY <1>8, PinType
  <2>2. /\ pc = "pins" /\ pc' = "boosts" /\ outcome = "none" /\ tries = 0
        /\ UNCHANGED <<log, outcome, tries, logged>>
    BY <1>0, <1>8 DEF Pin, To, Tried, Open, Early
  <2>3. Tried' /\ Open' /\ Pages' /\ Nothing' /\ Logged'
    BY <1>0, <2>1, <2>2 DEF Tried, Open, Pages, Nothing, Logged, Early
  <2>4. QED
    BY <2>1, <2>3 DEF PipeInv
<1>9. CASE Boost
  <2>1. TypeOK' /\ Rearranged(Searched', result', PinnedDocs')
    BY <1>9, BoostKeeps
  <2>2. /\ pc = "boosts" /\ pc' = "fallback" /\ outcome = "none" /\ tries = 0
        /\ UNCHANGED <<log, outcome, tries, logged>>
    BY <1>0, <1>9 DEF Boost, To, Tried, Open, Early
  <2>3. Tried' /\ Open' /\ Pages' /\ PinsLand' /\ Nothing' /\ Logged'
    BY <1>0, <2>1, <2>2 DEF Tried, Open, Pages, PinsLand, Nothing, Logged, Early
  <2>4. QED
    BY <2>1, <2>3 DEF PipeInv
<1>10. CASE Fallback
  <2>1. /\ pc = "fallback" /\ pc \in Early /\ outcome = "none" /\ tries = 0
        /\ Rearranged(Searched, result, PinnedDocs)
    BY <1>0, <1>10 DEF Fallback, Tried, Open, Pages, Early
  <2>2. CASE /\ pc' = "banners"
             /\ UNCHANGED <<inputs, log, filter, given, result, outcome, tries, logged>>
    BY <1>0, <1>1, <2>1, <2>2
  <2>3. CASE Ends("redirect")
    BY <1>1, <2>1, <2>3, NoFilter DEF Ends, To
  <2>4. CASE /\ NothingFound(result)
             /\ \/ pc' = "banners" /\ outcome' = "fallback"
                \/ pc' = "alternative" /\ outcome' = outcome
             /\ UNCHANGED <<inputs, log, filter, given, result, tries, logged>>
    <3>1. matches = <<>> /\ pins = <<>>
      BY <1>0, <2>1, <2>4, NothingThere
    <3>2. TypeOK'
      <4>1. pc' \in Stages /\ outcome' \in Outcomes
        BY <2>1, <2>4 DEF Stages, Outcomes
      <4>2. QED
        BY <1>0, <2>4, <4>1, OnlyMoves
    <3>3. Tried' /\ Open' /\ Logged'
      BY <1>0, <2>1, <2>4 DEF Tried, Open, Logged, Early
    <3>4. Pages' /\ PinsLand' /\ Nothing'
      BY <2>4, <3>1 DEF Pages, PinsLand, Nothing, inputs
    <3>5. QED
      BY <3>2, <3>3, <3>4 DEF PipeInv
  <2>5. QED
    BY <1>10, <2>2, <2>3, <2>4 DEF Fallback, To
<1>11. CASE Alternative
  <2>1. TypeOK' /\ Tried' /\ tries' > 0
    BY <1>0, <1>11, AlternativeType
  <2>2. /\ pc = "alternative" /\ outcome = "none" /\ UNCHANGED inputs
        /\ \/ pc' = "banners" /\ outcome' = "fallback"
           \/ pc' = "alternative" /\ outcome' = outcome
    BY <1>0, <1>11 DEF Alternative, To, Open
  <2>3. Open' /\ Pages' /\ PinsLand' /\ Nothing' /\ Logged'
    BY <1>0, <2>1, <2>2 DEF Open, Pages, PinsLand, Nothing, Logged, inputs
  <2>4. QED
    BY <2>1, <2>3 DEF PipeInv
<1>12. CASE Banners
  <2>1. /\ pc = "banners" /\ pc' = "done" /\ filter' = filter
        /\ outcome' = (IF outcome = "fallback" THEN outcome ELSE "merchandised")
        /\ UNCHANGED <<inputs, log, given, result, tries, logged>>
    BY <1>12 DEF Banners, To
  <2>2. TypeOK'
    <3>1. pc' \in Stages /\ outcome' \in Outcomes
      BY <1>0, <2>1 DEF Stages, Outcomes
    <3>2. QED
      BY <1>0, <2>1, <3>1, OnlyMoves
  <2>3. Tried' /\ Open' /\ Pages' /\ PinsLand' /\ Nothing' /\ Logged'
    BY <1>0, <2>1 DEF Tried, Open, Pages, PinsLand, Nothing, Logged, Early, inputs
  <2>4. QED
    BY <2>2, <2>3 DEF PipeInv
<1>13. CASE UNCHANGED vars
  <2>1. TypeOK'
    BY <1>0, <1>13, OnlyMoves DEF vars
  <2>2. Searched' = Searched /\ PinnedDocs' = PinnedDocs
        /\ (KeepsScores(Searched, result, pins) <=> KeepsScores(Searched', result', pins'))
    BY <1>13 DEF vars, inputs, Searched, PinnedDocs
  <2>3. Tried' /\ Open' /\ Pages' /\ Nothing' /\ Logged'
    BY <1>0, <1>13, <2>2 DEF Tried, Open, Pages, Nothing, Logged, vars, inputs
  <2>4. PinsLand'
    BY <1>0, <1>13, <2>2 DEF PinsLand, OnlyRaise, vars, inputs
  <2>5. QED
    BY <2>1, <2>3, <2>4 DEF PipeInv
<1>14. QED
  BY <1>3, <1>4, <1>5, <1>6, <1>7, <1>8, <1>9, <1>10, <1>11, <1>12, <1>13 DEF Next

(* TypeOK holds for any documents, rules, fields, page size and retries.    *)
THEOREM TypeCorrect == Spec => []TypeOK
<1>1. PipeInv => TypeOK
  BY DEF PipeInv
<1>2. QED
  BY <1>1, PipeInit, PipeStep, PTL DEF Spec

(* PinsLand: pins that only raise documents are where their rules put them  *)
(* (services/pins.py:46).                                                  *)
THEOREM PinsArePlaced == Spec => []PinsLand
<1>1. PipeInv => PinsLand
  BY DEF PipeInv
<1>2. QED
  BY <1>1, PipeInit, PipeStep, PTL DEF Spec

(* PageKept: pins and boosts rearrange a page and lose no hit; before the   *)
(* boosts each hit has its own score, and the scores are gone only where the *)
(* engine gave none or the first pin took the page's only hit              *)
(* (services/pins.py:98-119, services/boosts.py:42).                       *)
THEOREM PagesAreKept == Spec => []PageKept
<1>1. PipeInv => PageKept
  <2> SUFFICES ASSUME PipeInv, pc \in {"boosts", "fallback"}
               PROVE  /\ IsInjective(result.hits)
                      /\ ToSet(result.hits) = Slice \cup PinnedDocs
                      /\ result.total = Len(matches) + Cardinality(PinnedDocs \ Slice)
                      /\ pc = "boosts" =>
                          result.scores = IF Searched.scores = <<>> \/ ScoresDropped THEN <<>>
                                          ELSE [i \in DOMAIN result.hits |-> OwnScore(result.hits[i])]
    BY DEF PageKept
  <2>1. /\ PageType(result) /\ ToSet(result.hits) = Slice \cup PinnedDocs
        /\ result.total = Searched.total + Cardinality(ToSet(result.hits) \ Slice)
        /\ pc = "boosts" =>
             /\ \A i \in 1..Len(result.scores) : result.scores[i] = Own(Searched, result.hits[i])
             /\ KeepsScores(Searched, result, pins)
    BY DEF PipeInv, Pages, Pinned, Rearranged, Slice
  <2>2. PICK r : r = result
    OBVIOUS
  <2>3. /\ r.hits \in Seq(Docs) /\ \A i, j \in 1..Len(r.hits) : r.hits[i] = r.hits[j] => i = j
        /\ DOMAIN r.hits = 1..Len(r.hits) /\ DOMAIN r.scores = 1..Len(r.scores)
    BY <2>1, <2>2 DEF PageType, Distinct, Scores
  <2>4. IsInjective(r.hits)
    BY <2>3 DEF IsInjective
  <2>5. ToSet(result.hits) \ Slice = PinnedDocs \ Slice
    BY <2>1
  <2>6. Searched.total = Len(matches)
    BY SearchedPage DEF PipeInv
  <2>7. PageType(Searched)
    BY SearchedPage DEF PipeInv
  <2>8. Alone(Searched.hits, InPinOrder(pins)[1].doc)
        <=> Searched.hits = <<InPinOrder(pins)[1].doc>>
    <3>1. PICK h, d : h = Searched.hits /\ d = InPinOrder(pins)[1].doc
      OBVIOUS
    <3>2. h \in Seq(Docs)
      BY <2>7, <3>1 DEF PageType, Distinct
    <3>3. Alone(h, d) => h = <<d>>
      BY <3>2 DEF Alone
    <3>4. h = <<d>> => Alone(h, d)
      BY DEF Alone
    <3>5. QED
      BY <3>1, <3>3, <3>4
  <2>9. ASSUME pc = "boosts"
        PROVE  result.scores = IF Searched.scores = <<>> \/ ScoresDropped THEN <<>>
                               ELSE [i \in DOMAIN result.hits |-> OwnScore(result.hits[i])]
    <3>1. result.scores = <<>> <=> Searched.scores = <<>> \/ ScoresDropped
      BY <2>1, <2>8, <2>9 DEF KeepsScores, ScoresDropped
    <3>2. CASE Searched.scores = <<>> \/ ScoresDropped
      BY <3>1, <3>2
    <3>3. CASE ~ (Searched.scores = <<>> \/ ScoresDropped)
      <4>1. r.scores # <<>> /\ r.scores \in Scores /\ Len(r.scores) \in {0, Len(r.hits)}
        BY <2>1, <2>2, <3>1, <3>3 DEF PageType
      <4>2. Len(r.scores) = Len(r.hits)
        BY <4>1 DEF Scores
      <4>3. \A i \in 1..Len(r.hits) : r.scores[i] = OwnScore(r.hits[i])
        BY <2>1, <2>2, <2>9, <4>2 DEF Own, OwnScore
      <4>4. r.scores = [i \in 1..Len(r.scores) |-> r.scores[i]]
        BY <4>1 DEF Scores
      <4>5. r.scores = [i \in 1..Len(r.hits) |-> OwnScore(r.hits[i])]
        BY <4>2, <4>3, <4>4
      <4>6. QED
        BY <2>2, <2>3, <3>3, <4>5
    <3>4. QED
      BY <3>2, <3>3
  <2>10. QED
    BY <2>1, <2>2, <2>4, <2>5, <2>6, <2>9
<1>2. QED
  BY <1>1, PipeInit, PipeStep, PTL DEF Spec

(* FallbackLast: a fallback is offered only where nothing was found, and a  *)
(* request that asked not to be logged is logged by its fallback only       *)
(* (services/fallbacks.py:44).                                             *)
THEOREM FallbackIsLast == Spec => []FallbackLast
<1>1. PipeInv => FallbackLast
  BY DEF PipeInv, Nothing, Logged, FallbackLast
<1>2. QED
  BY <1>1, PipeInit, PipeStep, PTL DEF Spec

-----------------------------------------------------------------------------
(* The rule cache: the state is well typed, and a cached listing that      *)
(* differs from the rules is about to be deleted, or escaped the signal by *)
(* an event that the model records.                                        *)

RuleRows == [Rules -> Row \cup {Nil}]

(* What a query finds is a listing.                                        *)
LEMMA ListedType ==
    ASSUME NEW rows \in RuleRows, NEW k
    PROVE  Listed(rows, k) \in Listing
<1> DEFINE found == {r \in Rules : rows[r] # Nil /\ rows[r].active
                                   /\ rows[r].tenant \in {k, Global}}
<1>1. \A r \in found : r \in Rules /\ rows[r].version \in 0..MaxEdits
  BY DEF RuleRows, Row
<1>2. {<<r, rows[r].version>> : r \in found} \in SUBSET (Rules \X (0..MaxEdits))
  BY <1>1
<1>3. QED
  BY <1>2 DEF Listed, Listing

(* The row that a save leaves, and the tenant its signal names.            *)
LEMMA ChangesType ==
    ASSUME rule \in RuleRows, edits \in 0..MaxEdits, edits < MaxEdits,
           NEW r \in Rules, NEW new \in Changes(r)
    PROVE  /\ new \in Row \cup {Nil}
           /\ Signalled(r, new) \in Keys
           /\ edits + 1 \in 0..MaxEdits
<1>1. edits + 1 \in 0..MaxEdits
  BY RuleAssumption
<1>2. \A k \in Keys : [tenant |-> k, version |-> edits + 1, active |-> TRUE] \in Row
  BY <1>1 DEF Row
<1>3. new \in Row \/ (new = Nil /\ rule[r] # Nil)
  BY <1>2 DEF Changes
<1>4. rule[r] \in Row \cup {Nil}
  BY DEF RuleRows
<1>5. \A x \in Row : x.tenant \in Keys
  BY DEF Row
<1>6. Signalled(r, new) \in Keys
  BY <1>3, <1>4, <1>5 DEF Signalled
<1>7. QED
  BY <1>1, <1>3, <1>6

LEMMA DownType ==
    ASSUME NEW m \in Nat, NEW n \in 0..m
    PROVE  Down(n) \in 0..m
BY DEF Down

LEMMA EscapesType ==
    ASSUME NEW new, NEW covered
    PROVE  Escapes(new, covered) \in [Keys -> BOOLEAN]
<1>1. \A k \in Keys :
        (\/ astray[k]
         \/ /\ cache[k] # Nil /\ k \notin covered
            /\ Listed(new, k) # Listed(rule, k)) \in BOOLEAN
  OBVIOUS
<1>2. QED
  BY <1>1 DEF Escapes

-----------------------------------------------------------------------------
(* Types, action by action.                                                *)
LEMMA RuleTypeInit == RuleInit => RuleTypeOK
BY RuleAssumption DEF RuleInit, RuleTypeOK, Listing

LEMMA RuleTypeStep == RuleTypeOK /\ [RuleNext]_ruleVars => RuleTypeOK'
<1> SUFFICES ASSUME RuleTypeOK, [RuleNext]_ruleVars
             PROVE  RuleTypeOK'
  OBVIOUS
<1>0. rule \in RuleRows /\ Global \in Keys
  BY DEF RuleTypeOK, RuleRows, Keys
<1>1. ASSUME NEW l \in Loaders, NEW k \in Keys, Miss(l, k)
      PROVE  RuleTypeOK'
  BY <1>1 DEF RuleTypeOK, Miss, editorVars
<1>2. ASSUME NEW l \in Loaders, Query(l)
      PROVE  RuleTypeOK'
  <2>1. Listed(rule, lkey[l]) \in Listing
    BY <1>0, ListedType
  <2>2. QED
    BY <1>2, <2>1 DEF RuleTypeOK, Query, editorVars
<1>3. ASSUME NEW l \in Loaders, Store(l)
      PROVE  RuleTypeOK'
  <2>1. {} \in Listing /\ Timeout \in 0..Timeout
    BY RuleAssumption DEF Listing
  <2>2. /\ cache' \in [Keys -> Listing \cup {Nil}]
        /\ ttl' \in [Keys -> 0..Timeout]
    BY <1>3, <2>1 DEF RuleTypeOK, Store
  <2>3. astray' \in [Keys -> BOOLEAN]
    BY <1>3 DEF RuleTypeOK, Store
  <2>4. /\ lpc' \in [Loaders -> {"idle", "query", "store"}]
        /\ lkey' \in [Loaders -> Keys \cup {Nil}] /\ lgot' \in [Loaders -> Listing]
    BY <1>3, <2>1 DEF RuleTypeOK, Store, Loaded
  <2>5. QED
    BY <1>3, <2>2, <2>3, <2>4 DEF RuleTypeOK, Store, editorVars
<1>4. ASSUME NEW e \in Editors, NEW r \in Rules, SaveAutocommit(e, r)
      PROVE  RuleTypeOK'
  <2>1. PICK new \in Changes(r) :
          /\ edits < MaxEdits /\ edits' = edits + 1
          /\ rule' = [rule EXCEPT ![r] = new]
          /\ epc' = [epc EXCEPT ![e] = "autocommit"]
          /\ wipe' = [wipe EXCEPT ![e] = Signalled(r, new)]
          /\ astray' = Escapes([rule EXCEPT ![r] = new], {Signalled(r, new), Global})
          /\ UNCHANGED <<cache, ttl, loaderVars, edited, pending>>
    BY <1>4 DEF SaveAutocommit
  <2>2. /\ new \in Row \cup {Nil} /\ Signalled(r, new) \in Keys
        /\ edits + 1 \in 0..MaxEdits
    BY <1>0, <2>1, ChangesType DEF RuleTypeOK
  <2>3. astray' \in [Keys -> BOOLEAN]
    BY <2>1, EscapesType
  <2>4. /\ rule' \in [Rules -> Row \cup {Nil}] /\ edits' \in 0..MaxEdits
        /\ wipe' \in [Editors -> Keys \cup {Nil}]
        /\ epc' \in [Editors -> {"idle", "autocommit", "atomic", "commit"}]
    BY <2>1, <2>2 DEF RuleTypeOK
  <2>5. QED
    BY <2>1, <2>3, <2>4 DEF RuleTypeOK, loaderVars
<1>5. ASSUME NEW e \in Editors, NEW r \in Rules, SaveAtomic(e, r)
      PROVE  RuleTypeOK'
  <2>1. PICK new \in Changes(r) :
          /\ edits < MaxEdits /\ edits' = edits + 1
          /\ epc' = [epc EXCEPT ![e] = "atomic"]
          /\ edited' = [edited EXCEPT ![e] = r] /\ pending' = [pending EXCEPT ![e] = new]
          /\ wipe' = [wipe EXCEPT ![e] = Signalled(r, new)]
          /\ UNCHANGED <<rule, cache, ttl, loaderVars, astray>>
    BY <1>5 DEF SaveAtomic
  <2>2. /\ new \in Row \cup {Nil} /\ Signalled(r, new) \in Keys
        /\ edits + 1 \in 0..MaxEdits
    BY <1>0, <2>1, ChangesType DEF RuleTypeOK
  <2>3. /\ edits' \in 0..MaxEdits
        /\ wipe' \in [Editors -> Keys \cup {Nil}]
        /\ epc' \in [Editors -> {"idle", "autocommit", "atomic", "commit"}]
    BY <2>1, <2>2 DEF RuleTypeOK
  <2>4. /\ edited' \in [Editors -> Rules \cup {Nil}]
        /\ pending' \in [Editors -> Row \cup {Nil}]
    BY <2>1, <2>2 DEF RuleTypeOK
  <2>5. QED
    BY <2>1, <2>3, <2>4 DEF RuleTypeOK, loaderVars
<1>6. ASSUME NEW e \in Editors, Invalidate(e)
      PROVE  RuleTypeOK'
  <2>1. /\ cache' \in [Keys -> Listing \cup {Nil}]
        /\ astray' \in [Keys -> BOOLEAN]
    BY <1>6 DEF RuleTypeOK, Invalidate
  <2>2. ttl' \in [Keys -> 0..Timeout]
    <3>1. 0 \in 0..Timeout
      BY RuleAssumption
    <3>2. QED
      BY <1>6, <3>1 DEF RuleTypeOK, Invalidate
  <2>3. wipe' \in [Editors -> Keys \cup {Nil}]
    BY <1>0, <1>6 DEF RuleTypeOK, Invalidate
  <2>4. epc' \in [Editors -> {"idle", "autocommit", "atomic", "commit"}]
    BY <1>6 DEF RuleTypeOK, Invalidate
  <2>5. QED
    BY <1>6, <2>1, <2>2, <2>3, <2>4 DEF RuleTypeOK, Invalidate, loaderVars
<1>7. ASSUME NEW e \in Editors, Commit(e)
      PROVE  RuleTypeOK'
  <2>1. rule' \in [Rules -> Row \cup {Nil}]
    BY <1>7 DEF RuleTypeOK, Commit
  <2>2. astray' \in [Keys -> BOOLEAN]
    BY <1>7, EscapesType DEF Commit
  <2>3. QED
    BY <1>7, <2>1, <2>2 DEF RuleTypeOK, Commit, Left, loaderVars
<1>8. ASSUME NEW e \in Editors, Abandon(e)
      PROVE  RuleTypeOK'
  <2>1. astray' \in [Keys -> BOOLEAN]
    BY <1>8 DEF RuleTypeOK, Abandon
  <2>2. QED
    BY <1>8, <2>1 DEF RuleTypeOK, Abandon, Left, loaderVars
<1>9. ASSUME NEW rs \in SUBSET Rules, NEW on \in BOOLEAN, SetActive(rs, on)
      PROVE  RuleTypeOK'
  <2>1. \A r \in rs : rule[r] \in Row
    BY <1>9 DEF RuleTypeOK, SetActive
  <2>2. \A r \in rs : [rule[r] EXCEPT !.active = on] \in Row
    BY <2>1 DEF Row
  <2>3. rule' \in [Rules -> Row \cup {Nil}]
    BY <1>9, <2>2 DEF RuleTypeOK, SetActive
  <2>4. astray' \in [Keys -> BOOLEAN]
    BY <1>9, EscapesType DEF SetActive
  <2>5. QED
    BY <1>9, <2>3, <2>4 DEF RuleTypeOK, SetActive, loaderVars, editorVars
<1>10. CASE Tick
  <2>1. ttl' \in [Keys -> 0..Timeout]
    BY <1>10, DownType, RuleAssumption DEF RuleTypeOK, Tick
  <2>2. cache' \in [Keys -> Listing \cup {Nil}]
    BY <1>10 DEF RuleTypeOK, Tick
  <2>3. astray' \in [Keys -> BOOLEAN]
    BY <1>10 DEF RuleTypeOK, Tick
  <2>4. QED
    BY <1>10, <2>1, <2>2, <2>3 DEF RuleTypeOK, Tick, loaderVars, editorVars
<1>11. CASE UNCHANGED ruleVars
  BY <1>11 DEF RuleTypeOK, ruleVars, loaderVars, editorVars
<1>12. QED
  BY <1>1, <1>2, <1>3, <1>4, <1>5, <1>6, <1>7, <1>8, <1>9, <1>10, <1>11
     DEF RuleNext, Load

(* RuleTypeOK holds for any rules, tenants, loaders and editors and any     *)
(* timeout.                                                                 *)
THEOREM RuleTypeCorrect == RuleSpec => []RuleTypeOK
<1>1. QED
  BY RuleTypeInit, RuleTypeStep, PTL DEF RuleSpec

-----------------------------------------------------------------------------
(* What the signal covers.                                                  *)
SeenInv == RuleTypeOK /\ RulesSeen

(* When rows become new, every entry that was accounted for still is, if    *)
(* what Escapes records is recorded and who will delete it still will.      *)
LEMMA Accounted ==
    ASSUME SeenInv, NEW k \in Keys, Stale(k)', cache' = cache,
           NEW covered, astray' = Escapes(rule', covered), k \notin covered,
           WillDelete(k) => WillDelete(k)'
    PROVE  WillDelete(k)' \/ astray'[k]
<1>1. CASE Listed(rule', k) = Listed(rule, k)
  <2>1. Stale(k)
    BY <1>1 DEF Stale
  <2>2. WillDelete(k) \/ astray[k]
    BY <2>1 DEF SeenInv, RulesSeen
  <2>3. QED
    BY <2>2 DEF Escapes
<1>2. CASE Listed(rule', k) # Listed(rule, k)
  BY <1>2 DEF Escapes, Stale
<1>3. QED
  BY <1>1, <1>2

LEMMA SeenStep == SeenInv /\ [RuleNext]_ruleVars => RulesSeen'
<1> SUFFICES ASSUME SeenInv, [RuleNext]_ruleVars, NEW k \in Keys, Stale(k)'
             PROVE  WillDelete(k)' \/ astray'[k]
  BY DEF RulesSeen
<1>1. ASSUME UNCHANGED <<rule, cache, astray>>, WillDelete(k) => WillDelete(k)'
      PROVE  WillDelete(k)' \/ astray'[k]
  BY <1>1 DEF SeenInv, RulesSeen, Stale, Listed
<1>2. ASSUME UNCHANGED <<epc, wipe>>
      PROVE  WillDelete(k) <=> WillDelete(k)'
  BY <1>2 DEF WillDelete, Deletes
<1>3. ASSUME NEW l \in Loaders, Store(l)
      PROVE  WillDelete(k)' \/ astray'[k]
  <2>1. WillDelete(k) <=> WillDelete(k)'
    BY <1>2, <1>3 DEF Store, editorVars
  <2>2. CASE k = lkey[l]
    <3>1. cache'[k] = lgot[l] /\ rule' = rule
      BY <1>3, <2>2 DEF SeenInv, RuleTypeOK, Store
    <3>2. lgot[l] # Listed(rule, k)
      BY <3>1 DEF Stale, Listed
    <3>3. QED
      BY <1>3, <2>1, <2>2, <3>2 DEF SeenInv, RuleTypeOK, Store
  <2>3. CASE k # lkey[l]
    <3>1. cache'[k] = cache[k] /\ rule' = rule /\ astray'[k] = astray[k]
      BY <1>3, <2>3 DEF SeenInv, RuleTypeOK, Store
    <3>2. Stale(k)
      BY <3>1 DEF Stale, Listed
    <3>3. QED
      BY <2>1, <3>1, <3>2 DEF SeenInv, RulesSeen
  <2>4. QED
    BY <2>2, <2>3
<1>4. ASSUME NEW e \in Editors, NEW r \in Rules, SaveAutocommit(e, r)
      PROVE  WillDelete(k)' \/ astray'[k]
  <2>1. PICK new \in Changes(r) :
          /\ epc[e] = "idle" /\ edits < MaxEdits
          /\ rule' = [rule EXCEPT ![r] = new]
          /\ epc' = [epc EXCEPT ![e] = "autocommit"]
          /\ wipe' = [wipe EXCEPT ![e] = Signalled(r, new)]
          /\ astray' = Escapes(rule', {Signalled(r, new), Global})
          /\ cache' = cache
    BY <1>4 DEF SaveAutocommit
  <2>2. Signalled(r, new) \in Keys
    BY <2>1, ChangesType DEF SeenInv, RuleTypeOK, RuleRows
  <2>3. epc'[e] = "autocommit" /\ wipe'[e] = Signalled(r, new) /\ wipe'[e] # Nil
    BY <2>1, <2>2, RuleAssumption DEF SeenInv, RuleTypeOK, Keys
  <2>4. CASE k \in {Signalled(r, new), Global}
    BY <2>3, <2>4 DEF WillDelete, Deletes
  <2>5. CASE k \notin {Signalled(r, new), Global}
    <3>1. WillDelete(k) => WillDelete(k)'
      BY <2>1 DEF SeenInv, RuleTypeOK, WillDelete, Deletes
    <3>2. QED
      BY <2>1, <2>5, <3>1, Accounted
  <2>6. QED
    BY <2>4, <2>5
<1>5. ASSUME NEW e \in Editors, NEW r \in Rules, SaveAtomic(e, r)
      PROVE  WillDelete(k)' \/ astray'[k]
  <2>1. epc[e] = "idle" /\ UNCHANGED <<rule, cache, astray>>
    BY <1>5 DEF SaveAtomic
  <2>2. \A d \in Editors : d # e => epc'[d] = epc[d] /\ wipe'[d] = wipe[d]
    BY <1>5 DEF SeenInv, RuleTypeOK, SaveAtomic
  <2>3. WillDelete(k) => WillDelete(k)'
    BY <2>1, <2>2 DEF WillDelete, Deletes
  <2>4. QED
    BY <1>1, <2>1, <2>3
<1>6. ASSUME NEW e \in Editors, Invalidate(e)
      PROVE  WillDelete(k)' \/ astray'[k]
  <2>1. k # wipe[e] /\ cache'[k] = cache[k] /\ astray'[k] = astray[k] /\ rule' = rule
    BY <1>6 DEF SeenInv, RuleTypeOK, Invalidate, Stale
  <2>2. Stale(k)
    BY <2>1 DEF Stale, Listed
  <2>3. ASSUME NEW d \in Editors, epc[d] = "autocommit", Deletes(d, k)
        PROVE  WillDelete(k)'
    <3>1. CASE d = e
      <4>1. k = Global /\ wipe[e] # Global
        BY <2>1, <2>3, <3>1 DEF Deletes
      <4>2. epc'[e] = "autocommit" /\ wipe'[e] = Global
        BY <1>6, <2>3, <3>1, <4>1 DEF SeenInv, RuleTypeOK, Invalidate
      <4>3. QED
        BY <4>1, <4>2 DEF WillDelete, Deletes
    <3>2. CASE d # e
      <4>1. epc'[d] = epc[d] /\ wipe'[d] = wipe[d]
        BY <1>6, <3>2 DEF SeenInv, RuleTypeOK, Invalidate
      <4>2. QED
        BY <2>3, <4>1 DEF WillDelete, Deletes
    <3>3. QED
      BY <3>1, <3>2
  <2>4. QED
    BY <2>1, <2>2, <2>3 DEF SeenInv, RulesSeen, WillDelete
<1>7. ASSUME NEW e \in Editors, Commit(e)
      PROVE  WillDelete(k)' \/ astray'[k]
  <2>1. epc[e] = "commit" /\ cache' = cache /\ astray' = Escapes(rule', {})
    BY <1>7 DEF Commit
  <2>2. \A d \in Editors : d # e => epc'[d] = epc[d] /\ wipe'[d] = wipe[d]
    BY <1>7 DEF SeenInv, RuleTypeOK, Commit, Left
  <2>3. WillDelete(k) => WillDelete(k)'
    BY <2>1, <2>2 DEF WillDelete, Deletes
  <2>4. QED
    BY <2>1, <2>3, Accounted
<1>8. ASSUME NEW e \in Editors, Abandon(e)
      PROVE  WillDelete(k)' \/ astray'[k]
  <2>1. UNCHANGED <<rule, cache>>
    BY <1>8 DEF Abandon
  <2>2. Stale(k)
    BY <2>1 DEF Stale, Listed
  <2>3. CASE astray[k] \/ (epc[e] = "autocommit" /\ Deletes(e, k))
    BY <1>8, <2>2, <2>3 DEF Abandon
  <2>4. ASSUME NEW d \in Editors, d # e, epc[d] = "autocommit", Deletes(d, k)
        PROVE  WillDelete(k)'
    <3>1. epc'[d] = epc[d] /\ wipe'[d] = wipe[d]
      BY <1>8, <2>4 DEF SeenInv, RuleTypeOK, Abandon, Left
    <3>2. QED
      BY <2>4, <3>1 DEF WillDelete, Deletes
  <2>5. QED
    BY <2>2, <2>3, <2>4 DEF SeenInv, RulesSeen, WillDelete
<1>9. ASSUME NEW rs \in SUBSET Rules, NEW on \in BOOLEAN, SetActive(rs, on)
      PROVE  WillDelete(k)' \/ astray'[k]
  <2>1. cache' = cache /\ astray' = Escapes(rule', {}) /\ UNCHANGED <<epc, wipe>>
    BY <1>9 DEF SetActive, editorVars
  <2>2. QED
    BY <1>2, <2>1, Accounted
<1>10. CASE Tick
  <2>1. rule' = rule /\ UNCHANGED <<epc, wipe>>
    BY <1>10 DEF Tick, editorVars
  <2>2. ttl'[k] # 0 /\ cache'[k] = cache[k]
    BY <1>10 DEF Tick, Stale
  <2>3. astray'[k] = astray[k]
    BY <1>10, <2>2 DEF SeenInv, RuleTypeOK, Tick
  <2>4. Stale(k)
    BY <2>1, <2>2 DEF Stale, Listed
  <2>5. QED
    BY <1>2, <2>1, <2>3, <2>4 DEF SeenInv, RulesSeen
<1>11. ASSUME UNCHANGED <<rule, cache, astray, epc, wipe>>
       PROVE  WillDelete(k)' \/ astray'[k]
  BY <1>1, <1>2, <1>11
<1>12. QED
  BY <1>3, <1>4, <1>5, <1>6, <1>7, <1>8, <1>9, <1>10, <1>11
     DEF RuleNext, Load, Miss, Query, ruleVars, editorVars

(* RulesSeen: an edit is seen, unless the entry escaped its signal in one   *)
(* of the recorded ways (merchandising_handlers.py, merchandising_cache.py).*)
THEOREM RulesAreSeen == RuleSpec => []RulesSeen
<1>1. RuleInit => SeenInv
  BY RuleTypeInit DEF RuleInit, SeenInv, RulesSeen, Stale
<1>2. SeenInv /\ [RuleNext]_ruleVars => SeenInv'
  BY RuleTypeStep, SeenStep DEF SeenInv
<1>3. SeenInv => RulesSeen
  BY DEF SeenInv
<1>4. QED
  BY <1>1, <1>2, <1>3, PTL DEF RuleSpec
=============================================================================
