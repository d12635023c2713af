-------------------------- MODULE BulkIndex_proofs --------------------------
(***************************************************************************)
(* Proofs about BulkIndex, for every number of sender threads, every       *)
(* source, every batch size and however many documents are refused without *)
(* an error: typing, and that a call that returns has given every document *)
(* to the engine exactly once.                                             *)
(***************************************************************************)
EXTENDS BulkIndex, FiniteSetTheorems, TLAPS

USE DEF engineVars

(* There is at least one sender, and the queue has room for a pill each.   *)
LEMMA ConcurrencyType == Concurrency \in Nat \ {0}
BY SettingsAssumption, FS_CardinalityType, FS_EmptySet DEF Concurrency

(* A batch holds documents of the source, and a pill is not a batch.       *)
LEMMA BatchParts ==
    ASSUME NEW b \in Batches
    PROVE  /\ b.first \in 1..NDocs /\ b.last \in 1..NDocs
           /\ b # None
BY DEF Batches, None, Batch

LEMMA NextBatchType ==
    ASSUME taken \in 0..NDocs, taken < NDocs
    PROVE  /\ NextBatch \in Batches
           /\ NextBatch.first = taken + 1
           /\ NextBatch.last > taken
BY SettingsAssumption DEF NextBatch, Batches, Batch

(* What a request does to the documents: those of its batch are applied    *)
(* once more or, if it returns from a backend that is not sure, refused;   *)
(* if it raises, any of them are applied.                                  *)
LEMMA TakesMoves ==
    ASSUME TypeOK, NEW docs \in SUBSET (1..NDocs), EngineTakes(docs)
    PROVE  /\ applied' \in [1..NDocs -> Nat]
           /\ \A d \in docs : applied'[d] = applied[d] + 1
           /\ \A d \in (1..NDocs) \ docs : applied'[d] = applied[d]
<1>1. \A d \in 1..NDocs : applied[d] \in Nat
  BY DEF TypeOK
<1>2. applied' = [d \in 1..NDocs |-> applied[d] + (IF d \in docs THEN 1 ELSE 0)]
  BY DEF EngineTakes
<1>3. \A d \in 1..NDocs : applied[d] + (IF d \in docs THEN 1 ELSE 0) \in Nat
  BY <1>1
<1>4. applied' \in [1..NDocs -> Nat]
  BY <1>2, <1>3
<1>5. \A d \in docs : applied'[d] = applied[d] + 1
  BY <1>2
<1>6. ASSUME NEW d \in (1..NDocs) \ docs PROVE applied'[d] = applied[d]
  <2>1. applied'[d] = applied[d] + 0
    BY <1>2
  <2>2. QED
    BY <1>1, <2>1
<1>7. QED
  BY <1>4, <1>5, <1>6

LEMMA SendMoves ==
    ASSUME TypeOK, NEW w \in Workers, Send(w)
    PROVE  /\ applied' \in [1..NDocs -> Nat]
           /\ refused \subseteq refused' /\ refused' \subseteq 1..NDocs
           /\ sure => refused' = refused
           /\ \A d \in 1..NDocs :
                 /\ ~In(d, batch[w]) => applied'[d] = applied[d]
                                         /\ (d \in refused' <=> d \in refused)
                 /\ In(d, batch[w]) =>
                      \/ applied'[d] = applied[d] + 1 /\ (d \in refused' <=> d \in refused)
                      \/ applied'[d] = applied[d] /\ d \in refused'
<1>1. PICK dropped \in SUBSET Docs(batch[w]) :
         /\ sure => dropped = {}
         /\ EngineTakes(Docs(batch[w]) \ dropped)
         /\ refused' = refused \cup dropped
  BY DEF Send, MayDrop
<1>2. Docs(batch[w]) \ dropped \in SUBSET (1..NDocs)
  BY DEF Docs
<1>3. /\ applied' \in [1..NDocs -> Nat]
      /\ \A d \in Docs(batch[w]) \ dropped : applied'[d] = applied[d] + 1
      /\ \A d \in (1..NDocs) \ (Docs(batch[w]) \ dropped) : applied'[d] = applied[d]
  BY <1>1, <1>2, TakesMoves
<1>4. \A d \in 1..NDocs : d \in Docs(batch[w]) <=> In(d, batch[w])
  BY DEF Docs, In
<1>5. refused \subseteq refused' /\ refused' \subseteq 1..NDocs
  BY <1>1 DEF TypeOK, Docs
<1>6. sure => refused' = refused
  BY <1>1
<1>7. ASSUME NEW d \in 1..NDocs, ~In(d, batch[w])
      PROVE  applied'[d] = applied[d] /\ (d \in refused' <=> d \in refused)
  BY <1>1, <1>3, <1>4, <1>7
<1>8. ASSUME NEW d \in 1..NDocs, In(d, batch[w])
      PROVE  \/ applied'[d] = applied[d] + 1 /\ (d \in refused' <=> d \in refused)
             \/ applied'[d] = applied[d] /\ d \in refused'
  BY <1>1, <1>3, <1>4, <1>8
<1>9. QED
  BY <1>3, <1>5, <1>6, <1>7, <1>8

LEMMA SendFailsMoves ==
    ASSUME TypeOK, NEW w \in Workers, SendFails(w)
    PROVE  /\ applied' \in [1..NDocs -> Nat] /\ refused' \subseteq 1..NDocs
           /\ refused' = refused
           /\ \A d \in 1..NDocs :
                 \/ applied'[d] = applied[d]
                 \/ In(d, batch[w]) /\ applied'[d] = applied[d] + 1
<1>1. PICK done \in SUBSET Docs(batch[w]) : EngineTakes(done)
  BY DEF SendFails
<1>2. done \in SUBSET (1..NDocs) /\ \A d \in done : In(d, batch[w])
  BY DEF Docs, In
<1>3. /\ applied' \in [1..NDocs -> Nat]
      /\ \A d \in done : applied'[d] = applied[d] + 1
      /\ \A d \in (1..NDocs) \ done : applied'[d] = applied[d]
  BY <1>1, <1>2, TakesMoves
<1>4. refused' = refused /\ refused' \subseteq 1..NDocs
  BY DEF SendFails, TypeOK
<1>5. QED
  BY <1>2, <1>3, <1>4

(* Typing, with what the caller counts: the total stays below the number   *)
(* of documents because it is the documents taken, less the batch held.    *)
THEOREM TypeCorrect == Spec => [](TypeOK /\ Counts)
<1>1. Init => TypeOK /\ Counts
  <2>1. Init => TypeOK
    <3>1. <<>> \in Seq(Batches \cup {None}) /\ <<>> \in Seq(Workers) /\ Len(<<>>) = 0
      OBVIOUS
    <3>2. Capacity \in Nat
      BY ConcurrencyType DEF Capacity
    <3>3. [d \in 1..NDocs |-> 0] \in [1..NDocs -> Nat]
      OBVIOUS
    <3>4. [w \in Workers |-> None] \in [Workers -> Batches \cup {None}]
      OBVIOUS
    <3>5. 0 \in 0..NDocs /\ 0 \in 0..Concurrency
      BY ConcurrencyType, SettingsAssumption
    <3> SUFFICES ASSUME Init PROVE TypeOK
      OBVIOUS
    <3>6. errorEvent \in BOOLEAN /\ raising \in BOOLEAN /\ sure \in BOOLEAN
      BY DEF Init
    <3>7. wpc \in [Workers -> {"loop", "get", "send", "test", "append", "set", "done"}]
      BY DEF Init
    <3>8. queue \in Seq(Batches \cup {None}) /\ Len(queue) <= Capacity
      BY <3>1, <3>2 DEF Init
    <3>9. QED
      BY <3>1, <3>3, <3>4, <3>5, <3>6, <3>7, <3>8 DEF Init, TypeOK
  <2>2. Init => Counts
    BY DEF Init, Counts, Closing
  <2>3. QED
    BY <2>1, <2>2
<1>2. TypeOK /\ Counts /\ [Next]_vars => TypeOK' /\ Counts'
  <2> SUFFICES ASSUME TypeOK, Counts, [Next]_vars PROVE TypeOK' /\ Counts'
    OBVIOUS
  <2> USE ConcurrencyType, SettingsAssumption
  <2>1. CASE TakeBatch
    <3>1. NextBatch \in Batches /\ NextBatch.first = taken + 1
      BY <2>1, NextBatchType DEF TakeBatch, TypeOK
    <3>2. NextBatch.last \in 1..NDocs /\ NextBatch # None
      BY <3>1, BatchParts
    <3>3. TypeOK'
      BY <2>1, <3>1, <3>2 DEF TakeBatch, TypeOK, senderVars
    <3>4. Counts'
      BY <2>1, <3>1, <3>2 DEF TakeBatch, TypeOK, Counts, Closing
    <3>5. QED
      BY <3>3, <3>4
  <2>2. CASE SourceEnds \/ SourceRaises
    <3>1. TypeOK'
      BY <2>2 DEF SourceEnds, SourceRaises, TypeOK, senderVars
    <3>2. Counts'
      <4>1. CASE SourceEnds
        BY <4>1 DEF SourceEnds, TypeOK, Counts, Closing
      <4>2. CASE SourceRaises
        BY <4>2 DEF SourceRaises, TypeOK, Counts, Closing
      <4>3. QED
        BY <2>2, <4>1, <4>2
    <3>3. QED
      BY <3>1, <3>2
  <2>3. CASE Break
    BY <2>3 DEF Break, TypeOK, Counts, Closing, senderVars
  <2>4. CASE GoOn
    BY <2>4 DEF GoOn, TypeOK, Counts, Closing, senderVars
  <2>5. CASE Put
    <3>1. /\ ready \in Batches /\ ready # None
          /\ ready.last = taken /\ totalSent = ready.first - 1
      BY <2>5 DEF Put, TypeOK, Counts
    <3>2. totalSent + Length(ready) = taken
      BY <3>1, BatchParts DEF Length
    <3>3. /\ Append(queue, ready) \in Seq(Batches \cup {None})
          /\ Len(Append(queue, ready)) <= Capacity
      BY <2>5, <3>1 DEF Put, TypeOK, Capacity
    <3>4. TypeOK'
      BY <2>5, <3>2, <3>3 DEF Put, TypeOK, senderVars
    <3>5. Counts'
      BY <2>5, <3>2 DEF Put, TypeOK, Counts, Closing
    <3>6. QED
      BY <3>4, <3>5
  <2>6. CASE Progress
    <3>1. TypeOK'
      BY <2>6 DEF Progress, TypeOK, senderVars
    <3>2. Counts'
      <4>1. CASE ppc' = "next"
        BY <2>6, <4>1 DEF Progress, TypeOK, Counts, Closing
      <4>2. CASE ppc' = "pills"
        BY <2>6, <4>2 DEF Progress, TypeOK, Counts, Closing
      <4>3. QED
        BY <2>6, <4>1, <4>2 DEF Progress
    <3>3. QED
      BY <3>1, <3>2
  <2>7. CASE PutPill
    <3>1. /\ Append(queue, None) \in Seq(Batches \cup {None})
          /\ Len(Append(queue, None)) <= Capacity
      BY <2>7 DEF PutPill, TypeOK, Capacity
    <3>2. TypeOK'
      BY <2>7, <3>1 DEF PutPill, TypeOK, Counts, senderVars
    <3>3. Counts'
      BY <2>7 DEF PutPill, TypeOK, Counts, Closing
    <3>4. QED
      BY <3>2, <3>3
  <2>8. CASE Join
    BY <2>8 DEF Join, TypeOK, Counts, Closing, senderVars
  <2>9. ASSUME NEW w \in Workers, Sender(w) PROVE TypeOK' /\ Counts'
    <3>1. TypeOK'
      <4>1. CASE Loop(w) \/ GetTimesOut(w)
        BY <4>1 DEF Loop, GetTimesOut, TypeOK, producerVars
      <4>2. CASE Get(w)
        <5>1. /\ Tail(queue) \in Seq(Batches \cup {None})
              /\ Len(Tail(queue)) <= Capacity
              /\ Head(queue) \in Batches \cup {None}
          BY <4>2 DEF Get, TypeOK, Capacity
        <5>2. QED
          BY <4>2, <5>1 DEF Get, TypeOK, producerVars
      <4>3. CASE Send(w)
        <5>1. applied' \in [1..NDocs -> Nat] /\ refused' \subseteq 1..NDocs
          BY <4>3, SendMoves DEF TypeOK
        <5>2. QED
          BY <4>3, <5>1 DEF Send, TypeOK, producerVars
      <4>4. CASE SendFails(w)
        <5>1. applied' \in [1..NDocs -> Nat] /\ refused' \subseteq 1..NDocs
          BY <4>4, SendFailsMoves DEF TypeOK
        <5>2. QED
          BY <4>4, <5>1 DEF SendFails, TypeOK, producerVars
      <4>5. CASE TestError(w) \/ SetEvent(w)
        BY <4>5 DEF TestError, SetEvent, TypeOK, producerVars
      <4>6. CASE AppendError(w)
        BY <4>6 DEF AppendError, TypeOK, producerVars
      <4>7. QED
        BY <2>9, <4>1, <4>2, <4>3, <4>4, <4>5, <4>6 DEF Sender
    <3>2. UNCHANGED producerVars
      BY <2>9
         DEF Sender, Loop, Get, GetTimesOut, Send, SendFails, TestError,
             AppendError, SetEvent
    <3>3. Counts'
      BY <3>2 DEF Counts, Closing, producerVars
    <3>4. QED
      BY <3>1, <3>3
  <2>10. CASE UNCHANGED vars
    BY <2>10 DEF vars, producerVars, senderVars, TypeOK, Counts, Closing
  <2>11. QED
    BY <2>1, <2>2, <2>3, <2>4, <2>5, <2>6, <2>7, <2>8, <2>9, <2>10
       DEF Next, Producer
<1>3. QED
  BY <1>1, <1>2, PTL DEF Spec

-----------------------------------------------------------------------------

(* Indices of a queue after a put and after a get.                         *)
LEMMA AppendParts ==
    ASSUME NEW S, NEW q \in Seq(S), NEW x \in S
    PROVE  /\ DOMAIN q = 1..Len(q) /\ Len(q) \in Nat
           /\ DOMAIN Append(q, x) = 1..(Len(q) + 1)
           /\ \A i \in DOMAIN q : Append(q, x)[i] = q[i]
           /\ Append(q, x)[Len(q) + 1] = x
OBVIOUS

LEMMA TailParts ==
    ASSUME NEW S, NEW q \in Seq(S), q # <<>>
    PROVE  /\ 1 \in DOMAIN q /\ Head(q) = q[1]
           /\ \A i \in DOMAIN Tail(q) :
                 i \in Nat /\ i + 1 \in DOMAIN q /\ Tail(q)[i] = q[i + 1]
           /\ \A i \in DOMAIN q : i \in Nat /\ (i # 1 => i - 1 \in DOMAIN Tail(q))
OBVIOUS

(* No document is in the pill.                                             *)
LEMMA NoneEmpty == \A d \in 1..NDocs : ~In(d, None)
BY SettingsAssumption DEF In, None, Batch

(* The pills are behind the batches.                                       *)
THEOREM PillsBehind == Spec => []PillsLast
<1>1. Init => PillsLast
  BY DEF Init, PillsLast, OnlyPills, Closing
<1>2. TypeOK /\ Counts /\ PillsLast /\ [Next]_vars => PillsLast'
  <2> SUFFICES ASSUME TypeOK, Counts, PillsLast, [Next]_vars PROVE PillsLast'
    OBVIOUS
  <2>1. CASE TakeBatch \/ GoOn
    BY <2>1 DEF TakeBatch, GoOn, PillsLast, OnlyPills, Closing, senderVars
  <2>2. CASE SourceEnds \/ SourceRaises \/ Break
    BY <2>2 DEF SourceEnds, SourceRaises, Break, PillsLast, OnlyPills, Closing, senderVars
  <2>3. CASE Put
    <3>1. ready \in Batches \cup {None} /\ ready # None /\ ~Closing
      BY <2>3 DEF Put, TypeOK, Counts, Closing
    <3>2. \A i \in DOMAIN queue' : queue'[i] # None
      BY <2>3, <3>1, AppendParts DEF Put, TypeOK, PillsLast
    <3>3. QED
      BY <2>3, <3>1, <3>2 DEF Put, PillsLast, OnlyPills, senderVars
  <2>4. CASE Progress
    BY <2>4 DEF Progress, PillsLast, OnlyPills, Closing, senderVars
  <2>5. CASE PutPill
    <3>1. Closing /\ Closing'
      BY <2>5 DEF PutPill, Closing
    <3>2. /\ DOMAIN queue = 1..Len(queue) /\ Len(queue) \in Nat
          /\ DOMAIN queue' = 1..(Len(queue) + 1)
          /\ \A i \in DOMAIN queue : queue'[i] = queue[i]
          /\ queue'[Len(queue) + 1] = None
      BY <2>5, AppendParts DEF PutPill, TypeOK
    <3>3. QED
      BY <2>5, <3>1, <3>2 DEF PutPill, PillsLast, OnlyPills, senderVars
  <2>6. CASE Join
    BY <2>6 DEF Join, PillsLast, OnlyPills, Closing, senderVars
  <2>7. ASSUME NEW w \in Workers, Get(w) PROVE PillsLast'
    <3>1. /\ 1 \in DOMAIN queue /\ Head(queue) = queue[1]
          /\ \A i \in DOMAIN queue' :
                i \in Nat /\ i + 1 \in DOMAIN queue /\ queue'[i] = queue[i + 1]
          /\ \A i \in DOMAIN queue : i \in Nat
      BY <2>7, TailParts DEF Get, TypeOK
    <3>2. Closing' = Closing
      BY <2>7 DEF Get, producerVars, Closing
    <3>3. /\ \A i, j \in DOMAIN queue' : i < j /\ queue'[i] = None => queue'[j] = None
          /\ (\E i \in DOMAIN queue' : queue'[i] = None) => Closing'
      BY <3>1, <3>2 DEF PillsLast
    <3>4. OnlyPills => OnlyPills'
      BY <3>1, <3>2 DEF OnlyPills
    <3>5. Head(queue) = None => OnlyPills'
      <4>1. ASSUME queue[1] = None, NEW i \in DOMAIN queue'
            PROVE  queue'[i] = None
        <5>1. 1 < i + 1
          <6>1. DOMAIN queue' = 1..Len(queue')
            BY <2>7, TailParts DEF Get, TypeOK
          <6>2. QED
            BY <3>1, <4>1, <6>1
        <5>2. QED
          BY <3>1, <4>1, <5>1 DEF PillsLast
      <4>2. QED
        BY <3>1, <3>2, <4>1 DEF OnlyPills, PillsLast
    <3>6. \A v \in Workers : wpc'[v] = "done" => errorEvent' \/ OnlyPills'
      BY <2>7, <3>4, <3>5 DEF Get, PillsLast, TypeOK
    <3>7. QED
      BY <3>3, <3>6 DEF PillsLast
  <2>8. ASSUME NEW w \in Workers,
               Loop(w) \/ GetTimesOut(w) \/ Send(w) \/ SendFails(w) \/ TestError(w)
                 \/ AppendError(w) \/ SetEvent(w)
        PROVE  PillsLast'
    <3>1. UNCHANGED <<queue, ppc>>
      BY <2>8
         DEF Loop, GetTimesOut, Send, SendFails, TestError, AppendError, SetEvent,
             producerVars
    <3>2. \A v \in Workers : wpc'[v] = "done" => wpc[v] = "done" \/ errorEvent'
      BY <2>8
         DEF Loop, GetTimesOut, Send, SendFails, TestError, AppendError, SetEvent, TypeOK
    <3>3. errorEvent => errorEvent'
      BY <2>8
         DEF Loop, GetTimesOut, Send, SendFails, TestError, AppendError, SetEvent
    <3>4. QED
      BY <3>1, <3>2, <3>3 DEF PillsLast, OnlyPills, Closing
  <2>9. CASE UNCHANGED vars
    BY <2>9 DEF vars, producerVars, senderVars, PillsLast, OnlyPills, Closing
  <2>10. QED
    BY <2>1, <2>2, <2>3, <2>4, <2>5, <2>6, <2>7, <2>8, <2>9
       DEF Next, Producer, Sender
<1>3. QED
  BY <1>1, <1>2, TypeCorrect, PTL DEF Spec

-----------------------------------------------------------------------------

(* A sender that is waited for has stopped; nothing that it does could     *)
(* change the outcome of the call.  A backend that is sure refuses nothing *)
(* without raising.                                                        *)
THEOREM OutcomeIsFinal == Spec => []Outcome
<1>1. Init => Outcome
  BY DEF Init, Outcome, Ended
<1>2. TypeOK /\ Outcome /\ [Next]_vars => Outcome'
  <2> SUFFICES ASSUME TypeOK, Outcome, [Next]_vars PROVE Outcome'
    OBVIOUS
  <2>1. CASE TakeBatch \/ SourceEnds \/ SourceRaises \/ Break \/ GoOn \/ Put
               \/ Progress \/ PutPill
    BY <2>1
       DEF TakeBatch, SourceEnds, SourceRaises, Break, GoOn, Put, Progress, PutPill,
           Outcome, Ended, senderVars
  <2>2. CASE Join
    BY <2>2 DEF Join, Outcome, Ended, senderVars
  <2>3. ASSUME NEW w \in Workers, Sender(w) PROVE Outcome'
    <3>1. wpc[w] # "done" /\ UNCHANGED producerVars
      BY <2>3
         DEF Sender, Loop, Get, GetTimesOut, Send, SendFails, TestError,
             AppendError, SetEvent
    <3>2. ~Ended
      BY <3>1 DEF Outcome
    <3>4. sure' => refused' = {}
      <4>1. CASE Send(w)
        BY <4>1, SendMoves DEF Send, Outcome
      <4>2. CASE ~Send(w)
        BY <2>3, <4>2
           DEF Sender, Loop, Get, GetTimesOut, SendFails, TestError, AppendError,
               SetEvent, Outcome
      <4>3. QED
        BY <4>1, <4>2
    <3>3. QED
      BY <3>1, <3>2, <3>4 DEF Outcome, Ended, producerVars
  <2>4. CASE UNCHANGED vars
    BY <2>4 DEF vars, producerVars, senderVars, Outcome, Ended
  <2>5. QED
    BY <2>1, <2>2, <2>3, <2>4 DEF Next, Producer
<1>3. QED
  BY <1>1, <1>2, TypeCorrect, PTL DEF Spec

(* What a step of a sender leaves: its own errors are recorded before the  *)
(* event is set, and a sender holds a batch only while it sends it.        *)
THEOREM ErrorsRecorded == Spec => []Errors
<1>1. Init => Errors
  BY DEF Init, Errors
<1>2. TypeOK /\ Errors /\ [Next]_vars => Errors'
  <2> SUFFICES ASSUME TypeOK, Errors, [Next]_vars PROVE Errors'
    OBVIOUS
  <2>1. CASE Producer
    <3>1. UNCHANGED <<errorEvent, firstError, wpc, batch>>
      BY <2>1
         DEF Producer, TakeBatch, SourceEnds, SourceRaises, Break, GoOn, Put,
             Progress, PutPill, Join, senderVars
    <3>2. QED
      BY <3>1 DEF Errors
  <2>2. ASSUME NEW w \in Workers, Sender(w) PROVE Errors'
    <3>1. CASE Loop(w) \/ GetTimesOut(w)
      BY <3>1 DEF Loop, GetTimesOut, Errors, TypeOK
    <3>2. CASE Get(w)
      BY <3>2 DEF Get, Errors, TypeOK
    <3>3. CASE Send(w) \/ SendFails(w)
      BY <3>3 DEF Send, SendFails, Errors, TypeOK
    <3>4. CASE TestError(w)
      BY <3>4 DEF TestError, Errors, TypeOK
    <3>5. CASE AppendError(w)
      <4>1. firstError' # <<>>
        BY <3>5, AppendParts DEF AppendError, TypeOK
      <4>2. QED
        BY <3>5, <4>1 DEF AppendError, Errors, TypeOK
    <3>6. CASE SetEvent(w)
      BY <3>6 DEF SetEvent, Errors, TypeOK
    <3>7. QED
      BY <2>2, <3>1, <3>2, <3>3, <3>4, <3>5, <3>6 DEF Sender
  <2>3. CASE UNCHANGED vars
    BY <2>3 DEF vars, senderVars, Errors
  <2>4. QED
    BY <2>1, <2>2, <2>3 DEF Next
<1>3. QED
  BY <1>1, <1>2, TypeCorrect, PTL DEF Spec

(* Once a request has failed, the call knows for ever.                     *)
LEMMA FailedStays ==
    ASSUME TypeOK, Errors, [Next]_vars, Failed
    PROVE  Failed'
<1>1. CASE Producer \/ UNCHANGED vars
  <2>1. UNCHANGED <<firstError, wpc>>
    BY <1>1
       DEF Producer, TakeBatch, SourceEnds, SourceRaises, Break, GoOn, Put,
           Progress, PutPill, Join, senderVars, vars
  <2>2. QED
    BY <2>1 DEF Failed
<1>2. ASSUME NEW w \in Workers, Sender(w) PROVE Failed'
  <2>1. firstError # <<>> => firstError' # <<>>
    <3>1. CASE AppendError(w)
      BY <3>1, AppendParts DEF AppendError, TypeOK
    <3>2. CASE ~AppendError(w)
      BY <1>2, <3>2
         DEF Sender, Loop, Get, GetTimesOut, Send, SendFails, TestError, SetEvent
    <3>3. QED
      BY <3>1, <3>2
  <2>2. ASSUME NEW v \in Workers, wpc[v] \in {"test", "append"}
        PROVE  wpc'[v] \in {"test", "append"} \/ firstError' # <<>>
    <3>1. CASE AppendError(w)
      BY <2>2, <3>1, AppendParts DEF AppendError, TypeOK
    <3>2. CASE ~AppendError(w)
      BY <1>2, <2>2, <3>2
         DEF Sender, Loop, Get, GetTimesOut, Send, SendFails, TestError, SetEvent, TypeOK
    <3>3. QED
      BY <3>1, <3>2
  <2>3. QED
    BY <2>1, <2>2 DEF Failed
<1>3. QED
  BY <1>1, <1>2 DEF Next

-----------------------------------------------------------------------------

(* Where a batch goes when it is put and when it is taken out.             *)
LEMMA PutMoves ==
    ASSUME TypeOK, Put, NEW d \in 1..NDocs
    PROVE  /\ DOMAIN queue = 1..Len(queue) /\ Len(queue) \in Nat
           /\ DOMAIN queue' = 1..(Len(queue) + 1)
           /\ \A i \in DOMAIN queue : queue'[i] = queue[i]
           /\ queue'[Len(queue) + 1] = ready
           /\ ~In(d, ready')
           /\ Queued(d)' <=> Queued(d) \/ In(d, ready)
<1>1. /\ DOMAIN queue = 1..Len(queue) /\ Len(queue) \in Nat
      /\ DOMAIN queue' = 1..(Len(queue) + 1)
      /\ \A i \in DOMAIN queue : queue'[i] = queue[i]
      /\ queue'[Len(queue) + 1] = ready
  BY AppendParts DEF Put, TypeOK
<1>2. ~In(d, ready')
  BY NoneEmpty DEF Put
<1>3. Queued(d)' <=> Queued(d) \/ In(d, ready)
  BY <1>1 DEF Queued
<1>4. QED
  BY <1>1, <1>2, <1>3

LEMMA PillMoves ==
    ASSUME TypeOK, PutPill, NEW d \in 1..NDocs
    PROVE  /\ \A i \in DOMAIN queue' :
                 In(d, queue'[i]) => i \in DOMAIN queue /\ queue'[i] = queue[i]
           /\ \A i \in DOMAIN queue : i \in DOMAIN queue' /\ queue'[i] = queue[i]
<1>1. /\ DOMAIN queue = 1..Len(queue) /\ Len(queue) \in Nat
      /\ DOMAIN queue' = 1..(Len(queue) + 1)
      /\ \A i \in DOMAIN queue : queue'[i] = queue[i]
      /\ queue'[Len(queue) + 1] = None
  BY AppendParts DEF PutPill, TypeOK
<1>2. QED
  BY <1>1, NoneEmpty

LEMMA GetMoves ==
    ASSUME TypeOK, Errors, NEW w \in Workers, Get(w), NEW d \in 1..NDocs
    PROVE  /\ 1 \in DOMAIN queue
           /\ \A i \in DOMAIN queue' :
                 i \in Nat /\ i + 1 \in DOMAIN queue /\ i + 1 # 1 /\ queue'[i] = queue[i + 1]
           /\ \A i \in DOMAIN queue :
                 i \in Nat /\ (i # 1 => i - 1 \in DOMAIN queue' /\ queue'[i - 1] = queue[i])
           /\ ~In(d, batch[w])
           /\ In(d, batch'[w]) <=> In(d, queue[1])
           /\ \A v \in Workers \ {w} : batch'[v] = batch[v]
<1>1. /\ 1 \in DOMAIN queue /\ Head(queue) = queue[1]
      /\ \A i \in DOMAIN queue' :
            i \in Nat /\ i + 1 \in DOMAIN queue /\ queue'[i] = queue[i + 1]
      /\ \A i \in DOMAIN queue : i \in Nat /\ (i # 1 => i - 1 \in DOMAIN queue')
      /\ DOMAIN queue' = 1..Len(queue')
  BY TailParts DEF Get, TypeOK
<1>2. batch[w] = None
  BY DEF Get, Errors
<1>3. In(d, batch'[w]) <=> In(d, queue[1])
  <2>1. CASE Head(queue) = None
    BY <1>1, <1>2, <2>1, NoneEmpty DEF Get
  <2>2. CASE Head(queue) # None
    BY <1>1, <2>2 DEF Get, TypeOK
  <2>3. QED
    BY <2>1, <2>2
<1>4. \A v \in Workers \ {w} : batch'[v] = batch[v]
  BY DEF Get, TypeOK
<1>5. \A i \in DOMAIN queue' : i + 1 # 1
  BY <1>1
<1>6. \A i \in DOMAIN queue : i # 1 => queue'[i - 1] = queue[i]
  BY <1>1
<1>7. QED
  BY <1>1, <1>2, <1>3, <1>4, <1>5, <1>6, NoneEmpty

(* A document is at one place at a time, with the caller, in the queue,    *)
(* with a sender, applied or refused, and no document is applied twice.    *)
THEOREM AppliedOnce == Spec => [](OnlyTaken /\ OnePlace)
<1>1. Init => OnlyTaken /\ OnePlace
  <2> SUFFICES ASSUME Init PROVE OnlyTaken /\ OnePlace
    OBVIOUS
  <2>1. \A d \in 1..NDocs : ~In(d, ready) /\ ~Queued(d) /\ ~Sending(d) /\ ~Done(d)
                             /\ d \notin refused /\ applied[d] = 0
    BY NoneEmpty DEF Init, Queued, Sending, Done
  <2>2. OnlyTaken
    BY <2>1 DEF OnlyTaken, Waiting
  <2>3. OnePlace
    BY <2>1 DEF OnePlace, Queued, Sending, Done
  <2>4. QED
    BY <2>2, <2>3
<1>2. /\ TypeOK /\ Counts /\ Errors /\ OnlyTaken /\ OnePlace /\ [Next]_vars
      => OnlyTaken' /\ OnePlace'
  <2> SUFFICES ASSUME TypeOK, Counts, Errors, OnlyTaken, OnePlace, [Next]_vars
               PROVE  OnlyTaken' /\ OnePlace'
    OBVIOUS
  <2>1. CASE TakeBatch
    <3>1. /\ NextBatch.first = taken + 1 /\ NextBatch.last > taken
          /\ NextBatch \in Batches /\ taken \in Nat
      BY <2>1, NextBatchType DEF TakeBatch, TypeOK
    <3>2. NextBatch.last \in Nat /\ ready = None
      BY <2>1, <3>1, BatchParts DEF TakeBatch, Counts
    <3>3. ASSUME NEW d \in 1..NDocs
          PROVE  /\ In(d, ready') => d <= taken' /\ ~(d <= taken)
                 /\ d <= taken => d <= taken'
                 /\ Queued(d)' = Queued(d) /\ Sending(d)' = Sending(d)
                 /\ Done(d)' = Done(d)
      BY <2>1, <3>1, <3>2 DEF TakeBatch, In, Queued, Sending, Done, senderVars
    <3>4. OnlyTaken'
      BY <3>3 DEF OnlyTaken, Waiting, Done
    <3>5. \A d \in 1..NDocs :
             In(d, ready') => ~Queued(d) /\ ~Sending(d) /\ ~Done(d)
      BY <3>3 DEF OnlyTaken, Waiting
    <3>6. OnePlace'
      BY <2>1, <3>3, <3>5 DEF TakeBatch, OnePlace, Done, senderVars
    <3>7. QED
      BY <3>4, <3>6
  <2>2. CASE Break
    <3>1. \A d \in 1..NDocs : ~In(d, ready')
      BY <2>2, NoneEmpty DEF Break
    <3>2. QED
      BY <2>2, <3>1
         DEF Break, OnlyTaken, OnePlace, Waiting, Queued, Sending, Done, senderVars
  <2>3. CASE Put
    <3>1. UNCHANGED <<taken, batch, applied, refused>>
      BY <2>3 DEF Put, senderVars
    <3>2. ASSUME NEW d \in 1..NDocs PROVE Sending(d)' = Sending(d)
      BY <3>1 DEF Sending
    <3>3. OnlyTaken'
      BY <2>3, <3>1, <3>2, PutMoves DEF OnlyTaken, Waiting, Done
    <3>4. ASSUME NEW d \in 1..NDocs,
                 NEW i \in DOMAIN queue', NEW j \in DOMAIN queue',
                 In(d, queue'[i]), In(d, queue'[j])
          PROVE  i = j
      <4>1. CASE In(d, ready)
        BY <2>3, <3>4, <4>1, PutMoves DEF OnePlace, Queued
      <4>2. CASE ~In(d, ready)
        BY <2>3, <3>4, <4>2, PutMoves DEF OnePlace
      <4>3. QED
        BY <4>1, <4>2
    <3>5. OnePlace'
      BY <2>3, <3>1, <3>2, <3>4, PutMoves DEF OnePlace, Done
    <3>6. QED
      BY <3>3, <3>5
  <2>4. CASE PutPill
    <3>1. UNCHANGED <<taken, ready, batch, applied, refused>>
      BY <2>4 DEF PutPill, senderVars
    <3>2. ASSUME NEW d \in 1..NDocs
          PROVE  Queued(d)' = Queued(d) /\ Sending(d)' = Sending(d)
      BY <2>4, <3>1, PillMoves DEF Queued, Sending
    <3>3. OnlyTaken'
      BY <3>1, <3>2 DEF OnlyTaken, Waiting, Done
    <3>4. OnePlace'
      BY <2>4, <3>1, <3>2, PillMoves DEF OnePlace, Done
    <3>5. QED
      BY <3>3, <3>4
  <2>5. ASSUME NEW w \in Workers, Get(w) PROVE OnlyTaken' /\ OnePlace'
    <3>1. UNCHANGED <<taken, ready, applied, refused>>
      BY <2>5 DEF Get, producerVars
    <3>2. ASSUME NEW d \in 1..NDocs
          PROVE  /\ Queued(d)' => Queued(d)
                 /\ Sending(d)' => Sending(d) \/ In(d, queue[1])
                 /\ In(d, queue[1]) => Queued(d)
                 /\ In(d, queue[1]) => ~Queued(d)'
      BY <2>5, GetMoves DEF Queued, Sending, OnePlace
    <3>3. OnlyTaken'
      BY <3>1, <3>2 DEF OnlyTaken, Waiting, Done
    <3>4. ASSUME NEW d \in 1..NDocs,
                 NEW i \in DOMAIN queue', NEW j \in DOMAIN queue',
                 In(d, queue'[i]), In(d, queue'[j])
          PROVE  i = j
      <4>1. i + 1 = j + 1
        BY <2>5, <3>4, GetMoves DEF OnePlace
      <4>2. QED
        BY <2>5, <4>1, GetMoves
    <3>5. ASSUME NEW d \in 1..NDocs, NEW u \in Workers, NEW v \in Workers,
                 In(d, batch'[u]), In(d, batch'[v])
          PROVE  u = v
      BY <2>5, <3>2, <3>5, GetMoves DEF OnePlace, Sending
    <3>6. OnePlace'
      BY <3>1, <3>2, <3>4, <3>5 DEF OnePlace, Done
    <3>7. QED
      BY <3>3, <3>6
  <2>6. ASSUME NEW w \in Workers, Send(w) \/ SendFails(w) PROVE OnlyTaken' /\ OnePlace'
    <3>1. UNCHANGED <<taken, ready, queue>> /\ batch' = [batch EXCEPT ![w] = None]
      BY <2>6 DEF Send, SendFails, producerVars
    <3>2. ASSUME NEW d \in 1..NDocs
          PROVE  /\ \/ applied'[d] = applied[d] /\ (d \in refused' <=> d \in refused)
                    \/ /\ In(d, batch[w])
                       /\ applied'[d] = applied[d] + 1
                       /\ d \in refused' <=> d \in refused
                    \/ In(d, batch[w]) /\ applied'[d] = applied[d] /\ d \in refused'
                 /\ applied[d] \in Nat
      <4>1. applied[d] \in Nat
        BY DEF TypeOK
      <4>2. CASE Send(w)
        BY <4>1, <4>2, SendMoves
      <4>3. CASE SendFails(w)
        BY <4>1, <4>3, SendFailsMoves
      <4>4. QED
        BY <2>6, <4>2, <4>3
    <3>3. ASSUME NEW d \in 1..NDocs, NEW v \in Workers, In(d, batch'[v])
          PROVE  v # w /\ In(d, batch[v])
      BY <3>1, <3>3, NoneEmpty DEF TypeOK
    <3>4. ASSUME NEW d \in 1..NDocs
          PROVE  /\ Queued(d)' = Queued(d)
                 /\ Sending(d)' => Sending(d) /\ ~In(d, batch[w])
                 /\ In(d, batch[w]) => Sending(d)
      BY <3>1, <3>3 DEF Queued, Sending, OnePlace
    <3>8. ASSUME NEW d \in 1..NDocs
          PROVE  Done(d)' => Done(d) \/ In(d, batch[w])
      BY <3>2 DEF Done
    <3>9. ASSUME NEW d \in 1..NDocs
          PROVE  applied'[d] <= 1 /\ (d \in refused' => applied'[d] = 0)
      <4>1. applied[d] <= 1 /\ (d \in refused => applied[d] = 0)
        BY DEF OnePlace
      <4>2. In(d, batch[w]) => applied[d] = 0 /\ d \notin refused
        BY <3>2, <3>4 DEF OnePlace, Done
      <4>3. QED
        BY <3>2, <4>1, <4>2
    <3>5. OnlyTaken'
      BY <3>1, <3>4, <3>8 DEF OnlyTaken, Waiting
    <3>6. OnePlace'
      BY <3>1, <3>3, <3>4, <3>8, <3>9 DEF OnePlace
    <3>7. QED
      BY <3>5, <3>6
  <2>7. CASE UNCHANGED <<taken, ready, queue, batch, applied, refused>>
    BY <2>7 DEF OnlyTaken, OnePlace, Waiting, Queued, Sending, Done
  <2>8. CASE SourceEnds \/ SourceRaises \/ GoOn \/ Progress \/ Join \/ UNCHANGED vars
    BY <2>7, <2>8
       DEF SourceEnds, SourceRaises, GoOn, Progress, Join, senderVars, producerVars, vars
  <2>9. ASSUME NEW w \in Workers,
               Loop(w) \/ GetTimesOut(w) \/ TestError(w) \/ AppendError(w) \/ SetEvent(w)
        PROVE  OnlyTaken' /\ OnePlace'
    BY <2>7, <2>9
       DEF Loop, GetTimesOut, TestError, AppendError, SetEvent, producerVars
  <2>10. QED
    BY <2>1, <2>2, <2>3, <2>4, <2>5, <2>6, <2>8, <2>9 DEF Next, Producer, Sender
<1>3. QED
  BY <1>1, <1>2, TypeCorrect, ErrorsRecorded, PTL DEF Spec

-----------------------------------------------------------------------------

(* Until a request raises, every document taken from the source is on its  *)
(* way to the engine, applied, or refused by a request that returned, and  *)
(* the total counts it.                                                    *)
THEOREM NothingIsLost == Spec => []NothingLost
<1>1. Init => NothingLost
  BY DEF Init, NothingLost, Closing
<1>2. TypeOK /\ Counts /\ Errors /\ NothingLost /\ [Next]_vars => NothingLost'
  <2> SUFFICES ASSUME TypeOK, Counts, Errors, NothingLost, [Next]_vars, ~Failed'
               PROVE  NothingLost'
    BY DEF NothingLost
  <2>0. ~Failed /\ \A d \in 1..taken : d \in 1..NDocs
    BY FailedStays, SettingsAssumption DEF TypeOK
  <2> DEFINE Safe(d) == Done(d) \/ Waiting(d)
  <2>1. CASE TakeBatch
    <3>1. /\ NextBatch.first = taken + 1 /\ NextBatch.last > taken
          /\ NextBatch \in Batches /\ taken \in Nat
      BY <2>1, NextBatchType DEF TakeBatch, TypeOK
    <3>2. NextBatch.last \in Nat /\ ready = None
      BY <2>1, <3>1, BatchParts DEF TakeBatch, Counts
    <3>3. \A d \in 1..taken : ~In(d, ready)
      BY <2>0, <3>2, NoneEmpty
    <3>4. \A d \in 1..taken : Safe(d)'
      BY <2>0, <2>1, <3>3
         DEF TakeBatch, NothingLost, Waiting, Queued, Sending, Done, senderVars
    <3>5. \A d \in 1..taken' : d \in 1..taken \/ In(d, ready')
      BY <2>1, <3>1, <3>2 DEF TakeBatch, In
    <3>6. \A d \in 1..taken' : Safe(d)'
      BY <3>4, <3>5 DEF Waiting
    <3>7. QED
      BY <2>1, <3>6 DEF TakeBatch, NothingLost, Closing
  <2>2. CASE SourceEnds \/ SourceRaises \/ GoOn \/ Progress \/ Join
    <3>1. UNCHANGED <<taken, ready, queue, batch, applied, refused, totalSent>>
      BY <2>2 DEF SourceEnds, SourceRaises, GoOn, Progress, Join, senderVars
    <3>2. \A d \in 1..taken' : Safe(d)'
      BY <2>0, <3>1 DEF NothingLost, Waiting, Queued, Sending, Done
    <3>3. Closing' => totalSent' = taken'
      BY <2>0, <2>2, <3>1
         DEF SourceEnds, SourceRaises, GoOn, Progress, Join, NothingLost, Counts, Closing
    <3>4. Closing' /\ ~raising' => taken' = NDocs
      BY <2>0, <2>2
         DEF SourceEnds, SourceRaises, GoOn, Progress, Join, NothingLost, Closing
    <3>5. QED
      BY <3>2, <3>3, <3>4 DEF NothingLost
  <2>3. CASE Break
    BY <2>0, <2>3 DEF Break, Errors, Failed
  <2>4. CASE Put
    <3>1. UNCHANGED <<taken, batch, applied, refused>>
      BY <2>4 DEF Put, senderVars
    <3>2. \A d \in 1..NDocs : Waiting(d) => Waiting(d)'
      BY <2>4, <3>1, PutMoves DEF Waiting, Sending
    <3>3. \A d \in 1..taken' : Safe(d)'
      BY <2>0, <3>1, <3>2 DEF NothingLost, Done
    <3>4. QED
      BY <2>4, <3>3 DEF Put, NothingLost, Closing
  <2>5. CASE PutPill
    <3>1. UNCHANGED <<taken, ready, batch, applied, refused, totalSent, raising>>
      BY <2>5 DEF PutPill, senderVars
    <3>2. \A d \in 1..NDocs : Waiting(d) => Waiting(d)'
      BY <2>5, <3>1, PillMoves DEF Waiting, Queued, Sending
    <3>3. \A d \in 1..taken' : Safe(d)'
      BY <2>0, <3>1, <3>2 DEF NothingLost, Done
    <3>4. Closing
      BY <2>5 DEF PutPill, Closing
    <3>5. QED
      BY <2>0, <3>1, <3>3, <3>4 DEF NothingLost
  <2>6. ASSUME NEW w \in Workers, Get(w) PROVE NothingLost'
    <3>1. UNCHANGED <<taken, ready, applied, refused, totalSent, raising, ppc>>
      BY <2>6 DEF Get, producerVars
    <3>2. ASSUME NEW d \in 1..NDocs, Waiting(d) PROVE Waiting(d)'
      <4>1. CASE In(d, ready)
        BY <3>1, <4>1 DEF Waiting
      <4>2. CASE Queued(d)
        <5>1. PICK i \in DOMAIN queue : In(d, queue[i])
          BY <4>2 DEF Queued
        <5>2. CASE i = 1
          BY <2>6, <5>1, <5>2, GetMoves DEF Waiting, Sending
        <5>3. CASE i # 1
          BY <2>6, <5>1, <5>3, GetMoves DEF Waiting, Queued
        <5>4. QED
          BY <5>2, <5>3
      <4>3. CASE Sending(d)
        BY <2>6, <4>3, GetMoves DEF Waiting, Sending
      <4>4. QED
        BY <3>2, <4>1, <4>2, <4>3 DEF Waiting
    <3>3. \A d \in 1..taken' : Safe(d)'
      BY <2>0, <3>1, <3>2 DEF NothingLost, Done
    <3>4. QED
      BY <2>0, <3>1, <3>3 DEF NothingLost, Closing
  <2>7. ASSUME NEW w \in Workers, Send(w) PROVE NothingLost'
    <3>1. UNCHANGED <<taken, ready, queue, totalSent, raising, ppc>>
      BY <2>7 DEF Send, producerVars
    <3>3. ASSUME NEW d \in 1..NDocs, Safe(d) PROVE Safe(d)'
      <4>1. applied[d] \in Nat
        BY DEF TypeOK
      <4>2. CASE In(d, batch[w])
        <5>1. applied'[d] = applied[d] + 1 \/ d \in refused'
          BY <2>7, <4>2, SendMoves
        <5>2. Done(d)'
          BY <4>1, <5>1 DEF Done
        <5>3. QED
          BY <5>2
      <4>3. CASE ~In(d, batch[w])
        <5>1. applied'[d] = applied[d] /\ (d \in refused' <=> d \in refused)
          BY <2>7, <4>3, SendMoves
        <5>2. Waiting(d) => Waiting(d)'
          BY <2>7, <3>1, <4>3 DEF Send, Waiting, Queued, Sending, TypeOK
        <5>3. Done(d) => Done(d)'
          BY <5>1 DEF Done
        <5>4. QED
          BY <3>3, <5>2, <5>3
      <4>4. QED
        BY <4>2, <4>3
    <3>4. \A d \in 1..taken' : Safe(d)'
      BY <2>0, <3>1, <3>3 DEF NothingLost
    <3>5. QED
      BY <2>0, <3>1, <3>4 DEF NothingLost, Closing
  <2>8. ASSUME NEW w \in Workers, SendFails(w) PROVE NothingLost'
    <3>1. Failed'
      BY <2>8 DEF SendFails, Failed, TypeOK
    <3>2. QED
      BY <3>1
  <2>9. CASE UNCHANGED <<taken, ready, queue, batch, applied, refused, totalSent, raising,
                        ppc>>
    BY <2>0, <2>9 DEF NothingLost, Waiting, Queued, Sending, Done, Closing
  <2>10. ASSUME NEW w \in Workers,
                Loop(w) \/ GetTimesOut(w) \/ TestError(w) \/ AppendError(w) \/ SetEvent(w)
         PROVE  NothingLost'
    BY <2>9, <2>10
       DEF Loop, GetTimesOut, TestError, AppendError, SetEvent, producerVars
  <2>11. CASE UNCHANGED vars
    BY <2>9, <2>11 DEF vars, senderVars, producerVars
  <2>12. QED
    BY <2>1, <2>2, <2>3, <2>4, <2>5, <2>6, <2>7, <2>8, <2>10, <2>11
       DEF Next, Producer, Sender
<1>3. QED
  BY <1>1, <1>2, TypeCorrect, ErrorsRecorded, PTL DEF Spec

(* At the end of a call that returns: no request has failed, every sender  *)
(* has stopped, so one of them has taken a pill and the queue holds none   *)
(* but pills, no batch is held, and every document has been applied or     *)
(* refused.                                                                *)
LEMMA WhenItReturns ==
    ASSUME TypeOK, Counts, Errors, OnlyTaken, OnePlace, NothingLost, PillsLast, Outcome
    PROVE  ReturnsComplete
<1> SUFFICES ASSUME ppc = "returned"
             PROVE  /\ totalSent = NDocs
                    /\ \A d \in 1..NDocs :
                          applied[d] = (IF d \in refused THEN 0 ELSE 1)
                    /\ sure => refused = {}
  BY DEF ReturnsComplete
<1>1. \A w \in Workers : wpc[w] = "done"
  BY DEF Outcome, Ended
<1>2. ~raising /\ firstError = <<>> /\ ~errorEvent
  BY DEF Outcome, Errors
<1>3. ~Failed
  BY <1>1, <1>2 DEF Failed
<1>4. taken = NDocs /\ totalSent = NDocs
  BY <1>2, <1>3 DEF NothingLost, Closing
<1>5. \A i \in DOMAIN queue : queue[i] = None
  BY <1>1, <1>2, SettingsAssumption DEF PillsLast, OnlyPills
<1>6. ready = None /\ \A w \in Workers : batch[w] = None
  BY <1>1 DEF Counts, Errors
<1>7. \A d \in 1..NDocs : ~Waiting(d)
  BY <1>5, <1>6, NoneEmpty DEF Waiting, Queued, Sending
<1>8. ASSUME NEW d \in 1..NDocs
      PROVE  applied[d] = (IF d \in refused THEN 0 ELSE 1)
  <2>1. /\ applied[d] \in Nat /\ applied[d] <= 1
        /\ d \in refused => applied[d] = 0
    BY DEF TypeOK, OnePlace
  <2>2. applied[d] > 0 \/ d \in refused
    BY <1>3, <1>4, <1>7 DEF NothingLost, Done
  <2>3. QED
    BY <2>1, <2>2
<1>9. sure => refused = {}
  BY DEF Outcome
<1>10. QED
  BY <1>4, <1>8, <1>9

(* bulk_index returns only when every document has been given to the       *)
(* engine once, and it returns their number: with a backend that raises    *)
(* for what it does not take, every document has been applied; another may *)
(* have dropped some from requests that returned.                          *)
THEOREM CompleteOnReturn == Spec => []ReturnsComplete
BY WhenItReturns, TypeCorrect, PillsBehind, OutcomeIsFinal, ErrorsRecorded,
   AppliedOnce, NothingIsLost, PTL

-----------------------------------------------------------------------------

(* The pills in the queue, which are behind the batches, are pills that     *)
(* were put.                                                                *)
PillsWerePut ==
    \A i \in DOMAIN queue : queue[i] = None => Len(queue) - i < pillsPut

LEMMA PillsWerePutStep ==
    TypeOK /\ Counts /\ PillsLast /\ PillsWerePut /\ [Next]_vars => PillsWerePut'
<1> SUFFICES ASSUME TypeOK, Counts, PillsLast, PillsWerePut, [Next]_vars
             PROVE  PillsWerePut'
  OBVIOUS
<1>1. /\ queue \in Seq(Batches \cup {None}) /\ DOMAIN queue = 1..Len(queue)
      /\ Len(queue) \in Nat /\ pillsPut \in Nat
  BY ConcurrencyType DEF TypeOK
<1>2. CASE Put
  <2>1. ready \in Batches \cup {None} /\ ready # None /\ ~Closing
    BY <1>2 DEF Put, TypeOK, Counts, Closing
  <2>2. \A i \in DOMAIN queue : queue[i] # None
    BY <2>1 DEF PillsLast
  <2>3. \A i \in DOMAIN queue' : queue'[i] # None
    BY <1>1, <1>2, <2>1, <2>2, AppendParts DEF Put
  <2>4. QED
    BY <2>3 DEF PillsWerePut
<1>3. CASE PutPill
  <2>1. queue' = Append(queue, None) /\ pillsPut' = pillsPut + 1
    BY <1>3 DEF PutPill
  <2>2. /\ DOMAIN queue' = 1..(Len(queue) + 1) /\ Len(queue') = Len(queue) + 1
        /\ \A i \in DOMAIN queue : queue'[i] = queue[i]
    BY <1>1, <2>1, AppendParts
  <2>3. ASSUME NEW i \in DOMAIN queue', queue'[i] = None
        PROVE  Len(queue') - i < pillsPut'
    <3>1. CASE i = Len(queue) + 1
      BY <1>1, <2>1, <2>2, <3>1
    <3>2. CASE i # Len(queue) + 1
      <4>1. i \in DOMAIN queue /\ queue[i] = None
        BY <1>1, <2>2, <2>3, <3>2
      <4>2. Len(queue) - i < pillsPut
        BY <4>1 DEF PillsWerePut
      <4>3. QED
        BY <1>1, <2>1, <2>2, <4>1, <4>2
    <3>3. QED
      BY <3>1, <3>2
  <2>4. QED
    BY <2>3 DEF PillsWerePut
<1>4. ASSUME NEW w \in Workers, Get(w)
      PROVE  PillsWerePut'
  <2>1. queue # <<>> /\ queue' = Tail(queue) /\ pillsPut' = pillsPut
    BY <1>4 DEF Get, producerVars
  <2>2. Len(queue') = Len(queue) - 1
    BY <1>1, <2>1
  <2>3. ASSUME NEW i \in DOMAIN queue', queue'[i] = None
        PROVE  Len(queue') - i < pillsPut'
    <3>1. i \in Nat /\ i + 1 \in DOMAIN queue /\ queue[i + 1] = None
      BY <1>1, <2>1, <2>3, TailParts
    <3>2. Len(queue) - (i + 1) < pillsPut
      BY <3>1 DEF PillsWerePut
    <3>3. QED
      BY <1>1, <2>1, <2>2, <3>1, <3>2
  <2>4. QED
    BY <2>3 DEF PillsWerePut
<1>5. CASE UNCHANGED <<queue, pillsPut>>
  BY <1>5 DEF PillsWerePut
<1>6. QED
  BY <1>2, <1>3, <1>4, <1>5
     DEF Next, Producer, Sender, TakeBatch, SourceEnds, SourceRaises, Break, GoOn,
         Progress, Join, Loop, GetTimesOut, Send, SendFails, TestError, AppendError,
         SetEvent, vars, producerVars

(* StuckOnlyAfterError: when all senders stopped without an error, each on *)
(* a pill, there is room for the pills that are left (bulk_index, finally).*)
THEOREM StuckAfterErrorOnly == Spec => []StuckOnlyAfterError
<1>1. Init => PillsWerePut
  BY DEF Init, PillsWerePut
<1>2. TypeOK /\ Counts /\ PillsLast /\ PillsWerePut => StuckOnlyAfterError
  <2> SUFFICES ASSUME TypeOK, Counts, PillsLast, PillsWerePut, Stuck, ~errorEvent
               PROVE  FALSE
    BY DEF StuckOnlyAfterError
  <2>1. OnlyPills
    BY SettingsAssumption DEF Stuck, PillsLast
  <2>2. ppc = "pills" /\ pillsPut < Concurrency
    BY <2>1 DEF Stuck, OnlyPills, Closing, Counts
  <2>3. Len(queue) = Concurrency + 1 /\ Concurrency \in Nat \ {0} /\ pillsPut \in Nat
    BY ConcurrencyType DEF Stuck, Capacity, TypeOK
  <2>4. 1 \in DOMAIN queue
    BY <2>3 DEF TypeOK
  <2>5. Len(queue) - 1 < pillsPut
    BY <2>1, <2>4 DEF OnlyPills, PillsWerePut
  <2>6. QED
    BY <2>2, <2>3, <2>5
<1>3. QED
  BY <1>1, <1>2, PillsWerePutStep, TypeCorrect, PillsBehind, PTL DEF Spec

(* BacklogBound: the batches in memory are at most those that fit in the   *)
(* queue, one for each sender, and one with the caller.                    *)
THEOREM BacklogIsBounded == Spec => []BacklogBound
<1>1. TypeOK => BacklogBound
  <2> SUFFICES ASSUME TypeOK
               PROVE  BacklogBound
    OBVIOUS
  <2> DEFINE queued == {i \in DOMAIN queue : queue[i] # None}
             sending == {w \in Workers : batch[w] # None}
  <2>1. Concurrency \in Nat /\ Capacity = Concurrency + 1
    BY ConcurrencyType DEF Capacity
  <2>2. /\ IsFiniteSet(1..Len(queue)) /\ Cardinality(1..Len(queue)) = Len(queue)
        /\ Len(queue) \in Nat
    <3>1. Len(queue) \in Nat /\ Len(queue) \in Int /\ 1 \in Int
      BY DEF TypeOK
    <3>2. QED
      BY <3>1, FS_Interval
  <2>3. queued \in SUBSET (1..Len(queue))
    BY DEF TypeOK
  <2>4. Cardinality(queued) <= Len(queue) /\ Cardinality(queued) \in Nat
    BY <2>2, <2>3, FS_Subset, FS_CardinalityType
  <2>5. sending \in SUBSET Workers
    OBVIOUS
  <2>6. Cardinality(sending) <= Concurrency /\ Cardinality(sending) \in Nat
    BY <2>5, SettingsAssumption, FS_Subset, FS_CardinalityType DEF Concurrency
  <2>7. Len(queue) <= Capacity
    BY DEF TypeOK
  <2>8. \A n \in {0, 1} :
          Cardinality(queued) + Cardinality(sending) + n <= 2 * Concurrency + 2
    BY <2>1, <2>2, <2>4, <2>6, <2>7
  <2>9. QED
    BY <2>8 DEF BacklogBound
<1>2. QED
  BY <1>1, TypeCorrect, PTL

-----------------------------------------------------------------------------

(* bulk_index implements the call its caller sees: a request that is       *)
(* applied delivers, the join returns or raises, every other step of the   *)
(* threads and their queue is invisible.                                   *)
THEOREM ImplementsCall == Spec => CallSpec
<1> DEFINE outcome == IF Ended THEN ppc ELSE "running"
<1>1. Init => Call!Init
  BY DEF Init, Call!Init, Ended
<1>2. ASSUME TypeOK, TypeOK', OnePlace', Outcome, Outcome', ReturnsComplete',
             [Next]_vars
      PROVE  [Call!Next]_(Call!vars)
  <2>1. CASE TakeBatch \/ SourceEnds \/ SourceRaises \/ Break \/ GoOn \/ Put
               \/ Progress \/ PutPill
    <3>1. UNCHANGED engineVars /\ ~Ended /\ ~Ended'
      BY <2>1
         DEF TakeBatch, SourceEnds, SourceRaises, Break, GoOn, Put, Progress, PutPill,
             Ended
    <3>2. QED
      BY <3>1 DEF Call!vars
  <2>2. CASE Join
    <3>1. UNCHANGED engineVars /\ ~Ended /\ Ended'
      BY <2>2 DEF Join, Ended
    <3>2. CASE ppc' = "returned"
      BY <1>2, <3>1, <3>2 DEF Call!Next, Call!Return, ReturnsComplete
    <3>3. CASE ppc' = "raised"
      BY <3>1, <3>3 DEF Call!Next, Call!Raise
    <3>4. QED
      BY <2>2, <3>2, <3>3 DEF Join
  <2>3. ASSUME NEW w \in Workers, Send(w) \/ SendFails(w)
        PROVE  [Call!Next]_(Call!vars)
    <3>1. ppc' = ppc /\ wpc[w] = "send"
      BY <2>3 DEF Send, SendFails, producerVars
    <3>2. ~Ended /\ ~Ended'
      BY <1>2, <3>1 DEF Outcome, Ended
    <3>3. applied' \in [1..NDocs -> 0..1]
      <4>1. \A d \in 1..NDocs : applied'[d] \in Nat /\ applied'[d] <= 1
        BY <1>2 DEF TypeOK, OnePlace
      <4>2. QED
        BY <1>2, <4>1 DEF TypeOK
    <3>4. \A d \in 1..NDocs : applied[d] <= applied'[d]
      <4>1. \A d \in 1..NDocs : applied[d] \in Nat
        BY <1>2 DEF TypeOK
      <4>2. ASSUME NEW d \in 1..NDocs
            PROVE  applied'[d] = applied[d] \/ applied'[d] = applied[d] + 1
        <5>1. CASE Send(w)
          BY <1>2, <5>1, SendMoves
        <5>2. CASE SendFails(w)
          BY <1>2, <5>2, SendFailsMoves
        <5>3. QED
          BY <2>3, <5>1, <5>2
      <4>3. QED
        BY <4>1, <4>2
    <3>5. /\ refused \subseteq refused'
          /\ sure' = sure
      BY <1>2, <2>3, SendMoves DEF Send, SendFails
    <3>7. refused' \subseteq {d \in 1..NDocs : applied'[d] = 0}
      BY <1>2 DEF TypeOK, OnePlace
    <3>8. sure => refused' = {}
      BY <1>2, <3>5 DEF Outcome
    <3>9. Call!Deliver
      BY <3>2, <3>3, <3>4, <3>5, <3>7, <3>8 DEF Call!Deliver
    <3>6. QED
      BY <3>9 DEF Call!Next
  <2>4. ASSUME NEW w \in Workers,
               Loop(w) \/ Get(w) \/ GetTimesOut(w) \/ TestError(w) \/ AppendError(w)
                 \/ SetEvent(w)
        PROVE  [Call!Next]_(Call!vars)
    <3>1. UNCHANGED engineVars /\ ppc' = ppc
      BY <2>4
         DEF Loop, Get, GetTimesOut, TestError, AppendError, SetEvent, producerVars
    <3>2. QED
      BY <3>1 DEF Call!vars, Ended
  <2>5. CASE UNCHANGED vars
    BY <2>5 DEF vars, producerVars, Call!vars, Ended
  <2>6. QED
    BY <1>2, <2>1, <2>2, <2>3, <2>4, <2>5 DEF Next, Producer, Sender
<1>3. QED
  BY <1>1, <1>2, TypeCorrect, AppliedOnce, OutcomeIsFinal, CompleteOnReturn, PTL
     DEF Spec, CallSpec, Call!Spec
=============================================================================
