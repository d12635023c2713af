----------------------------- MODULE BulkIndex -----------------------------
(***************************************************************************)
(* bulk_index (services/documents.py): the calling thread cuts a source of *)
(* documents into batches and puts them in a bounded queue; a pool of      *)
(* sender threads takes them out and sends them to the engine.  One poison *)
(* pill per sender ends the senders.  A sender whose request fails sets an *)
(* event that tells everybody else to stop.                                *)
(*                                                                         *)
(* Not every backend raises for a document it does not take: OpenSearch    *)
(* and Typesense answer with the errors of each document, Vespa's feed     *)
(* with nothing, Meilisearch with a task that may fail later, and the      *)
(* sender looks at none of these answers.  With Meilisearch a document is  *)
(* applied here once its task is queued, unless that task fails.           *)
(*                                                                         *)
(* One call, from the start of the pool to its return or exception.  The   *)
(* queue operations are atomic (queue.Queue locks); everything else that   *)
(* two threads share is read and written in separate steps.                *)
(***************************************************************************)
EXTENDS Naturals, Sequences, FiniteSets

CONSTANTS Workers,   \* sender threads; concurrency is their number
          NDocs,     \* documents in the source
          BatchSize, \* batch_size
          MaxRefused \* bound: documents dropped by requests that return

\* ASSUME there is a thread (ThreadPoolExecutor refuses 0) and that a batch
\* holds a document.
ASSUME SettingsAssumption ==
    /\ IsFiniteSet(Workers) /\ Workers # {}
    /\ NDocs \in Nat
    /\ BatchSize \in Nat \ {0}
    /\ MaxRefused \in Nat

VARIABLES
    queue,      \* send_queue: batches and pills
    errorEvent, \* error_event
    firstError, \* first_error: the senders that appended their exception
    ppc,        \* control of the calling thread
    taken,      \* documents taken from the source
    ready,      \* the batch the calling thread holds
    totalSent,  \* total_sent
    pillsPut,   \* poison pills put so far
    raising,    \* the source or the progress callback has raised
    wpc, batch, \* a sender: control, and the batch it holds
    sure,       \* the backend raises unless it has taken the whole batch
    applied,    \* applied[d]: how often the engine has applied document d
    refused     \* documents that requests have dropped without raising

producerVars == <<ppc, taken, ready, totalSent, pillsPut, raising>>
senderVars == <<wpc, batch>>
engineVars == <<sure, applied, refused>>
vars == <<queue, errorEvent, firstError, producerVars, senderVars, engineVars>>

Concurrency == Cardinality(Workers)
Capacity == Concurrency + 1

\* A batch is a run of the source's documents; None is the poison pill.
Batch(i, j) == [first |-> i, last |-> j]
None == Batch(0, 0)
Batches == [first : 1..NDocs, last : 1..NDocs]
Length(b) == b.last - b.first + 1
Docs(b) == {d \in 1..NDocs : b.first <= d /\ d <= b.last}

\* slip: the last batch is taken to be full
FullBatch == Batch(taken + 1, taken + BatchSize)

\* _batch_iterator: batch_size documents, the last batch may be shorter
NextBatch ==
    Batch(taken + 1, IF taken + BatchSize < NDocs THEN taken + BatchSize ELSE NDocs)

Init ==
    /\ queue = <<>>
    /\ errorEvent = FALSE
    /\ firstError = <<>>
    /\ ppc = "next"
    /\ taken = 0
    /\ ready = None
    /\ totalSent = 0
    /\ pillsPut = 0
    /\ raising = FALSE
    /\ wpc = [w \in Workers |-> "loop"]
    /\ batch = [w \in Workers |-> None]
    /\ sure \in BOOLEAN
    /\ applied = [d \in 1..NDocs |-> 0]
    /\ refused = {}

-----------------------------------------------------------------------------
(* The calling thread.                                                     *)

\* for batch in _batch_iterator(documents, batch_size)
TakeBatch ==
    /\ ppc = "next"
    /\ taken < NDocs
    /\ ready' = NextBatch
    /\ taken' = NextBatch.last
    /\ ppc' = "check"
    /\ UNCHANGED <<queue, errorEvent, firstError, totalSent, pillsPut, raising,
                   senderVars, engineVars>>

SourceEnds ==
    /\ ppc = "next"
    /\ taken = NDocs
    /\ ppc' = "pills"
    /\ UNCHANGED <<queue, errorEvent, firstError, taken, ready, totalSent,
                   pillsPut, raising, senderVars, engineVars>>

\* The generator raises; the finally clause runs before the exception leaves.
SourceRaises ==
    /\ ppc = "next"
    /\ raising' = TRUE
    /\ ppc' = "pills"
    /\ UNCHANGED <<queue, errorEvent, firstError, taken, ready, totalSent,
                   pillsPut, senderVars, engineVars>>

\* if error_event.is_set(): break
Break ==
    /\ ppc = "check"
    /\ errorEvent
    /\ ready' = None
    /\ ppc' = "pills"
    /\ UNCHANGED <<queue, errorEvent, firstError, taken, totalSent, pillsPut,
                   raising, senderVars, engineVars>>

GoOn ==
    /\ ppc = "check"
    /\ ~errorEvent
    /\ ppc' = "put"
    /\ UNCHANGED <<queue, errorEvent, firstError, taken, ready, totalSent,
                   pillsPut, raising, senderVars, engineVars>>

\* slip: the queue has no bound
PutUnbounded ==
    /\ ppc = "put"
    /\ queue' = Append(queue, ready)
    /\ totalSent' = totalSent + Length(ready)
    /\ ready' = None
    /\ ppc' = "progress"
    /\ UNCHANGED <<errorEvent, firstError, taken, pillsPut, raising, senderVars,
                   engineVars>>

\* send_queue.put(batch), which waits for room; total_sent += len(batch)
Put ==
    /\ ppc = "put"
    /\ Len(queue) < Capacity
    /\ queue' = Append(queue, ready)
    /\ totalSent' = totalSent + Length(ready)
    /\ ready' = None
    /\ ppc' = "progress"
    /\ UNCHANGED <<errorEvent, firstError, taken, pillsPut, raising, senderVars,
                   engineVars>>

\* progress_callback(total_sent, total): the caller's code, which may raise
Progress ==
    /\ ppc = "progress"
    /\ \/ /\ ppc' = "next"
          /\ UNCHANGED raising
       \/ /\ ppc' = "pills"
          /\ raising' = TRUE
    /\ UNCHANGED <<queue, errorEvent, firstError, taken, ready, totalSent,
                   pillsPut, senderVars, engineVars>>

\* slip: one pill for all the senders
PutOnePill ==
    /\ ppc = "pills"
    /\ Len(queue) < Capacity
    /\ queue' = Append(queue, None)
    /\ pillsPut' = pillsPut + 1
    /\ ppc' = "join"
    /\ UNCHANGED <<errorEvent, firstError, taken, ready, totalSent, raising,
                   senderVars, engineVars>>

\* finally: for _ in range(concurrency): send_queue.put(None)
PutPill ==
    /\ ppc = "pills"
    /\ Len(queue) < Capacity
    /\ queue' = Append(queue, None)
    /\ pillsPut' = pillsPut + 1
    /\ ppc' = IF pillsPut + 1 = Concurrency THEN "join" ELSE "pills"
    /\ UNCHANGED <<errorEvent, firstError, taken, ready, totalSent, raising,
                   senderVars, engineVars>>

\* slip: the senders are not waited for
JoinNobody ==
    /\ ppc = "join"
    /\ ppc' = IF raising \/ firstError # <<>> THEN "raised" ELSE "returned"
    /\ UNCHANGED <<queue, errorEvent, firstError, taken, ready, totalSent,
                   pillsPut, raising, senderVars, engineVars>>

\* Every sender is waited for, by as_completed or, with an exception on its
\* way, by the end of the with statement; then the first error is raised.
Join ==
    /\ ppc = "join"
    /\ \A w \in Workers : wpc[w] = "done"
    /\ ppc' = IF raising \/ firstError # <<>> THEN "raised" ELSE "returned"
    /\ UNCHANGED <<queue, errorEvent, firstError, taken, ready, totalSent,
                   pillsPut, raising, senderVars, engineVars>>

-----------------------------------------------------------------------------
(* A sender thread (sender_worker).                                        *)

\* while not error_event.is_set()
Loop(w) ==
    /\ wpc[w] = "loop"
    /\ wpc' = [wpc EXCEPT ![w] = IF errorEvent THEN "done" ELSE "get"]
    /\ UNCHANGED <<queue, errorEvent, firstError, producerVars, batch, engineVars>>

\* send_queue.get(timeout=1.0)
Get(w) ==
    /\ wpc[w] = "get"
    /\ queue # <<>>
    /\ queue' = Tail(queue)
    /\ IF Head(queue) = None
         THEN /\ wpc' = [wpc EXCEPT ![w] = "done"]
              /\ UNCHANGED batch
         ELSE /\ wpc' = [wpc EXCEPT ![w] = "send"]
              /\ batch' = [batch EXCEPT ![w] = Head(queue)]
    /\ UNCHANGED <<errorEvent, firstError, producerVars, engineVars>>

\* slip: the sender gives up when the queue stays empty for a second
GetStops(w) ==
    /\ wpc[w] = "get"
    /\ queue = <<>>
    /\ wpc' = [wpc EXCEPT ![w] = "done"]
    /\ UNCHANGED <<queue, errorEvent, firstError, producerVars, batch, engineVars>>

\* except Empty: continue
GetTimesOut(w) ==
    /\ wpc[w] = "get"
    /\ queue = <<>>
    /\ wpc' = [wpc EXCEPT ![w] = "loop"]
    /\ UNCHANGED <<queue, errorEvent, firstError, producerVars, batch, engineVars>>

\* add_documents and add_documents_ndjson upsert by primary key.
EngineTakes(docs) ==
    applied' = [d \in 1..NDocs |-> applied[d] + (IF d \in docs THEN 1 ELSE 0)]

\* Of the batch of a request that returns, the engine may have dropped these
\* (raise_on_error=False; the import's results; Vespa's feed).
MayDrop(dropped) ==
    /\ sure => dropped = {}
    /\ Cardinality(refused \cup dropped) <= MaxRefused

\* The request returns, and the sender does not look at its answer.
Send(w) ==
    /\ wpc[w] = "send"
    /\ \E dropped \in SUBSET Docs(batch[w]) :
          /\ MayDrop(dropped)
          /\ EngineTakes(Docs(batch[w]) \ dropped)
          /\ refused' = refused \cup dropped
    /\ batch' = [batch EXCEPT ![w] = None]
    /\ wpc' = [wpc EXCEPT ![w] = "loop"]
    /\ UNCHANGED <<queue, errorEvent, firstError, producerVars, sure>>

\* The request raises, before, after or half way through the batch.
SendFails(w) ==
    /\ wpc[w] = "send"
    /\ \E done \in SUBSET Docs(batch[w]) : EngineTakes(done)
    /\ batch' = [batch EXCEPT ![w] = None]
    /\ wpc' = [wpc EXCEPT ![w] = "test"]
    /\ UNCHANGED <<queue, errorEvent, firstError, producerVars, sure, refused>>

\* if not first_error: first_error.append(exc); two senders may both append
TestError(w) ==
    /\ wpc[w] = "test"
    /\ wpc' = [wpc EXCEPT ![w] = IF firstError = <<>> THEN "append" ELSE "set"]
    /\ UNCHANGED <<queue, errorEvent, firstError, producerVars, batch, engineVars>>

\* slip: the event is set and the exception forgotten
AppendNothing(w) ==
    /\ wpc[w] = "append"
    /\ wpc' = [wpc EXCEPT ![w] = "set"]
    /\ UNCHANGED <<queue, errorEvent, firstError, producerVars, batch, engineVars>>

AppendError(w) ==
    /\ wpc[w] = "append"
    /\ firstError' = Append(firstError, w)
    /\ wpc' = [wpc EXCEPT ![w] = "set"]
    /\ UNCHANGED <<queue, errorEvent, producerVars, batch, engineVars>>

\* error_event.set()
SetEvent(w) ==
    /\ wpc[w] = "set"
    /\ errorEvent' = TRUE
    /\ wpc' = [wpc EXCEPT ![w] = "done"]
    /\ UNCHANGED <<queue, firstError, producerVars, batch, engineVars>>

-----------------------------------------------------------------------------
Producer ==
    \/ TakeBatch \/ SourceEnds \/ SourceRaises \/ Break \/ GoOn \/ Put
    \/ Progress \/ PutPill \/ Join

Sender(w) ==
    \/ Loop(w) \/ Get(w) \/ GetTimesOut(w) \/ Send(w) \/ SendFails(w)
    \/ TestError(w) \/ AppendError(w) \/ SetEvent(w)

Next == Producer \/ \E w \in Workers : Sender(w)

\* Threads that can run do run, requests end, and so does a second.
Fairness == WF_vars(Producer) /\ \A w \in Workers : WF_vars(Sender(w))

Spec == Init /\ [][Next]_vars
FairSpec == Spec /\ Fairness

-----------------------------------------------------------------------------
(* What is checked.                                                        *)

\* The type invariant: it bounds the queue and the pills.
TypeOK ==
    /\ queue \in Seq(Batches \cup {None})
    /\ Len(queue) <= Capacity
    /\ errorEvent \in BOOLEAN
    /\ firstError \in Seq(Workers)
    /\ ppc \in {"next", "check", "put", "progress", "pills", "join", "returned",
                "raised"}
    /\ taken \in 0..NDocs
    /\ ready \in Batches \cup {None}
    /\ totalSent \in 0..NDocs
    /\ pillsPut \in 0..Concurrency
    /\ raising \in BOOLEAN
    /\ wpc \in [Workers -> {"loop", "get", "send", "test", "append", "set", "done"}]
    /\ batch \in [Workers -> Batches \cup {None}]
    /\ sure \in BOOLEAN
    /\ applied \in [1..NDocs -> Nat]
    /\ refused \subseteq 1..NDocs

Ended == ppc \in {"returned", "raised"}

\* "Total number of documents sent to the engine": a call that returns has sent
\* every document once and returns their number.  No error, no batch behind a
\* pill and no sender still at work may be missed.  Sent is applied with a
\* backend that raises for what it does not take; the others may have dropped a
\* document from a request that returned, and the total counts it all the same.
ReturnsComplete ==
    ppc = "returned" =>
        /\ totalSent = NDocs
        /\ \A d \in 1..NDocs : applied[d] = (IF d \in refused THEN 0 ELSE 1)
        /\ sure => refused = {}

\* The bounded queue keeps the backlog, the batches taken from the source and
\* not sent yet, below concurrency batches being sent, concurrency + 1 waiting
\* and one being put, however long the source is and however slow the engine.
BacklogBound ==
    LET Batched(n) == n # None
        queued == Cardinality({i \in DOMAIN queue : Batched(queue[i])})
        sending == Cardinality({w \in Workers : Batched(batch[w])})
    IN queued + sending + (IF Batched(ready) THEN 1 ELSE 0) <= 2 * Concurrency + 2

\* ReturnsComplete is not inductive.  It rests on what the caller counts:
Closing == ppc \in {"pills", "join", "returned", "raised"}
Counts ==
    /\ ready # None <=> ppc \in {"check", "put"}
    /\ ready # None => ready.last = taken /\ totalSent = ready.first - 1
    /\ ready = None /\ ~Closing => totalSent = taken
    /\ ppc = "pills" => pillsPut < Concurrency
    /\ ~Closing => pillsPut = 0

\* on where a document is, with the caller, in the queue, with one sender,
\* applied or refused, and at one place only:
In(d, b) == b.first <= d /\ d <= b.last
Queued(d) == \E i \in DOMAIN queue : In(d, queue[i])
Sending(d) == \E w \in Workers : In(d, batch[w])
Waiting(d) == In(d, ready) \/ Queued(d) \/ Sending(d)
Done(d) == applied[d] > 0 \/ d \in refused
OnlyTaken == \A d \in 1..NDocs : Done(d) \/ Waiting(d) => d <= taken
OnePlace ==
    \A d \in 1..NDocs :
        /\ In(d, ready) => ~Queued(d) /\ ~Sending(d) /\ ~Done(d)
        /\ Queued(d) => ~Sending(d) /\ ~Done(d)
        /\ Sending(d) => ~Done(d)
        /\ d \in refused => applied[d] = 0
        /\ \A i, j \in DOMAIN queue : In(d, queue[i]) /\ In(d, queue[j]) => i = j
        /\ \A v, w \in Workers : In(d, batch[v]) /\ In(d, batch[w]) => v = w
        /\ applied[d] <= 1

\* on nothing being lost before a request fails:
Failed == firstError # <<>> \/ \E w \in Workers : wpc[w] \in {"test", "append"}
Errors ==
    /\ \A w \in Workers : batch[w] # None <=> wpc[w] = "send"
    /\ \A w \in Workers : wpc[w] = "set" => firstError # <<>>
    /\ errorEvent => firstError # <<>>
NothingLost ==
    ~Failed =>
        /\ \A d \in 1..taken : Done(d) \/ Waiting(d)
        /\ Closing => totalSent = taken
        /\ Closing /\ ~raising => taken = NDocs

\* and on the pills being behind the batches: a sender that took one left none.
OnlyPills == Closing /\ \A i \in DOMAIN queue : queue[i] = None
PillsLast ==
    /\ \A i, j \in DOMAIN queue : i < j /\ queue[i] = None => queue[j] = None
    /\ (\E i \in DOMAIN queue : queue[i] = None) => Closing
    /\ \A w \in Workers : wpc[w] = "done" => errorEvent \/ OnlyPills
Outcome ==
    /\ Ended => \A w \in Workers : wpc[w] = "done"
    /\ ppc = "returned" => ~raising /\ firstError = <<>>
    /\ sure => refused = {}
IndInv ==
    /\ TypeOK /\ Counts /\ OnlyTaken /\ OnePlace /\ Errors /\ NothingLost
    /\ PillsLast /\ Outcome /\ ReturnsComplete

\* The calling thread waits for room in the queue and no sender is left.
Stuck ==
    /\ ppc \in {"put", "pills"}
    /\ Len(queue) = Capacity
    /\ \A w \in Workers : wpc[w] = "done"

\* Only a failed request can leave the calling thread waiting for ever: the
\* pills never outnumber the senders that are left to take them.
StuckOnlyAfterError == Stuck => errorEvent

\* Every call comes to an end with all its senders stopped, if not stuck.
EndsOrStuck == <>(Ended \/ Stuck)

\* bulk_index implements the call its caller sees.
Call == INSTANCE BulkIndexCall
          WITH outcome <- IF Ended THEN ppc ELSE "running"
CallSpec == Call!Spec

\* documents.py:391-400: the pills are there "to shut down workers", the call
\* waits "for all senders to complete" and raises the first error: once a
\* request has failed, the call ends.
ErrorEndsCall == errorEvent ~> Ended
=============================================================================
