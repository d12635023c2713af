------------------------- MODULE Deployment_proofs -------------------------
(***************************************************************************)
(* Proofs about the writes of Engines, in a deployment.  Of the log rows:  *)
(* one stays pending only where its call stopped or an exception passed    *)
(* its handler.  Of the documents: what an add acknowledges is there, and  *)
(* a deletion by filter deletes what it asks for and nothing else.  Of the *)
(* services: they implement DocumentStore.  Of the database: the squashed  *)
(* migration, the chain and any part of the chain continued lead to the    *)
(* tables of the models.                                                   *)
(***************************************************************************)
EXTENDS Deployment, FiniteSetTheorems, SequenceTheorems, TLAPS

-----------------------------------------------------------------------------
(* The rows of the log.                                                    *)

Unlogged == {"update", "clear"}
Operation == {"add", "remove", "filter"} \cup Unlogged
Raisers == {"opensearch", "typesense", "vespa"}
Careful == {"postgres", "typesense"}

(* A call has these fields, whatever happens to it.                        *)
Shaped(call) == {"at", "op", "raised", "sole"} \subseteq DOMAIN call /\ call.op \in Operation

LEMMA ShapedIsCall == \A call : Shaped(call) => call # NoCall
BY DEF Shaped, NoCall

(* Taking documents from a call leaves its other fields.                   *)
LEMMA SoleShape ==
    ASSUME NEW call, Shaped(call), NEW x
    PROVE  LET new == [call EXCEPT !.sole = x]
           IN  /\ Shaped(new) /\ new.op = call.op
               /\ new.at = call.at /\ new.raised = call.raised
BY DEF Shaped

(* What a step of a call keeps of it.                                      *)
Follows(old, new) == Shaped(new) /\ new.op = old.op

(* The calls that raise IndexNotFoundError, and an exception of no class of *)
(* the package.                                                             *)
MayMiss(call) == kind \in Raisers \/ call.op \in Unlogged
MayRaise(call, raised) ==
    /\ raised = "missing" => MayMiss(call)
    /\ raised = "other" => kind \notin Careful
LeftOpen(c) ==
    \/ opened[c] = "stopped"
    \/ opened[c] = "missing" /\ kind \in Raisers
    \/ opened[c] = "other" /\ kind \notin Careful

Rows ==
    /\ calls = [c \in Callers |-> calls[c]]
    /\ log = [c \in Callers |-> log[c]]
    /\ opened = [c \in Callers |-> opened[c]]
    /\ kind \in Kinds
CallOK(c) ==
    ~Idle(c) =>
        /\ Shaped(calls[c])
        /\ log[c] = IF calls[c].op \in Unlogged THEN NoRow ELSE "pending"
        /\ calls[c].at = "close" => MayRaise(calls[c], calls[c].raised)
RowOK(c) == Idle(c) /\ log[c] = "pending" => LeftOpen(c)
RowInv == Rows /\ \A c \in Callers : CallOK(c) /\ RowOK(c)

(* What a new call takes from the others: the documents it shares with      *)
(* them.                                                                    *)
LEMMA SharedOK ==
    ASSUME RowInv, NEW docs, NEW c \in Callers, NEW new, new = Shared(docs)[c]
    PROVE  /\ Idle(c) => new = NoCall
           /\ ~Idle(c) => /\ Follows(calls[c], new)
                          /\ new.at = calls[c].at /\ new.raised = calls[c].raised
<1>1. CASE Idle(c)
  BY <1>1 DEF Shared
<1>2. CASE ~Idle(c)
  <2>1. Shaped(calls[c])
    BY <1>2 DEF RowInv, CallOK
  <2>2. new = [calls[c] EXCEPT !.sole = @ \ docs]
    BY <1>2 DEF Shared
  <2>3. QED
    BY <1>2, <2>1, <2>2, SoleShape DEF Follows
<1>3. QED
  BY <1>1, <1>2

(* Which requests raise IndexNotFoundError, and which an exception of no    *)
(* class of the package.                                                    *)
LEMMA WhoRaises ==
    ASSUME NEW k \in Kinds, NEW op \in {"add", "remove", "update", "clear"},
           NEW docs, NEW there, NEW present,
           NEW answer \in Answers(k, op, docs, there, present)
    PROVE  /\ answer.raised = "missing" => k \in Raisers \/ op \in Unlogged
           /\ answer.raised = "other" => k \notin Careful
<1> USE DEF Raisers, Careful, Unlogged
<1>1. CASE k = "dummy"
  BY <1>1 DEF Answers, DummyAdd, DummyDelete, DummyClear, DummyUpdate, Whole, Missing, Torn, Answer
<1>2. CASE k = "meilisearch"
  BY <1>2 DEF Answers, MeilisearchRequest, Single, Whole, Failing, Unsent, Torn, Answer
<1>3. CASE k = "postgres"
  BY <1>3 DEF Answers, PostgresAdd, PostgresDelete, PostgresClear, PostgresUpdate, Whole, Failing, Answer
<1>4. CASE k = "solr"
  BY <1>4 DEF Answers, SolrUpdate, Whole, Broken, Failing, Unsent, Torn, Answer
<1>5. CASE k = "typesense"
  BY <1>5 DEF Answers, TypesenseImport, TypesenseDelete, TypesenseClear, Whole, Broken, Silent,
              Missing, Answer
<1>6. QED
  BY <1>1, <1>2, <1>3, <1>4, <1>5 DEF Kinds

(* A step of one call that leaves its row alone.                           *)
LEMMA CallStep ==
    ASSUME RowInv, NEW c \in Callers, ~Idle(c), NEW new,
           calls' = [calls EXCEPT ![c] = new], Follows(calls[c], new),
           new.at = "close" => MayRaise(calls[c], new.raised),
           UNCHANGED <<kind, log, opened>>
    PROVE  RowInv'
<1>1. Rows'
  BY DEF RowInv, Rows
<1>2. calls'[c] = new /\ \A d \in Callers : d # c => calls'[d] = calls[d]
  BY DEF RowInv, Rows
<1>3. ASSUME NEW d \in Callers PROVE (CallOK(d) /\ RowOK(d))'
  <2>1. CASE d = c
    <3>1. Shaped(new) /\ new.op = calls[c].op /\ ~(Idle(c)')
      BY <1>2, ShapedIsCall DEF Follows, Idle
    <3>2. log[c] = IF calls[c].op \in Unlogged THEN NoRow ELSE "pending"
      BY DEF RowInv, CallOK
    <3>3. CallOK(c)'
      BY <1>2, <3>1, <3>2 DEF CallOK, MayMiss, MayRaise
    <3>4. QED
      BY <2>1, <3>1, <3>3 DEF RowOK
  <2>2. CASE d # c
    BY <1>2, <2>2 DEF RowInv, CallOK, RowOK, MayMiss, MayRaise, LeftOpen, Idle
  <2>3. QED
    BY <2>1, <2>2
<1>4. QED
  BY <1>1, <1>3 DEF RowInv

(* A step that is part of no call, and may take documents from all.        *)
LEMMA OutsideStep ==
    ASSUME RowInv, NEW docs, calls' = Shared(docs), UNCHANGED <<kind, log, opened>>
    PROVE  RowInv'
<1>1. Rows'
  BY DEF RowInv, Rows, Shared
<1>2. ASSUME NEW c \in Callers PROVE (CallOK(c) /\ RowOK(c))'
  <2>1. CASE Idle(c)
    <3>1. calls'[c] = NoCall
      BY <2>1, SharedOK
    <3>2. QED
      BY <2>1, <3>1 DEF RowInv, CallOK, RowOK, LeftOpen, Idle
  <2>2. CASE ~Idle(c)
    <3>1. /\ Follows(calls[c], calls'[c])
          /\ calls'[c].at = calls[c].at /\ calls'[c].raised = calls[c].raised
      BY <2>2, SharedOK
    <3>2. ~(Idle(c)')
      BY <3>1, ShapedIsCall DEF Follows, Idle
    <3>3. QED
      BY <2>2, <3>1, <3>2 DEF RowInv, CallOK, RowOK, MayMiss, MayRaise, Follows
  <2>3. QED
    BY <2>1, <2>2
<1>3. QED
  BY <1>1, <1>2 DEF RowInv

(* A call begins: a row is opened for it, if it has one.                   *)
LEMMA BeginStep ==
    ASSUME RowInv, NEW c \in Callers, NEW call, NEW logged \in BOOLEAN,
           Begin(c, call, logged), Shaped(call), call.at # "close",
           logged <=> call.op \notin Unlogged
    PROVE  RowInv'
<1>1. /\ calls' = [Shared(call.docs) EXCEPT ![c] = call]
      /\ log' = [log EXCEPT ![c] = IF logged THEN "pending" ELSE NoRow]
      /\ opened' = [opened EXCEPT ![c] = ""]
      /\ kind' = kind
  BY DEF Begin, setting
<1>2. Rows'
  <2>1. log' = [d \in Callers |-> log'[d]]
    BY <1>1 DEF RowInv, Rows
  <2>2. opened' = [d \in Callers |-> opened'[d]]
    BY <1>1 DEF RowInv, Rows
  <2>3. calls' = [d \in Callers |-> calls'[d]]
    BY <1>1 DEF Shared
  <2>4. QED
    BY <1>1, <2>1, <2>2, <2>3 DEF RowInv, Rows
<1>3. calls'[c] = call /\ \A d \in Callers : d # c => calls'[d] = Shared(call.docs)[d]
  BY <1>1 DEF Shared
<1>4. /\ log'[c] = (IF logged THEN "pending" ELSE NoRow)
      /\ \A d \in Callers : d # c => log'[d] = log[d] /\ opened'[d] = opened[d]
  BY <1>1 DEF RowInv, Rows
<1>5. (CallOK(c) /\ RowOK(c))'
  <2>1. ~(Idle(c)')
    BY <1>3, ShapedIsCall DEF Idle
  <2>2. QED
    BY <1>3, <1>4, <2>1 DEF CallOK, RowOK
<1>6. ASSUME NEW d \in Callers, d # c PROVE (CallOK(d) /\ RowOK(d))'
  <2>1. CASE Idle(d)
    <3>1. calls'[d] = NoCall
      BY <1>3, <1>6, <2>1, SharedOK
    <3>2. QED
      BY <1>1, <1>4, <1>6, <2>1, <3>1 DEF RowInv, CallOK, RowOK, LeftOpen, Idle
  <2>2. CASE ~Idle(d)
    <3>1. /\ Follows(calls[d], calls'[d])
          /\ calls'[d].at = calls[d].at /\ calls'[d].raised = calls[d].raised
      BY <1>3, <1>6, <2>2, SharedOK
    <3>2. ~(Idle(d)')
      BY <3>1, ShapedIsCall DEF Follows, Idle
    <3>3. QED
      BY <1>1, <1>4, <1>6, <2>2, <3>1, <3>2
         DEF RowInv, CallOK, RowOK, MayMiss, MayRaise, Follows
  <2>3. QED
    BY <2>1, <2>2
<1>7. QED
  BY <1>2, <1>5, <1>6 DEF RowInv

(* A write begins.                                                         *)
LEMMA SendingStep ==
    ASSUME RowInv, NEW c \in Callers, NEW op \in Operation, NEW docs, NEW to,
           NEW logged \in BOOLEAN, logged <=> op \notin Unlogged,
           Begin(c, Sending(op, docs, to), logged)
    PROVE  RowInv'
<1>1. /\ Shaped(Sending(op, docs, to)) /\ Sending(op, docs, to).op = op
      /\ Sending(op, docs, to).at = "send"
  BY DEF Shaped, Sending
<1>2. QED
  BY <1>1, BeginStep

(* A call ends with what was raised.                                       *)
LEMMA EndStep ==
    ASSUME RowInv, NEW c \in Callers, ~Idle(c), NEW raised, Ends(c, raised),
           MayRaise(calls[c], raised), UNCHANGED <<kind, log, opened>>
    PROVE  RowInv'
<1> DEFINE new == [calls[c] EXCEPT !.at = "close", !.raised = raised]
<1>1. Shaped(calls[c])
  BY DEF RowInv, CallOK
<1>2. calls' = [calls EXCEPT ![c] = new]
  BY DEF Ends
<1>3. Follows(calls[c], new) /\ new.at = "close" /\ new.raised = raised
  BY <1>1 DEF Follows, Shaped
<1>4. QED
  BY <1>2, <1>3, CallStep

(* A call is over.                                                         *)
LEMMA OverStep ==
    ASSUME RowInv, NEW c \in Callers, calls' = [calls EXCEPT ![c] = NoCall],
           UNCHANGED kind, Rows', RowOK(c)',
           \A d \in Callers \ {c} : log'[d] = log[d] /\ opened'[d] = opened[d]
    PROVE  RowInv'
<1>1. calls'[c] = NoCall /\ \A d \in Callers : d # c => calls'[d] = calls[d]
  BY DEF RowInv, Rows
<1>2. QED
  BY <1>1 DEF RowInv, CallOK, RowOK, MayMiss, MayRaise, LeftOpen, Idle, Rows

(* Step by step.                                                           *)
LEMMA RowInit == Init => RowInv
BY DEF Init, EnginesInit, RowInv, Rows, CallOK, RowOK, Idle, NoRow

(* One request: the call goes on, or ends with what the backend raised.    *)
LEMMA RequestStep ==
    ASSUME RowInv, NEW c \in Callers, Send(c)
    PROVE  RowInv'
<1> DEFINE call == calls[c]
           op == IF call.op = "filter" THEN "remove" ELSE call.op
           present == {d \in Docs : Settled[d] # Absent}
<1>1. call.at = "send" /\ UNCHANGED <<kind, log, opened>>
  BY DEF Send, setting
<1>2. ~Idle(c)
  BY <1>1 DEF Idle, NoCall
<1>3. Shaped(call) /\ kind \in Kinds
  BY <1>2 DEF RowInv, CallOK, Rows
<1>4. PICK docs : \E answer \in Answers(kind, op, docs, exists, present) :
         LET failed == call.failed \/ answer.raised = "backend" IN
          CASE answer.raised \in Unhandled -> Ends(c, answer.raised)
            [] answer.raised \notin Unhandled /\ (call.left = docs \/ (failed /\ ~GoesOn(kind))) ->
                 Ends(c, IF failed THEN "backend" ELSE "no")
            [] OTHER -> calls' = [calls EXCEPT ![c].left = @ \ docs, ![c].failed = failed]
  BY DEF Send
<1>5. PICK answer \in Answers(kind, op, docs, exists, present) :
         LET failed == call.failed \/ answer.raised = "backend" IN
          CASE answer.raised \in Unhandled -> Ends(c, answer.raised)
            [] answer.raised \notin Unhandled /\ (call.left = docs \/ (failed /\ ~GoesOn(kind))) ->
                 Ends(c, IF failed THEN "backend" ELSE "no")
            [] OTHER -> calls' = [calls EXCEPT ![c].left = @ \ docs, ![c].failed = failed]
  BY <1>4
<1>6. CASE answer.raised \in Unhandled
  <2>1. op \in {"add", "remove", "update", "clear"}
    BY <1>3 DEF Shaped, Operation, Unlogged
  <2>2. /\ answer.raised = "missing" => kind \in Raisers \/ op \in Unlogged
        /\ answer.raised = "other" => kind \notin Careful
    BY <1>3, <1>5, <2>1, WhoRaises
  <2>3. MayRaise(call, answer.raised)
    BY <2>2 DEF MayRaise, MayMiss, Unlogged
  <2>4. Ends(c, answer.raised)
    BY <1>5, <1>6
  <2>5. QED
    BY <1>1, <1>2, <2>3, <2>4, EndStep
<1>7. ASSUME NEW raised \in {"backend", "no"}, Ends(c, raised) PROVE RowInv'
  BY <1>1, <1>2, <1>7, EndStep DEF MayRaise
<1>8. ASSUME NEW failed, calls' = [calls EXCEPT ![c].left = @ \ docs, ![c].failed = failed]
      PROVE  RowInv'
  <2> DEFINE new == [call EXCEPT !.left = @ \ docs, !.failed = failed]
  <2>1. calls' = [calls EXCEPT ![c] = new]
    BY <1>8
  <2>2. Follows(call, new) /\ new.at = "send"
    BY <1>1, <1>3 DEF Follows, Shaped
  <2>3. QED
    BY <1>1, <1>2, <2>1, <2>2, CallStep
<1>9. QED
  BY <1>5, <1>6, <1>7, <1>8

(* One page of ids, or the search of it fails.                             *)
LEMMA ScanStep ==
    ASSUME RowInv, NEW c \in Callers, Scan(c)
    PROVE  RowInv'
<1> DEFINE call == calls[c]
<1>1. call.at = "scan" /\ UNCHANGED <<kind, log, opened>>
  BY DEF Scan, setting
<1>2. ~Idle(c)
  BY <1>1 DEF Idle, NoCall
<1>3. Shaped(call)
  BY <1>2 DEF RowInv, CallOK
<1>4. ASSUME NEW raised, Ends(c, raised), raised = "missing" => kind \in Raisers,
             raised = "other" => kind \notin Careful
      PROVE  RowInv'
  BY <1>1, <1>2, <1>4, EndStep DEF MayRaise, MayMiss
<1>5. CASE Ends(c, SearchMissing(kind))
  <2>1. /\ SearchMissing(kind) = "missing" => kind \in Raisers
        /\ SearchMissing(kind) # "other"
    BY DEF SearchMissing, Raisers
  <2>2. QED
    BY <1>4, <1>5, <2>1
<1>6. CASE Ends(c, "backend")
  BY <1>4, <1>6
<1>9. CASE SearchTears(kind) /\ Ends(c, "other")
  BY <1>4, <1>9 DEF SearchTears, Careful
<1>7. CASE ScanPage(c)
  <2>1. \/ Ends(c, "no")
        \/ \E ids : calls' = [calls EXCEPT ![c].left = ids, ![c].offset = @ + Page]
        \/ \E ids : calls' = [calls EXCEPT ![c].left = ids, ![c].at = "send"]
    BY <1>7 DEF ScanPage
  <2>2. CASE Ends(c, "no")
    BY <1>4, <2>2
  <2>3. ASSUME NEW ids, calls' = [calls EXCEPT ![c].left = ids, ![c].offset = @ + Page]
        PROVE  RowInv'
    <3> DEFINE new == [call EXCEPT !.left = ids, !.offset = @ + Page]
    <3>1. calls' = [calls EXCEPT ![c] = new]
      BY <2>3
    <3>2. Follows(call, new) /\ new.at = "scan"
      BY <1>1, <1>3 DEF Follows, Shaped
    <3>3. QED
      BY <1>1, <1>2, <3>1, <3>2, CallStep
  <2>4. ASSUME NEW ids, calls' = [calls EXCEPT ![c].left = ids, ![c].at = "send"]
        PROVE  RowInv'
    <3> DEFINE new == [call EXCEPT !.left = ids, !.at = "send"]
    <3>1. calls' = [calls EXCEPT ![c] = new]
      BY <2>4
    <3>2. Follows(call, new) /\ new.at = "send"
      BY <1>3 DEF Follows, Shaped
    <3>3. QED
      BY <1>1, <1>2, <3>1, <3>2, CallStep
  <2>5. QED
    BY <2>1, <2>2, <2>3, <2>4
<1>8. QED
  BY <1>5, <1>6, <1>7, <1>9 DEF Scan

(* Meilisearch's deletion raises no IndexNotFoundError.                    *)
LEMMA TaskStep ==
    ASSUME RowInv, NEW c \in Callers, DeleteTask(c)
    PROVE  RowInv'
<1>1. calls[c].at = "scan" /\ UNCHANGED <<kind, log, opened>>
  BY DEF DeleteTask, setting
<1>2. ~Idle(c)
  BY <1>1 DEF Idle, NoCall
<1>3. PICK answer \in Failing \cup MeilisearchRequest(Docs) : Ends(c, answer.raised)
  BY DEF DeleteTask
<1>4. answer.raised # "missing"
  BY DEF Failing, MeilisearchRequest, Single, Whole, Unsent, Torn, Answer
<1>5. kind \notin Careful
  BY DEF DeleteTask, Careful
<1>6. QED
  BY <1>1, <1>2, <1>3, <1>4, <1>5, EndStep DEF MayRaise

(* Why a call that is over leaves its row as it is, "" if it does not.      *)
Reason(c) == IF log[c] # NoRow /\ calls[c].raised \in Unhandled THEN calls[c].raised ELSE ""

LEMMA ClosingIs ==
    ASSUME NEW c, Close(c)
    PROVE  /\ calls[c].at = "close" /\ calls[c] # NoCall
           /\ calls' = [calls EXCEPT ![c] = NoCall]
           /\ UNCHANGED <<setting, stored, queue>>
           /\ log' = [log EXCEPT ![c] =
                IF log[c] = NoRow \/ Reason(c) # "" THEN @ ELSE Outcome(calls[c].raised)]
           /\ opened' = [opened EXCEPT ![c] = Reason(c)]
           /\ acked' = [d \in Docs |->
                IF calls[c].op = "add" /\ calls[c].raised = "no" /\ d \in calls[c].sole
                THEN calls[c].to ELSE acked[d]]
<1>1. calls[c].at = "close" /\ calls' = [calls EXCEPT ![c] = NoCall]
  BY DEF Close
<1>2. calls[c] # NoCall
  BY <1>1 DEF NoCall
<1>3. QED
  BY <1>1, <1>2 DEF Close, Reason

(* The row is completed, unless there is a reason to leave it open.         *)
LEMMA CloseStep ==
    ASSUME RowInv, NEW c \in Callers, Close(c)
    PROVE  RowInv'
<1> DEFINE call == calls[c]
<1>1. /\ call.at = "close" /\ UNCHANGED kind
      /\ calls' = [calls EXCEPT ![c] = NoCall]
  BY ClosingIs DEF setting
<1>9. PICK reason : reason = Reason(c)
  OBVIOUS
<1>2. /\ log' = [log EXCEPT ![c] =
              IF log[c] = NoRow \/ reason # "" THEN @ ELSE Outcome(call.raised)]
      /\ opened' = [opened EXCEPT ![c] = reason]
  BY <1>9, ClosingIs
<1>3. ~Idle(c)
  BY ClosingIs DEF Idle
<1>4. Rows'
  <2>1. calls' = [d \in Callers |-> calls'[d]]
    BY <1>1 DEF RowInv, Rows
  <2>2. log' = [d \in Callers |-> log'[d]]
    BY <1>2 DEF RowInv, Rows
  <2>3. opened' = [d \in Callers |-> opened'[d]]
    BY <1>2 DEF RowInv, Rows
  <2>4. QED
    BY <1>1, <2>1, <2>2, <2>3 DEF RowInv, Rows
<1>5. /\ log'[c] = IF log[c] = NoRow \/ reason # "" THEN log[c] ELSE Outcome(call.raised)
      /\ opened'[c] = reason
      /\ \A d \in Callers \ {c} : log'[d] = log[d] /\ opened'[d] = opened[d]
  BY <1>2 DEF RowInv, Rows
<1>6. ASSUME log'[c] = "pending" PROVE LeftOpen(c)'
  <2>1. log[c] # NoRow /\ reason # ""
    BY <1>5, <1>6 DEF NoRow, Outcome
  <2>2. reason = call.raised /\ reason \in Unhandled
    BY <1>9, <2>1 DEF Reason
  <2>3. log[c] = (IF call.op \in Unlogged THEN NoRow ELSE "pending") /\ MayRaise(call, call.raised)
    BY <1>1, <1>3 DEF RowInv, CallOK
  <2>4. call.raised = "missing" => kind \in Raisers
    BY <2>1, <2>3 DEF MayRaise, MayMiss
  <2>5. call.raised = "other" => kind \notin Careful
    BY <2>3 DEF MayRaise
  <2>6. QED
    BY <1>1, <1>5, <2>2, <2>4, <2>5 DEF LeftOpen, Unhandled
<1>7. RowOK(c)'
  BY <1>6 DEF RowOK
<1>8. QED
  BY <1>1, <1>4, <1>5, <1>7, OverStep

(* The process dies, or its row is refused.                                *)
LEMMA StopStep ==
    ASSUME RowInv, NEW c \in Callers, Stop(c)
    PROVE  RowInv'
<1>1. /\ UNCHANGED <<kind, log>>
      /\ calls' = [calls EXCEPT ![c] = NoCall]
      /\ opened' = [opened EXCEPT ![c] = IF log[c] # NoRow THEN "stopped" ELSE ""]
  BY DEF Stop, setting
<1>2. Rows'
  BY <1>1 DEF RowInv, Rows
<1>3. /\ opened'[c] = IF log[c] # NoRow THEN "stopped" ELSE ""
      /\ \A d \in Callers \ {c} : opened'[d] = opened[d]
  BY <1>1 DEF RowInv, Rows
<1>4. RowOK(c)'
  BY <1>1, <1>3 DEF RowOK, LeftOpen, NoRow
<1>5. QED
  BY <1>1, <1>2, <1>3, <1>4, OverStep

LEMMA RowStep == RowInv /\ [Next]_vars => RowInv'
<1> SUFFICES ASSUME RowInv, [Next]_vars PROVE RowInv'
  OBVIOUS
<1>1. CASE UNCHANGED engineVars
  BY <1>1
     DEF engineVars, RowInv, Rows, CallOK, RowOK, MayMiss, MayRaise, LeftOpen, Idle
<1>2. ASSUME NEW c \in Callers,
             \/ IndexDocuments(c) \/ RemoveDocuments(c) \/ UpdateDocuments(c)
             \/ ClearDocuments(c)
      PROVE  RowInv'
  <2>1. CASE IndexDocuments(c)
    <3>1. PICK docs, to : Begin(c, Sending("add", docs, to), TRUE)
      BY <2>1 DEF IndexDocuments
    <3>2. QED
      BY <3>1, SendingStep DEF Operation, Unlogged
  <2>2. CASE RemoveDocuments(c)
    <3>1. PICK docs : Begin(c, Sending("remove", docs, Absent), TRUE)
      BY <2>2 DEF RemoveDocuments
    <3>2. QED
      BY <3>1, SendingStep DEF Operation, Unlogged
  <2>3. CASE UpdateDocuments(c)
    <3>1. PICK docs, to : Begin(c, Sending("update", docs, to), FALSE)
      BY <2>3 DEF UpdateDocuments
    <3>2. QED
      BY <3>1, SendingStep DEF Operation, Unlogged
  <2>4. CASE ClearDocuments(c)
    <3>1. Begin(c, Sending("clear", Docs, Absent), FALSE)
      BY <2>4 DEF ClearDocuments
    <3>2. QED
      BY <3>1, SendingStep DEF Operation, Unlogged
  <2>5. QED
    BY <1>2, <2>1, <2>2, <2>3, <2>4
<1>3. ASSUME NEW c \in Callers, DeleteByFilter(c) PROVE RowInv'
  <2>1. PICK form, order :
           Begin(c, [at |-> "scan", op |-> "filter", docs |-> Docs, left |-> {},
                     to |-> Absent, form |-> form, order |-> order, offset |-> 0,
                     before |-> stored, failed |-> FALSE, raised |-> "no",
                     sole |-> IF queue = <<>> THEN Docs \ Busy ELSE {}], TRUE)
    BY <1>3 DEF DeleteByFilter
  <2>2. QED
    BY <2>1, BeginStep DEF Shaped, Operation, Unlogged
<1>4. ASSUME NEW c \in Callers, Scan(c) \/ DeleteTask(c) \/ Send(c) \/ Close(c) \/ Stop(c)
      PROVE  RowInv'
  BY <1>4, ScanStep, TaskStep, RequestStep, CloseStep, StopStep
<1>5. CASE Apply
  BY <1>5
     DEF Apply, setting, RowInv, Rows, CallOK, RowOK, MayMiss, MayRaise, LeftOpen, Idle
<1>6. CASE CreateIndex
  <2>1. CASE calls' = calls
    BY <1>6, <2>1
       DEF CreateIndex, setting, RowInv, Rows, CallOK, RowOK, MayMiss, MayRaise, LeftOpen, Idle
  <2>2. CASE calls' = Shared(Docs)
    BY <1>6, <2>2, OutsideStep DEF CreateIndex, setting
  <2>3. QED
    BY <1>6, <2>1, <2>2 DEF CreateIndex
<1>7. CASE DeleteIndex
  BY <1>7, OutsideStep DEF DeleteIndex, setting
<1>8. QED
  BY <1>1, <1>2, <1>3, <1>4, <1>5, <1>6, <1>7 DEF Next, EnginesNext, vars

(* A row stays pending only after a death, after a database error in its    *)
(* own update, or after an exception that the handlers of the services do   *)
(* not catch (documents.py:65, 105, 155) of a backend that lets it pass,    *)
(* however many callers write and whichever documents: backends/.           *)
THEOREM RowsAreClosed == Spec => []RowsClosed
<1>1. RowInv => RowsClosed
  BY DEF RowInv, RowOK, RowsClosed, LeftOpen, Raisers, Careful
<1>2. QED
  BY <1>1, RowInit, RowStep, PTL DEF Spec

-----------------------------------------------------------------------------
(* What the engine will have stored when it has caught up.                 *)

(* A set of numbers that is not empty has a least one.                     *)
LEMMA LeastNumber ==
    ASSUME NEW T \in SUBSET Nat, T # {}
    PROVE  \E m \in T : \A k \in T : m <= k
<1> DEFINE below == {0..n : n \in T}
<1>1. below \subseteq FiniteSubsetsOf(Nat) /\ below # {}
  <2>1. \A n \in T : 0..n \in SUBSET Nat /\ IsFiniteSet(0..n)
    BY FS_Interval
  <2>2. \A s \in below : s \in FiniteSubsetsOf(Nat)
    BY <2>1 DEF FiniteSubsetsOf
  <2>3. QED
    BY <2>2
<1>2. PICK s \in below : \A t \in below : ~ (<<t, s>> \in StrictSubsetOrdering(Nat))
  <2> HIDE DEF below
  <2>1. QED
    BY <1>1, FS_StrictSubsetOrderingWellFounded, WFMin
<1>3. PICK m \in T : s = 0..m
  BY <1>2
<1>4. ASSUME NEW k \in T, k < m PROVE FALSE
  <2>1. 0..k \in below /\ 0..k \subseteq 0..m /\ 0..k # 0..m
    BY <1>4
  <2>2. <<0..k, s>> \in StrictSubsetOrdering(Nat)
    BY <1>3, <2>1 DEF StrictSubsetOrdering
  <2>3. QED
    BY <1>2, <2>1, <2>2
<1>5. QED
  BY <1>4

Values == {Null, Value, Absent}
WriteSet == {w \in [docs : SUBSET Docs, to : Values, form : Forms \cup {"any", "all"}] :
               w.form # "any" => w.to = Absent}

(* Written and Settled, of any engine k, queue q and contents st.           *)
Applies(k, w, d, v) == d \in w.docs /\ (w.form \in {"any", "all"} \/ Reads(k, w.form, v))
After(k, w, st) == [d \in Docs |-> IF Applies(k, w, d, st[d]) THEN w.to ELSE st[d]]
Settling(g, k, q, st, n) == g = [i \in 0..n |-> IF i = 0 THEN st ELSE After(k, q[i], g[i - 1])]
Settle(k, q, st) ==
    LET g[i \in 0..Len(q)] == IF i = 0 THEN st ELSE After(k, q[i], g[i - 1]) IN g[Len(q)]

LEMMA WrittenIs == \A w, st : Written(w, st) = After(kind, w, st)
BY DEF Written, After, Applies

LEMMA SettledIs == Settled = Settle(kind, queue, stored)
BY DEF Settled, Settle, Written, After, Applies

LEMMA SettlingExists ==
    ASSUME NEW k, NEW q, NEW st, NEW n \in Nat
    PROVE  \E g : Settling(g, k, q, st, n)
<1> DEFINE bad == {m \in Nat : ~ \E g : Settling(g, k, q, st, m)}
<1> SUFFICES ASSUME bad # {} PROVE FALSE
  OBVIOUS
<1>1. PICK m \in bad : \A j \in bad : m <= j
  <2>1. bad \in SUBSET Nat
    OBVIOUS
  <2> HIDE DEF bad
  <2>2. QED
    BY <2>1, LeastNumber
<1>2. m # 0
  <2> DEFINE g == [i \in 0..0 |-> st]
  <2>1. Settling(g, k, q, st, 0)
    BY DEF Settling
  <2>2. QED
    BY <2>1
<1>3. PICK g : Settling(g, k, q, st, m - 1)
  <2>1. m - 1 \in Nat /\ ~ (m <= m - 1)
    BY <1>2
  <2>2. m - 1 \notin bad
    BY <1>1, <2>1
  <2>3. QED
    BY <2>1, <2>2
<1> DEFINE h == [i \in 0..m |-> IF i = m THEN After(k, q[m], g[m - 1]) ELSE g[i]]
<1>4. ASSUME NEW i \in 0..m PROVE h[i] = IF i = 0 THEN st ELSE After(k, q[i], h[i - 1])
  <2>1. CASE i = m
    BY <1>2, <2>1
  <2>2. CASE i # m
    BY <1>3, <2>2 DEF Settling
  <2>3. QED
    BY <2>1, <2>2
<1>5. Settling(h, k, q, st, m)
  BY <1>4 DEF Settling
<1>6. QED
  BY <1>5

LEMMA SettleSettles ==
    ASSUME NEW k, NEW q, NEW st, Len(q) \in Nat
    PROVE  \E g : Settling(g, k, q, st, Len(q)) /\ Settle(k, q, st) = g[Len(q)]
<1> DEFINE c == CHOOSE g : Settling(g, k, q, st, Len(q))
<1>1. Settling(c, k, q, st, Len(q))
  BY SettlingExists
<1>2. Settle(k, q, st) = c[Len(q)]
  BY DEF Settle, Settling
<1>3. QED
  BY <1>1, <1>2

(* A queue that continues another one settles from where that one is.       *)
Continues(r, m, tt, q, n, g, j) ==
    j + m <= n /\ tt = g[j] /\ \A i \in 1..m : r[i] = q[j + i]

LEMMA SettlingGoesOn ==
    ASSUME NEW k, NEW q, NEW r, NEW st, NEW tt, NEW n \in Nat, NEW m \in Nat, NEW j \in Nat,
           NEW g, NEW h, Settling(g, k, q, st, n), Settling(h, k, r, tt, m),
           Continues(r, m, tt, q, n, g, j)
    PROVE  \A i \in 0..m : h[i] = g[j + i]
<1> DEFINE bad == {i \in 0..m : h[i] # g[j + i]}
<1> SUFFICES ASSUME bad # {} PROVE FALSE
  OBVIOUS
<1>1. PICK i \in bad : \A l \in bad : i <= l
  <2>1. bad \in SUBSET Nat
    OBVIOUS
  <2> HIDE DEF bad
  <2>2. QED
    BY <2>1, LeastNumber
<1>2. i # 0
  BY DEF Settling, Continues
<1>3. i \in 1..m /\ i - 1 \in 0..m /\ ~ (i <= i - 1) /\ j + i \in 1..n /\ j + i # 0
      /\ (j + i) - 1 = j + (i - 1)
  BY <1>2 DEF Continues
<1>4. h[i - 1] = g[j + (i - 1)]
  <2>1. i - 1 \notin bad
    BY <1>1, <1>3
  <2>2. QED
    BY <1>3, <2>1
<1>5. h[i] = After(k, r[i], h[i - 1])
  BY <1>2, <1>3 DEF Settling
<1>6. g[j + i] = After(k, q[j + i], g[(j + i) - 1])
  BY <1>3 DEF Settling
<1>7. QED
  BY <1>1, <1>3, <1>4, <1>5, <1>6 DEF Continues

LEMMA SettleEmpty == ASSUME NEW k, NEW st PROVE Settle(k, <<>>, st) = st
<1>1. PICK g : Settling(g, k, <<>>, st, 0) /\ Settle(k, <<>>, st) = g[0]
  BY SettleSettles
<1>2. QED
  BY <1>1 DEF Settling

LEMMA SettleAppend ==
    ASSUME NEW k, NEW W, NEW q \in Seq(W), NEW w \in W, NEW st
    PROVE  Settle(k, Append(q, w), st) = After(k, w, Settle(k, q, st))
<1> DEFINE n == Len(q)
           r == Append(q, w)
<1>1. n \in Nat /\ Len(r) = n + 1 /\ r[n + 1] = w /\ \A i \in 1..n : r[i] = q[i]
  OBVIOUS
<1>2. PICK g : Settling(g, k, q, st, n) /\ Settle(k, q, st) = g[n]
  BY <1>1, SettleSettles
<1> HIDE DEF n, r
<1>3. PICK h : Settling(h, k, r, st, n + 1) /\ Settle(k, r, st) = h[n + 1]
  BY <1>1, SettleSettles
<1>4. st = h[0] /\ h[n + 1] = After(k, r[n + 1], h[n])
  BY <1>1, <1>3 DEF Settling
<1>5. \A i \in 0..n : g[i] = h[0 + i]
  <2>1. \A i \in 1..n : q[i] = r[0 + i]
    BY <1>1
  <2>2. 0 + n <= n + 1 /\ n + 1 \in Nat /\ 0 \in Nat
    BY <1>1
  <2>3. QED
    <3>1. PICK N \in Nat : N = n + 1
      BY <2>2
    <3>2. Settling(h, k, r, st, N)
      BY <1>3, <3>1
    <3>3. PICK j \in Nat : j = 0
      BY <2>2
    <3>4. Continues(q, n, st, r, N, h, j)
      BY <1>1, <1>4, <2>1, <2>2, <3>1, <3>3 DEF Continues
    <3>5. \A i \in 0..n : g[i] = h[j + i]
      BY <1>1, <1>2, <2>2, <3>2, <3>4, SettlingGoesOn
    <3>6. QED
      BY <3>3, <3>5
<1>6. g[n] = h[n]
  BY <1>1, <1>5
<1>7. QED
  BY <1>1, <1>2, <1>3, <1>4, <1>6 DEF r

LEMMA SettleTail ==
    ASSUME NEW k, NEW W, NEW q \in Seq(W), q # <<>>, NEW st
    PROVE  Settle(k, Tail(q), After(k, q[1], st)) = Settle(k, q, st)
<1> DEFINE n == Len(q)
           r == Tail(q)
           tt == After(k, q[1], st)
<1>1. n \in Nat /\ n > 0 /\ Len(r) = n - 1 /\ \A i \in 1..(n - 1) : r[i] = q[1 + i]
  BY HeadTailProperties
<1>2. PICK g : Settling(g, k, q, st, n) /\ Settle(k, q, st) = g[n]
  BY <1>1, SettleSettles
<1>3. g[1] = tt
  BY <1>1, <1>2 DEF Settling
<1> HIDE DEF n, r, tt
<1>4. PICK h : Settling(h, k, r, tt, n - 1) /\ Settle(k, r, tt) = h[n - 1]
  BY <1>1, SettleSettles
<1>5. \A i \in 0..(n - 1) : h[i] = g[1 + i]
  <2>1. 1 + (n - 1) <= n /\ n - 1 \in Nat /\ 1 \in Nat
    BY <1>1
  <2>2. QED
    <3>1. PICK N \in Nat : N = n - 1
      BY <2>1
    <3>2. Settling(h, k, r, tt, N)
      BY <1>4, <3>1
    <3>3. PICK j \in Nat : j = 1
      BY <2>1
    <3>4. Continues(r, N, tt, q, n, g, j)
      BY <1>1, <1>3, <2>1, <3>1, <3>3 DEF Continues
    <3>5. \A i \in 0..N : h[i] = g[j + i]
      BY <1>1, <1>2, <3>2, <3>4, SettlingGoesOn
    <3>6. QED
      BY <3>1, <3>3, <3>5
<1>6. h[n - 1] = g[n]
  <2>1. n - 1 \in 0..(n - 1) /\ 1 + (n - 1) = n
    BY <1>1
  <2>2. h[n - 1] = g[1 + (n - 1)]
    BY <1>5, <2>1
  <2>3. QED
    BY <2>1, <2>2
<1>7. QED
  BY <1>2, <1>4, <1>6 DEF r, tt

(* What every write of a queue leaves alone stays.                         *)
Spares(k, w, d, v) == Applies(k, w, d, v) => w.to = v

(* A document that is stored as v, and that no write waiting changes.       *)
Quiet(k, st, q, d, v) == st[d] = v /\ \A i \in 1..Len(q) : Spares(k, q[i], d, v)

LEMMA SettleSpares ==
    ASSUME NEW k, NEW W, NEW q \in Seq(W), NEW st, NEW d \in Docs, NEW v,
           Quiet(k, st, q, d, v)
    PROVE  Settle(k, q, st)[d] = v
<1> USE DEF Quiet
<1> DEFINE n == Len(q)
<1>1. n \in Nat
  OBVIOUS
<1>2. PICK g : Settling(g, k, q, st, n) /\ Settle(k, q, st) = g[n]
  BY <1>1, SettleSettles
<1> DEFINE bad == {i \in 0..n : g[i][d] # v}
<1>3. ASSUME bad # {} PROVE FALSE
  <2>1. PICK i \in bad : \A l \in bad : i <= l
    <3>1. bad \in SUBSET Nat
      OBVIOUS
    <3> HIDE DEF bad
    <3>2. QED
      BY <1>3, <3>1, LeastNumber
  <2>2. i # 0
    BY <1>2 DEF Settling
  <2>3. i \in 1..n /\ i - 1 \in 0..n /\ ~ (i <= i - 1)
    BY <1>1, <2>2
  <2>4. g[i - 1][d] = v
    <3>1. i - 1 \notin bad
      BY <2>1, <2>3
    <3>2. QED
      BY <2>3, <3>1
  <2>5. g[i] = After(k, q[i], g[i - 1])
    BY <1>2, <2>2, <2>3 DEF Settling
  <2>6. g[i][d] = IF Applies(k, q[i], d, v) THEN q[i].to ELSE v
    BY <2>4, <2>5 DEF After
  <2>7. Spares(k, q[i], d, v)
    BY <2>3
  <2>8. QED
    BY <2>1, <2>6, <2>7 DEF Spares
<1>4. QED
  BY <1>1, <1>2, <1>3

(* A write to an engine of type k: what it will have stored changes so.     *)
LEMMA AfterType ==
    ASSUME NEW k, NEW w \in WriteSet, NEW st \in [Docs -> Values]
    PROVE  After(k, w, st) \in [Docs -> Values]
BY DEF After, WriteSet

LEMMA SettleType ==
    ASSUME NEW k, NEW q \in Seq(WriteSet), NEW st \in [Docs -> Values]
    PROVE  Settle(k, q, st) \in [Docs -> Values]
<1> DEFINE n == Len(q)
<1>1. n \in Nat /\ \A i \in 1..n : q[i] \in WriteSet
  OBVIOUS
<1>2. PICK g : Settling(g, k, q, st, n) /\ Settle(k, q, st) = g[n]
  BY <1>1, SettleSettles
<1> DEFINE bad == {i \in 0..n : g[i] \notin [Docs -> Values]}
<1>3. ASSUME bad # {} PROVE FALSE
  <2>1. PICK i \in bad : \A l \in bad : i <= l
    <3>1. bad \in SUBSET Nat
      OBVIOUS
    <3> HIDE DEF bad
    <3>2. QED
      BY <1>3, <3>1, LeastNumber
  <2>2. i # 0
    BY <1>2 DEF Settling
  <2>3. i \in 1..n /\ i - 1 \in 0..n /\ ~ (i <= i - 1)
    BY <1>1, <2>2
  <2>4. g[i - 1] \in [Docs -> Values]
    <3>1. i - 1 \notin bad
      BY <2>1, <2>3
    <3>2. QED
      BY <2>3, <3>1
  <2>5. g[i] = After(k, q[i], g[i - 1])
    BY <1>2, <2>2, <2>3 DEF Settling
  <2>6. q[i] \in WriteSet
    BY <1>1, <2>3
  <2>7. After(k, q[i], g[i - 1]) \in [Docs -> Values]
    BY <2>4, <2>6, AfterType
  <2>8. QED
    BY <2>1, <2>5, <2>7
<1>4. QED
  BY <1>1, <1>2, <1>3

-----------------------------------------------------------------------------
(* The writes of the engine.                                               *)

StoreType ==
    /\ kind \in Kinds /\ keyed \in BOOLEAN /\ stored \in [Docs -> Values]
    /\ queue \in Seq(WriteSet) /\ (~Queues(kind) => queue = <<>>)

LEMMA SettledType == ASSUME StoreType PROVE Settled \in [Docs -> Values]
BY SettledIs, SettleType DEF StoreType

(* A write that is taken is settled last.                                  *)
LEMMA EffectSettles ==
    ASSUME StoreType, NEW w \in WriteSet, Effect(w), UNCHANGED setting
    PROVE  StoreType' /\ Settled' = After(kind, w, Settled)
<1>1. /\ kind' = kind /\ keyed' = keyed /\ stored \in [Docs -> Values]
      /\ queue \in Seq(WriteSet) /\ kind \in Kinds /\ keyed \in BOOLEAN
      /\ Settled \in [Docs -> Values] /\ Settled = Settle(kind, queue, stored)
  BY SettledType, SettledIs DEF StoreType, setting
<1>2. Settled' = Settle(kind, queue', stored')
  BY <1>1 DEF Settled, Settle, Written, After, Applies
<1>3. CASE w.docs = {}
  <2>1. UNCHANGED <<stored, queue>>
    BY <1>3 DEF Effect
  <2>2. After(kind, w, Settled) = Settled
    BY <1>1, <1>3 DEF After, Applies
  <2>3. QED
    BY <1>1, <1>2, <2>1, <2>2 DEF StoreType
<1>4. CASE w.docs # {} /\ kind = "solr" /\ w.form = "all"
  <2>1. stored' = After(kind, w, Settled) /\ queue' = <<>>
    BY <1>4, WrittenIs DEF Effect, Queues
  <2>2. stored' \in [Docs -> Values]
    BY <1>1, <2>1, AfterType
  <2>3. QED
    BY <1>1, <1>2, <2>1, <2>2, SettleEmpty DEF StoreType
<1>5. CASE w.docs # {} /\ Queues(kind) /\ ~(kind = "solr" /\ w.form = "all")
  <2>1. queue' = Append(queue, w) /\ stored' = stored
    BY <1>5 DEF Effect
  <2>2. queue' \in Seq(WriteSet)
    BY <1>1, <2>1
  <2>3. Settle(kind, Append(queue, w), stored) = After(kind, w, Settle(kind, queue, stored))
    BY <1>1, SettleAppend
  <2>4. QED
    BY <1>1, <1>2, <1>5, <2>1, <2>2, <2>3 DEF StoreType
<1>6. CASE w.docs # {} /\ ~Queues(kind)
  <2>1. stored' = After(kind, w, stored) /\ queue' = queue
    BY <1>6, WrittenIs DEF Effect, Queues
  <2>2. queue = <<>>
    BY <1>6 DEF StoreType
  <2>3. stored' \in [Docs -> Values]
    BY <1>1, <2>1, AfterType
  <2>4. Settled = stored /\ Settled' = stored'
    BY <1>1, <1>2, <2>1, <2>2, SettleEmpty
  <2>5. QED
    BY <1>1, <2>1, <2>2, <2>3, <2>4 DEF StoreType
<1>7. QED
  BY <1>3, <1>4, <1>5, <1>6

(* What a write leaves of each document.                                   *)
LEMMA AfterDoc ==
    ASSUME NEW k, NEW w, NEW st, NEW d \in Docs
    PROVE  /\ d \notin w.docs => After(k, w, st)[d] = st[d]
           /\ d \in w.docs /\ w.form \in {"any", "all"} => After(k, w, st)[d] = w.to
BY DEF After, Applies

LEMMA QuietSettled ==
    ASSUME StoreType, NEW d \in Docs, NEW v, Quiet(kind, stored, queue, d, v) PROVE Settled[d] = v
<1>1. PICK k, q, st : k = kind /\ q = queue /\ st = stored
  OBVIOUS
<1>2. q \in Seq(WriteSet) /\ Quiet(k, st, q, d, v)
  BY <1>1 DEF StoreType
<1>3. Settle(k, q, st)[d] = v
  BY <1>2, SettleSpares
<1>4. QED
  BY <1>1, <1>3, SettledIs

LEMMA EffectQuiet ==
    ASSUME StoreType, NEW w \in WriteSet, Effect(w), UNCHANGED setting,
           NEW d \in Docs, NEW v, Quiet(kind, stored, queue, d, v), Spares(kind, w, d, v)
    PROVE  Quiet(kind', stored', queue', d, v)
<1>1. kind' = kind /\ queue \in Seq(WriteSet)
  BY DEF StoreType, setting
<1>2. CASE w.docs = {}
  BY <1>1, <1>2 DEF Effect, Quiet
<1>3. CASE w.docs # {} /\ kind = "solr" /\ w.form = "all"
  <2>1. stored' = After(kind, w, Settled) /\ queue' = <<>>
    BY <1>3, WrittenIs DEF Effect, Queues
  <2>2. Settled[d] = v
    BY QuietSettled
  <2>3. stored'[d] = v
    BY <2>1, <2>2 DEF After, Spares
  <2>4. QED
    BY <2>1, <2>3 DEF Quiet
<1>4. CASE w.docs # {} /\ Queues(kind) /\ ~(kind = "solr" /\ w.form = "all")
  <2>1. queue' = Append(queue, w) /\ stored' = stored
    BY <1>4 DEF Effect
  <2>2. ASSUME NEW i \in 1..Len(queue') PROVE queue'[i] = w \/ (i \in 1..Len(queue) /\ queue'[i] = queue[i])
    BY <1>1, <2>1
  <2>3. QED
    BY <1>1, <2>1, <2>2 DEF Quiet
<1>5. CASE w.docs # {} /\ ~Queues(kind)
  <2>1. stored' = After(kind, w, stored) /\ queue' = queue
    BY <1>5, WrittenIs DEF Effect, Queues
  <2>2. stored'[d] = v
    BY <2>1 DEF After, Spares, Quiet
  <2>3. QED
    BY <1>1, <2>1, <2>2 DEF Quiet
<1>6. QED
  BY <1>2, <1>3, <1>4, <1>5

(* The engine applies a write it took.                                     *)
LEMMA RemovedAt ==
    ASSUME NEW W, NEW q \in Seq(W), NEW i \in 1..Len(q)
    PROVE  /\ RemoveAt(q, i) \in Seq(W)
           /\ i = 1 => RemoveAt(q, i) = Tail(q)
           /\ Len(RemoveAt(q, i)) = Len(q) - 1
           /\ \A j \in 1..(Len(q) - 1) : RemoveAt(q, i)[j] = IF j < i THEN q[j] ELSE q[j + 1]
           /\ \A j \in 1..Len(RemoveAt(q, i)) : \E l \in 1..Len(q) : RemoveAt(q, i)[j] = q[l]
<1> DEFINE n == Len(q)
           a == SubSeq(q, 1, i - 1)
           b == SubSeq(q, i + 1, n)
<1>1. n \in Nat /\ i \in 1..n /\ i - 1 \in 0..n
  OBVIOUS
<1>2. /\ a \in Seq(W) /\ Len(a) = i - 1 /\ \A j \in 1..(i - 1) : a[j] = q[j]
      /\ b \in Seq(W) /\ Len(b) = n - i /\ \A j \in 1..(n - i) : b[j] = q[i + j]
  <2>1. /\ Len(a) = (IF 1 <= i - 1 THEN (i - 1) - 1 + 1 ELSE 0)
        /\ \A j \in 1..((i - 1) - 1 + 1) : a[j] = q[1 + j - 1]
        /\ a \in Seq(W)
    <3>1. \A j \in 1..(i - 1) : q[j] \in W
      BY <1>1
    <3>2. QED
      BY <1>1, <3>1, SubSeqProperties
  <2>2. /\ Len(b) = (IF i + 1 <= n THEN n - (i + 1) + 1 ELSE 0)
        /\ \A j \in 1..(n - (i + 1) + 1) : b[j] = q[(i + 1) + j - 1]
        /\ b \in Seq(W)
    <3>1. \A j \in (i + 1)..n : q[j] \in W
      BY <1>1
    <3>2. QED
      BY <1>1, <3>1, SubSeqProperties
  <2> HIDE DEF a, b, n
  <2>3. Len(a) = i - 1 /\ \A j \in 1..(i - 1) : a[j] = q[j]
    <3>1. (i - 1) - 1 + 1 = i - 1 /\ \A j \in 1..(i - 1) : 1 + j - 1 = j
      BY <1>1
    <3>2. \A j \in 1..(i - 1) : a[j] = q[j]
      BY <2>1, <3>1
    <3>3. QED
      BY <1>1, <2>1, <3>2
  <2>4. Len(b) = n - i /\ \A j \in 1..(n - i) : b[j] = q[i + j]
    <3>1. n - (i + 1) + 1 = n - i /\ \A j \in 1..(n - i) : (i + 1) + j - 1 = i + j
      BY <1>1
    <3>2. \A j \in 1..(n - i) : b[j] = q[i + j]
      BY <2>2, <3>1
    <3>3. QED
      BY <1>1, <2>2, <3>2
  <2>5. QED
    BY <2>1, <2>2, <2>3, <2>4
<1>3. RemoveAt(q, i) = a \o b
  BY DEF RemoveAt
<1> HIDE DEF a, b, n
<1>4. /\ a \o b \in Seq(W) /\ Len(a \o b) = (i - 1) + (n - i)
      /\ \A j \in 1..Len(a \o b) : (a \o b)[j] = IF j <= i - 1 THEN a[j] ELSE b[j - (i - 1)]
  <2>1. /\ a \o b \in Seq(W) /\ Len(a \o b) = Len(a) + Len(b)
        /\ \A j \in 1..(Len(a) + Len(b)) : (a \o b)[j] = IF j <= Len(a) THEN a[j] ELSE b[j - Len(a)]
    BY <1>2, ConcatProperties
  <2>2. QED
    BY <1>2, <2>1
<1>5. ASSUME NEW j \in 1..Len(a \o b) PROVE \E l \in 1..n : (a \o b)[j] = q[l]
  <2>1. CASE j <= i - 1
    <3>1. j \in 1..(i - 1) /\ j \in 1..n
      BY <1>1, <1>4, <2>1
    <3>2. QED
      BY <1>2, <1>4, <2>1, <3>1
  <2>2. CASE ~ (j <= i - 1)
    <3>1. j - (i - 1) \in 1..(n - i) /\ i + (j - (i - 1)) \in 1..n
      BY <1>1, <1>4, <2>2
    <3>2. QED
      BY <1>2, <1>4, <2>2, <3>1
  <2>3. QED
    BY <2>1, <2>2
<1>6. ASSUME i = 1 PROVE a \o b = Tail(q)
  <2>1. Tail(q) \in Seq(W) /\ Len(Tail(q)) = n - 1 /\ \A j \in 1..(n - 1) : Tail(q)[j] = q[j + 1]
    BY <1>1, HeadTailProperties DEF n
  <2>2. Len(a \o b) = n - 1 /\ \A j \in 1..(n - 1) : (a \o b)[j] = q[1 + j]
    BY <1>1, <1>2, <1>4, <1>6
  <2>3. \A j \in 1..(n - 1) : (a \o b)[j] = Tail(q)[j]
    BY <1>1, <2>1, <2>2
  <2>4. QED
    BY <1>4, <2>1, <2>2, <2>3, SeqEqual
<1>7. Len(a \o b) = n - 1
  BY <1>1, <1>4
<1>8. ASSUME NEW j \in 1..(n - 1) PROVE (a \o b)[j] = IF j < i THEN q[j] ELSE q[j + 1]
  <2>1. CASE j < i
    <3>1. j \in 1..(i - 1) /\ j <= i - 1 /\ j \in 1..Len(a \o b)
      BY <1>1, <1>7, <2>1
    <3>2. QED
      BY <1>2, <1>4, <2>1, <3>1
  <2>2. CASE ~ (j < i)
    <3>1. /\ j - (i - 1) \in 1..(n - i) /\ ~ (j <= i - 1) /\ j \in 1..Len(a \o b)
          /\ i + (j - (i - 1)) = j + 1
      BY <1>1, <1>7, <2>2
    <3>2. QED
      BY <1>2, <1>4, <2>2, <3>1
  <2>3. QED
    BY <2>1, <2>2
<1>9. QED
  BY <1>3, <1>4, <1>5, <1>6, <1>7, <1>8 DEF n

LEMMA ApplySettles ==
    ASSUME StoreType, Apply
    PROVE  /\ StoreType'
           /\ kind \notin {"meilisearch", "opensearch"} => Settled' = Settled
           /\ \A d \in Docs : \A v : Quiet(kind, stored, queue, d, v) => Quiet(kind', stored', queue', d, v)
<1>1. PICK i \in 1..Len(queue) :
        /\ \A j \in 1..(i - 1) : kind = "opensearch" /\ queue[j].form = "all"
        /\ queue' = RemoveAt(queue, i)
        /\ \/ stored' = Written(queue[i], stored)
           \/ kind = "meilisearch" /\ UNCHANGED stored
  BY DEF Apply
<1>2. /\ kind' = kind /\ keyed' = keyed /\ stored \in [Docs -> Values]
      /\ queue \in Seq(WriteSet) /\ kind \in Kinds /\ keyed \in BOOLEAN
      /\ queue[i] \in WriteSet /\ queue # <<>> /\ Queues(kind)
  BY <1>1 DEF Apply, StoreType, setting
<1>3. /\ queue' \in Seq(WriteSet) /\ (i = 1 => queue' = Tail(queue))
      /\ \A j \in 1..Len(queue') : \E l \in 1..Len(queue) : queue'[j] = queue[l]
  <2>1. PICK q, r : q = queue /\ r = RemoveAt(queue, i)
    OBVIOUS
  <2>2. /\ r \in Seq(WriteSet) /\ (i = 1 => r = Tail(q))
        /\ \A j \in 1..Len(r) : \E l \in 1..Len(q) : r[j] = q[l]
    BY <1>2, <2>1, RemovedAt
  <2>3. QED
    BY <1>1, <2>1, <2>2
<1>4. stored' = After(kind, queue[i], stored) \/ (kind = "meilisearch" /\ stored' = stored)
  BY <1>1, WrittenIs
<1>5. StoreType'
  <2>1. stored' \in [Docs -> Values]
    BY <1>2, <1>4, AfterType
  <2>2. QED
    BY <1>2, <1>3, <2>1 DEF StoreType
<1>6. ASSUME kind \notin {"meilisearch", "opensearch"} PROVE Settled' = Settled
  <2>1. i = 1
    <3>1. CASE i # 1
      <4>1. 1 \in 1..(i - 1)
        BY <1>1, <3>1
      <4>2. QED
        BY <1>1, <1>6, <4>1
    <3>2. QED
      BY <3>1
  <2>2. Settle(kind, Tail(queue), After(kind, queue[1], stored)) = Settle(kind, queue, stored)
    BY <1>2, SettleTail
  <2>3. Settled' = Settle(kind, queue', stored')
    BY <1>2 DEF Settled, Settle, Written, After, Applies
  <2>4. QED
    BY <1>3, <1>4, <1>6, <2>1, <2>2, <2>3, SettledIs
<1>7. ASSUME NEW d \in Docs, NEW v, Quiet(kind, stored, queue, d, v) PROVE Quiet(kind', stored', queue', d, v)
  <2>1. stored'[d] = v
    <3>1. Spares(kind, queue[i], d, v) /\ stored[d] = v
      BY <1>7 DEF Quiet
    <3>2. QED
      BY <1>4, <3>1 DEF After, Spares
  <2>2. QED
    BY <1>2, <1>3, <1>7, <2>1 DEF Quiet
<1>8. QED
  BY <1>5, <1>6, <1>7

-----------------------------------------------------------------------------
(* What a backend takes of a request.                                      *)

Sure == {"dummy", "postgres", "solr"}
Raised == {"no", "backend", "missing", "other"}

LEMMA AnswerTaken ==
    ASSUME NEW k \in Kinds, NEW op \in {"add", "remove", "update", "clear"},
           NEW docs, NEW there, NEW present,
           NEW answer \in Answers(k, op, docs, there, present)
    PROVE  /\ answer.done \subseteq docs /\ answer.raised \in Raised
           /\ answer.raised = "no" /\ (k \in Sure \/ (op = "remove" /\ k = "vespa"))
              => answer.done = docs
<1> USE DEF Whole, Failing, Missing, Broken, Silent, Single, Torn, Unsent, Answer, Sure, Raised
<1>1. CASE k = "dummy"
  BY <1>1 DEF Answers, DummyAdd, DummyDelete, DummyClear, DummyUpdate
<1>2. CASE k = "meilisearch"
  BY <1>2 DEF Answers, MeilisearchRequest
<1>3. CASE k = "opensearch"
  BY <1>3 DEF Answers, OpenSearchBulk, OpenSearchClear, OpenSearchUpdate
<1>4. CASE k = "postgres"
  BY <1>4 DEF Answers, PostgresAdd, PostgresDelete, PostgresClear, PostgresUpdate
<1>5. CASE k = "solr"
  BY <1>5 DEF Answers, SolrUpdate
<1>6. CASE k = "typesense"
  BY <1>6 DEF Answers, TypesenseImport, TypesenseDelete, TypesenseClear
<1>7. CASE k = "vespa"
  BY <1>7 DEF Answers, VespaFeed, VespaDelete, VespaClear, VespaUpdate
<1>8. QED
  BY <1>1, <1>2, <1>3, <1>4, <1>5, <1>6, <1>7 DEF Kinds

-----------------------------------------------------------------------------
(* The pages of a scan.                                                    *)

(* A document's place among the members of M in a ranking.                 *)
Rank(M, order, d) == Cardinality({e \in M : order[e] < order[d]})

(* The places are 0, 1, 2, ..., without gaps, each of one document.         *)
LEMMA PlacesFill ==
    ASSUME NEW M \in SUBSET Docs, NEW order \in Rankings
    PROVE  /\ Cardinality(M) \in Nat
           /\ \A d \in M : Rank(M, order, d) \in 0..(Cardinality(M) - 1)
           /\ \A d, e \in M : Rank(M, order, d) = Rank(M, order, e) => d = e
           /\ \A i \in 0..(Cardinality(M) - 1) : \E d \in M : Rank(M, order, d) = i
<1> DEFINE below(d) == {e \in M : order[e] < order[d]}
           n == Cardinality(M)
<1>1. IsFiniteSet(M) /\ n \in Nat
  BY FS_Subset, FS_CardinalityType, EnginesAssumption
<1>2. /\ \A d \in M : order[d] \in Nat
      /\ \A d, e \in M : order[d] = order[e] => d = e
  <2>1. Cardinality(Docs) \in Nat
    BY FS_CardinalityType, EnginesAssumption
  <2>2. /\ order \in [Docs -> 1..Cardinality(Docs)]
        /\ \A d, e \in Docs : order[d] = order[e] => d = e
    BY DEF Rankings, Bijection, Injection, IsInjective
  <2>3. QED
    BY <2>1, <2>2
<1>3. ASSUME NEW d \in M
      PROVE  /\ IsFiniteSet(below(d)) /\ Rank(M, order, d) = Cardinality(below(d))
             /\ Rank(M, order, d) \in 0..(n - 1) /\ Rank(M, order, d) \in Nat
  <2>1. below(d) \in SUBSET M /\ below(d) # M
    BY <1>2
  <2>2. IsFiniteSet(below(d)) /\ Cardinality(below(d)) \in Nat
        /\ Cardinality(below(d)) <= n /\ Cardinality(below(d)) # n
    <3> HIDE DEF below
    <3>1. QED
      BY <1>1, <2>1, FS_Subset, FS_CardinalityType
  <2>3. QED
    BY <1>1, <2>2 DEF Rank
<1>4. ASSUME NEW d \in M, NEW e \in M, order[d] < order[e]
      PROVE  Rank(M, order, d) < Rank(M, order, e)
  <2>1. below(d) \in SUBSET below(e) /\ d \in below(e) /\ d \notin below(d)
    BY <1>2, <1>4
  <2>2. /\ Cardinality(below(d)) <= Cardinality(below(e))
        /\ Cardinality(below(d)) # Cardinality(below(e))
    <3>1. IsFiniteSet(below(e))
      BY <1>3
    <3> HIDE DEF below
    <3>2. QED
      BY <2>1, <3>1, FS_Subset
  <2>3. Rank(M, order, d) \in Nat /\ Rank(M, order, e) \in Nat
    BY <1>3
  <2> HIDE DEF below
  <2>4. QED
    BY <1>3, <2>2, <2>3
<1>5. ASSUME NEW d \in M, NEW e \in M, Rank(M, order, d) = Rank(M, order, e) PROVE d = e
  <2>1. Rank(M, order, d) \in Nat /\ Rank(M, order, e) \in Nat
    BY <1>3
  <2>2. ~ (order[d] < order[e]) /\ ~ (order[e] < order[d])
    BY <1>4, <1>5, <2>1
  <2>3. QED
    BY <1>2, <2>2
<1>6. \A i \in 0..(n - 1) : \E d \in M : Rank(M, order, d) = i
  <2> DEFINE T == 0..(n - 1)
             p == [d \in M |-> Rank(M, order, d)]
  <2>1. p \in Injection(M, T)
    BY <1>3, <1>5 DEF Injection, IsInjective
  <2>2. IsFiniteSet(T) /\ Cardinality(T) = n
    BY <1>1, FS_Interval
  <2>3. p \in Surjection(M, T)
    <3> HIDE DEF p, T
    <3>1. QED
      BY <2>1, <2>2, FS_Injection
  <2>4. QED
    BY <2>3 DEF Surjection
<1>7. QED
  BY <1>1, <1>3, <1>5, <1>6

(* The hits of a page of M; less than a page is the last one.               *)
PageOf(M, order, offset) ==
    {d \in M : Rank(M, order, d) \in offset .. (offset + Page - 1)}

LEMMA LastPage ==
    ASSUME NEW M \in SUBSET Docs, NEW order \in Rankings, NEW offset \in Nat,
           Cardinality(PageOf(M, order, offset)) < Page
    PROVE  \A d \in M : Rank(M, order, d) < offset + Page
<1> DEFINE T == offset .. (offset + Page - 1)
           hits == PageOf(M, order, offset)
           f == [d \in hits |-> Rank(M, order, d)]
<1> SUFFICES ASSUME NEW d \in M, ~ (Rank(M, order, d) < offset + Page) PROVE FALSE
  OBVIOUS
<1>1. /\ Page \in Nat \ {0}
      /\ Cardinality(M) \in Nat /\ \A e \in M : Rank(M, order, e) \in 0..(Cardinality(M) - 1)
      /\ \A x, y \in M : Rank(M, order, x) = Rank(M, order, y) => x = y
      /\ \A i \in 0..(Cardinality(M) - 1) : \E e \in M : Rank(M, order, e) = i
  BY PlacesFill, EnginesAssumption
<1>2. f \in Injection(hits, T)
  <2>1. f \in [hits -> T]
    BY DEF PageOf
  <2>2. \A x, y \in hits : f[x] = f[y] => x = y
    BY <1>1 DEF PageOf
  <2>3. QED
    BY <2>1, <2>2 DEF Injection, IsInjective
<1>3. f \in Surjection(hits, T)
  <2>1. ASSUME NEW i \in T PROVE \E x \in hits : f[x] = i
    <3>1. i \in 0..(Cardinality(M) - 1)
      BY <1>1
    <3>2. PICK x \in M : Rank(M, order, x) = i
      BY <1>1, <3>1
    <3>3. x \in hits
      BY <3>2 DEF PageOf
    <3>4. QED
      BY <3>2, <3>3
  <2>2. f \in [hits -> T]
    BY <1>2 DEF Injection
  <2>3. QED
    BY <2>1, <2>2 DEF Surjection
<1>4. IsFiniteSet(T) /\ Cardinality(T) = Page
  <2>1. PICK last \in Int : last = offset + Page - 1
    BY <1>1
  <2>2. /\ IsFiniteSet(offset..last)
        /\ Cardinality(offset..last) = IF offset > last THEN 0 ELSE last - offset + 1
    BY FS_Interval
  <2>3. QED
    BY <1>1, <2>1, <2>2
<1>5. Cardinality(hits) = Cardinality(T)
  <2> HIDE DEF f, hits, T
  <2>1. QED
    BY <1>2, <1>3, <1>4, FS_Injection
<1>6. QED
  BY <1>1, <1>4, <1>5

LEMMA OnlyPage ==
    ASSUME NEW M \in SUBSET Docs, NEW order \in Rankings, NEW offset \in Nat, offset = 0,
           Cardinality(M) <= Page
    PROVE  PageOf(M, order, offset) = M
<1>1. /\ Page \in Nat \ {0}
      /\ Cardinality(M) \in Nat /\ \A e \in M : Rank(M, order, e) \in 0..(Cardinality(M) - 1)
  BY PlacesFill, EnginesAssumption
<1>2. \A e \in M : Rank(M, order, e) \in offset .. (offset + Page - 1)
  BY <1>1
<1>3. QED
  BY <1>2 DEF PageOf

-----------------------------------------------------------------------------
(* What holds of a call under way.                                         *)

FilterType(call) ==
    /\ {"form", "order", "offset", "before"} \subseteq DOMAIN call
    /\ call.docs = Docs /\ call.to = Absent /\ call.form \in Forms
    /\ call.order \in Rankings \cup {NoOrder} /\ call.offset \in Nat /\ call.before \in [Docs -> Values]
CallType(call) ==
    /\ {"at", "op", "docs", "left", "to", "failed", "raised", "sole"} \subseteq DOMAIN call
    /\ call.op \in Operation /\ call.at \in {"scan", "send", "close"}
    /\ call.docs \subseteq Docs /\ call.left \subseteq call.docs /\ call.sole \subseteq call.docs
    /\ call.to \in Values /\ call.failed \in BOOLEAN /\ call.raised \in Raised
    /\ call.op = "filter" => FilterType(call)
    /\ call.op = "clear" => call.to = Absent
    /\ call.at = "scan" => call.op = "filter"

(* A write that has not failed: what it sent will be stored, where no other *)
(* call meddles.  Here and below s is what will be stored.                  *)
Puts(call, s) ==
    call.op # "filter" =>
        /\ call.at = "send" /\ ~call.failed => \A d \in call.sole \ call.left : s[d] = call.to
        /\ call.at = "close" /\ call.raised = "no" => \A d \in call.sole : s[d] = call.to

(* A deletion by filter keeps what it does not ask for.                     *)
Keeps(call, k, st, q) ==
    call.op = "filter" /\ <<k, call.form>> \notin Misread =>
        \A d \in call.sole : ~Asked(call, d) =>
            Quiet(k, st, q, d, call.before[d]) /\ d \notin call.left

(* A deletion by filter that nothing disturbs has seen every document it    *)
(* asks for on the pages it scanned, and deletes them all.                  *)
Sought(call) == {d \in Docs : Asked(call, d)}
Strict(call, k, ky) ==
    /\ call.op = "filter" /\ <<k, call.form>> \notin Misread
    /\ call.sole = Docs /\ Docs # {}
    /\ HitsHaveId(k, ky) /\ k \in Sure \cup {"vespa"}
    /\ k = "postgres" => Cardinality(Sought(call)) <= Page
Scanned(call, k) ==
    IF k = "postgres" THEN call.offset # 0 => Sought(call) \subseteq call.left
    ELSE /\ call.order \in Rankings
         /\ \A d \in Sought(call) : Rank(Sought(call), call.order, d) < call.offset => d \in call.left
Deletes(call, k, ky, st, q, s) ==
    Strict(call, k, ky) =>
        /\ call.at = "scan" =>
             st = call.before /\ q = <<>> /\ ~call.failed /\ Scanned(call, k)
        /\ call.at = "send" /\ ~call.failed => \A d \in Sought(call) \ call.left : s[d] = Absent
        /\ call.at = "close" /\ call.raised = "no" => \A d \in Sought(call) : s[d] = Absent

Holds(call, k, ky, st, q, s) ==
    Keeps(call, k, st, q) /\ Deletes(call, k, ky, st, q, s) /\ (k \in Sure => Puts(call, s))

(* No call under way touches what another has for its own.                  *)
Apart(cs) ==
    \A c, e \in Callers : c # e /\ cs[c] # NoCall /\ cs[e] # NoCall =>
        cs[c].sole \cap cs[e].docs = {}
Calls(cs, k, ky, st, q, s) ==
    /\ cs = [c \in Callers |-> cs[c]]
    /\ \A c \in Callers : cs[c] # NoCall => CallType(cs[c]) /\ Holds(cs[c], k, ky, st, q, s)
    /\ Apart(cs)

(* What was added successfully is there, and no call under way touches it.  *)
Kept(cs, a, s) ==
    \A d \in Docs : a[d] # Absent =>
        s[d] = a[d] /\ \A c \in Callers : cs[c] # NoCall => d \notin cs[c].docs

EngineInv ==
    /\ StoreType /\ acked \in [Docs -> Values]
    /\ Calls(calls, kind, keyed, stored, queue, Settled)
    /\ kind \in Sure => Kept(calls, acked, Settled)

LEMMA TypedIsCall == \A call : CallType(call) => call # NoCall
BY DEF CallType, NoCall

(* A deletion that cannot leave anything is a strict one.                   *)
LEMMA StrictIs ==
    ASSUME NEW call, CallType(call), call.op = "filter", kind \in Kinds,
           <<kind, call.form>> \notin Misread, call.sole = Docs, Docs # {}, ~MayLeave(call)
    PROVE  Strict(call, kind, keyed)
<1>1. Cardinality(Sought(call)) \in Nat /\ Page \in Nat
  <2>1. Sought(call) \in SUBSET Docs
    BY DEF Sought
  <2>2. QED
    BY <2>1, FS_Subset, FS_CardinalityType, EnginesAssumption
<1>2. kind \in Sure \cup {"vespa"}
  BY DEF MayLeave, Kinds, Sure
<1>3. QED
  BY <1>1, <1>2 DEF Strict, MayLeave, Sought

(* A filter that is not misread finds what it asks for.                     *)
LEMMA ReadsAsked ==
    ASSUME NEW k \in Kinds, NEW form \in Forms, <<k, form>> \notin Misread, NEW v
    PROVE  Reads(k, form, v) <=> v # Absent /\ Means(form, v)
<1>1. CASE k = "dummy"
  BY <1>1 DEF Reads, DummyReads, Misread, Forms, Means
<1>2. CASE k = "meilisearch"
  BY <1>2 DEF Reads, MeilisearchReads, Misread, Forms, Means
<1>3. CASE k = "opensearch"
  BY <1>3 DEF Reads, OpenSearchReads, Misread, Forms, Means
<1>4. CASE k = "postgres"
  BY <1>4 DEF Reads, PostgresReads, Misread, Forms, Means
<1>5. CASE k = "solr"
  BY <1>5 DEF Reads, SolrReads, Misread, Forms, Means
<1>6. CASE k = "typesense"
  BY <1>6 DEF Reads, TypesenseReads, Misread, Forms, Means
<1>7. CASE k = "vespa"
  BY <1>7 DEF Reads, VespaReads, Misread, Forms, Means
<1>8. QED
  BY <1>1, <1>2, <1>3, <1>4, <1>5, <1>6, <1>7 DEF Kinds

(* A call from which another takes documents claims less.                   *)
Yields(call, docs) == [call EXCEPT !.sole = @ \ docs]

LEMMA YieldHolds ==
    ASSUME NEW call, CallType(call), NEW docs, NEW k, NEW ky, NEW st, NEW q, NEW s,
           Holds(call, k, ky, st, q, s)
    PROVE  /\ CallType(Yields(call, docs)) /\ Holds(Yields(call, docs), k, ky, st, q, s)
           /\ Yields(call, docs).docs = call.docs
           /\ Yields(call, docs).sole = call.sole \ docs
<1> DEFINE new == Yields(call, docs)
<1>1. /\ DOMAIN new = DOMAIN call /\ new.sole = call.sole \ docs /\ new.op = call.op
      /\ new.at = call.at /\ new.docs = call.docs /\ new.left = call.left
      /\ new.to = call.to /\ new.failed = call.failed /\ new.raised = call.raised
  BY DEF CallType, Yields
<1>2. call.op = "filter" => /\ new.form = call.form /\ new.order = call.order
                            /\ new.offset = call.offset /\ new.before = call.before
  BY DEF CallType, FilterType, Yields
<1> HIDE DEF new
<1>3. CallType(new)
  BY <1>1, <1>2 DEF CallType, FilterType
<1>4. Keeps(new, k, st, q)
  BY <1>1, <1>2 DEF Holds, Keeps, Asked
<1>5. Deletes(new, k, ky, st, q, s)
  <2> SUFFICES ASSUME Strict(new, k, ky) PROVE Deletes(new, k, ky, st, q, s)
    BY DEF Deletes
  <2>1. new.op = "filter" /\ call.op = "filter" /\ new.sole = Docs
    BY <1>1 DEF Strict
  <2>2. Sought(new) = Sought(call)
    BY <1>2, <2>1 DEF Sought, Asked
  <2>3. call.sole = Docs
    BY <1>1, <2>1 DEF CallType
  <2>4. Strict(call, k, ky)
    BY <1>1, <1>2, <2>1, <2>2, <2>3 DEF Strict
  <2>5. QED
    BY <1>1, <1>2, <2>1, <2>2, <2>4 DEF Holds, Deletes, Scanned
<1>6. k \in Sure => Puts(new, s)
  BY <1>1 DEF Holds, Puts
<1>7. QED
  BY <1>1, <1>3, <1>4, <1>5, <1>6 DEF Holds, new

(* A write of another call does not disturb what is a call's own.           *)
LEMMA Undisturbed ==
    ASSUME StoreType, NEW w \in WriteSet, Effect(w), UNCHANGED setting, NEW call, CallType(call),
           call.sole \cap w.docs = {}, Holds(call, kind, keyed, stored, queue, Settled)
    PROVE  Holds(call, kind, keyed, stored', queue', Settled')
<1>1. kind' = kind /\ Settled' = After(kind, w, Settled)
  BY EffectSettles DEF setting
<1>2. \A d \in call.sole : d \in Docs /\ d \notin w.docs /\ Settled'[d] = Settled[d]
  <2>1. \A d \in call.sole : d \in Docs /\ d \notin w.docs
    BY DEF CallType
  <2>2. QED
    BY <1>1, <2>1 DEF After, Applies
<1>3. Keeps(call, kind, stored', queue')
  <2> SUFFICES ASSUME call.op = "filter" /\ <<kind, call.form>> \notin Misread,
                      NEW d \in call.sole, ~Asked(call, d)
               PROVE  Quiet(kind, stored', queue', d, call.before[d]) /\ d \notin call.left
    BY DEF Keeps
  <2>1. Quiet(kind, stored, queue, d, call.before[d]) /\ d \notin call.left
    BY DEF Holds, Keeps
  <2>2. PICK v : v = call.before[d]
    OBVIOUS
  <2>3. Spares(kind, w, d, v)
    BY <1>2 DEF Spares, Applies
  <2>4. QED
    BY <1>1, <1>2, <2>1, <2>2, <2>3, EffectQuiet
<1>4. Deletes(call, kind, keyed, stored', queue', Settled')
  <2> SUFFICES ASSUME Strict(call, kind, keyed)
               PROVE  Deletes(call, kind, keyed, stored', queue', Settled')
    BY DEF Deletes
  <2>1. w.docs = {}
    BY DEF Strict, WriteSet
  <2>2. UNCHANGED <<stored, queue>>
    BY <2>1 DEF Effect
  <2>3. Settled' = Settled
    BY <1>1, <2>2 DEF Settled, Written
  <2>4. QED
    BY <2>2, <2>3 DEF Holds
<1>5. kind \in Sure => Puts(call, Settled')
  BY <1>2 DEF Holds, Puts
<1>6. QED
  BY <1>3, <1>4, <1>5 DEF Holds

(* A step of one call, the others being undisturbed.                       *)
LEMMA Advance ==
    ASSUME NEW cs, NEW k, NEW ky, NEW st, NEW q, NEW s, NEW st2, NEW q2, NEW s2, NEW a,
           Calls(cs, k, ky, st, q, s), NEW e \in Callers, cs[e] # NoCall,
           NEW new, CallType(new), new.docs = cs[e].docs, new.sole = cs[e].sole,
           Holds(new, k, ky, st2, q2, s2),
           \A call : CallType(call) /\ Holds(call, k, ky, st, q, s) /\ call.sole \cap new.docs = {}
                     => Holds(call, k, ky, st2, q2, s2),
           \A d \in Docs \ new.docs : s2[d] = s[d],
           k \in Sure => Kept(cs, a, s)
    PROVE  /\ Calls([cs EXCEPT ![e] = new], k, ky, st2, q2, s2)
           /\ k \in Sure => Kept([cs EXCEPT ![e] = new], a, s2)
<1> DEFINE cs2 == [cs EXCEPT ![e] = new]
<1>1. cs2 = [c \in Callers |-> cs2[c]] /\ cs2[e] = new /\ \A c \in Callers \ {e} : cs2[c] = cs[c]
  BY DEF Calls
<1>2. new # NoCall
  BY TypedIsCall
<1> HIDE DEF cs2
<1>3. Apart(cs2)
  BY <1>1 DEF Calls, Apart
<1>4. ASSUME NEW c \in Callers, cs2[c] # NoCall
      PROVE  CallType(cs2[c]) /\ Holds(cs2[c], k, ky, st2, q2, s2)
  <2>1. CASE c = e
    BY <1>1, <2>1
  <2>2. CASE c # e
    <3>1. cs2[c] = cs[c] /\ cs[c] # NoCall /\ cs[c].sole \cap new.docs = {}
      BY <1>1, <1>4, <2>2 DEF Calls, Apart
    <3>2. QED
      BY <3>1 DEF Calls
  <2>3. QED
    BY <2>1, <2>2
<1>5. k \in Sure => Kept(cs2, a, s2)
  BY <1>1 DEF Kept
<1>6. QED
  BY <1>1, <1>3, <1>4, <1>5 DEF Calls, cs2

-----------------------------------------------------------------------------
(* Step by step.                                                           *)

LEMMA SettledStays ==
    ASSUME UNCHANGED <<kind, stored, queue>> PROVE Settled' = Settled
BY DEF Settled, Written

LEMMA SharedHolds ==
    ASSUME EngineInv, NEW docs, NEW cs, cs = Shared(docs), NEW c \in Callers
    PROVE  /\ calls[c] = NoCall => cs[c] = NoCall
           /\ calls[c] # NoCall =>
                /\ cs[c] # NoCall /\ CallType(cs[c])
                /\ Holds(cs[c], kind, keyed, stored, queue, Settled)
                /\ cs[c].docs = calls[c].docs /\ cs[c].sole = calls[c].sole \ docs
<1>1. CASE calls[c] = NoCall
  BY <1>1 DEF Shared, Idle
<1>2. CASE calls[c] # NoCall
  <2>1. cs[c] = Yields(calls[c], docs)
    BY <1>2 DEF Shared, Idle, Yields
  <2>2. CallType(calls[c]) /\ Holds(calls[c], kind, keyed, stored, queue, Settled)
    BY <1>2 DEF EngineInv, Calls
  <2>3. PICK call, k, ky, st, q, s : /\ call = calls[c] /\ k = kind /\ ky = keyed /\ st = stored
                                     /\ q = queue /\ s = Settled
    OBVIOUS
  <2>4. /\ CallType(cs[c]) /\ Holds(cs[c], k, ky, st, q, s)
        /\ cs[c].docs = call.docs /\ cs[c].sole = call.sole \ docs
    BY <2>1, <2>2, <2>3, YieldHolds
  <2>5. QED
    BY <1>2, <2>3, <2>4, TypedIsCall
<1>3. QED
  BY <1>1, <1>2

(* A call begins: what it may touch, the others no longer claim.            *)
LEMMA BeginKeeps ==
    ASSUME EngineInv, NEW c \in Callers, NEW call, NEW logged, Begin(c, call, logged),
           CallType(call), Holds(call, kind, keyed, stored, queue, Settled),
           call.sole \cap Busy = {}
    PROVE  EngineInv'
<1>1. /\ calls' = [Shared(call.docs) EXCEPT ![c] = call] /\ acked' = Touched(call.docs)
      /\ UNCHANGED <<kind, keyed, stored, queue>> /\ calls[c] = NoCall
  BY DEF Begin, setting, Idle
<1>2. Settled' = Settled
  BY <1>1, SettledStays
<1>3. PICK cs : cs = Shared(call.docs)
  OBVIOUS
<1>4. /\ calls' = [e \in Callers |-> calls'[e]] /\ calls'[c] = call
      /\ \A e \in Callers \ {c} : calls'[e] = cs[e]
  BY <1>1, <1>3 DEF Shared
<1>5. ASSUME NEW e \in Callers, e # c
      PROVE  /\ calls[e] = NoCall => calls'[e] = NoCall
             /\ calls[e] # NoCall =>
                  /\ calls'[e] # NoCall /\ CallType(calls'[e])
                  /\ Holds(calls'[e], kind, keyed, stored, queue, Settled)
                  /\ calls'[e].docs = calls[e].docs /\ calls'[e].sole = calls[e].sole \ call.docs
                  /\ call.sole \cap calls[e].docs = {}
  <2>1. calls[e] # NoCall => call.sole \cap calls[e].docs = {}
    BY DEF Busy, Idle
  <2>2. calls'[e] = cs[e]
    BY <1>4, <1>5
  <2>3. QED
    BY <1>3, <2>1, <2>2, SharedHolds
<1>6. call # NoCall
  BY TypedIsCall
<1>7. Apart(calls')
  <2> SUFFICES ASSUME NEW x \in Callers, NEW y \in Callers, x # y,
                      calls'[x] # NoCall, calls'[y] # NoCall
               PROVE  calls'[x].sole \cap calls'[y].docs = {}
    BY DEF Apart
  <2>1. CASE x = c
    BY <1>4, <1>5, <2>1
  <2>2. CASE y = c
    BY <1>4, <1>5, <2>2
  <2>3. CASE x # c /\ y # c
    BY <1>5, <2>3 DEF EngineInv, Calls, Apart
  <2>4. QED
    BY <2>1, <2>2, <2>3
<1>8. \A e \in Callers : calls'[e] # NoCall =>
         CallType(calls'[e]) /\ Holds(calls'[e], kind', keyed', stored', queue', Settled')
  BY <1>1, <1>2, <1>4, <1>5
<1>9. Calls(calls', kind', keyed', stored', queue', Settled')
  BY <1>4, <1>7, <1>8 DEF Calls
<1>10. ASSUME kind \in Sure PROVE Kept(calls', acked', Settled')
  <2> SUFFICES ASSUME NEW d \in Docs, acked'[d] # Absent
               PROVE  Settled'[d] = acked'[d]
                      /\ \A e \in Callers : calls'[e] # NoCall => d \notin calls'[e].docs
    BY DEF Kept
  <2>1. d \notin call.docs /\ acked'[d] = acked[d]
    BY <1>1 DEF Touched
  <2>2. Settled[d] = acked[d] /\ \A e \in Callers : calls[e] # NoCall => d \notin calls[e].docs
    BY <1>10, <2>1 DEF EngineInv, Kept
  <2>3. QED
    BY <1>2, <1>4, <1>5, <2>1, <2>2
<1>11. StoreType' /\ acked' \in [Docs -> Values]
  BY <1>1 DEF EngineInv, StoreType, Touched, Values
<1>12. QED
  BY <1>1, <1>9, <1>10, <1>11 DEF EngineInv

LEMMA SendingKeeps ==
    ASSUME EngineInv, NEW c \in Callers, NEW op \in Operation \ {"filter"},
           NEW docs \in SUBSET Docs, NEW to \in Values, NEW logged,
           op = "clear" => to = Absent, Begin(c, Sending(op, docs, to), logged)
    PROVE  EngineInv'
<1>1. PICK call : call = Sending(op, docs, to)
  OBVIOUS
<1>2. CallType(call) /\ call.sole \cap Busy = {}
  BY <1>1 DEF CallType, Sending, Raised
<1>3. Holds(call, kind, keyed, stored, queue, Settled)
  BY <1>1 DEF Holds, Keeps, Deletes, Strict, Puts, Sending
<1>4. QED
  BY <1>1, <1>2, <1>3, BeginKeeps

LEMMA FilteringKeeps ==
    ASSUME EngineInv, NEW c \in Callers, DeleteByFilter(c)
    PROVE  EngineInv'
<1>0. KeptOrders \subseteq Rankings \cup {NoOrder}
  BY DEF KeptOrders
<1>1. PICK form \in Forms, order \in KeptOrders :
        Begin(c, [at |-> "scan", op |-> "filter", docs |-> Docs, left |-> {}, to |-> Absent,
                  form |-> form, order |-> order, offset |-> 0, before |-> stored, failed |-> FALSE,
                  raised |-> "no", sole |-> IF queue = <<>> THEN Docs \ Busy ELSE {}], TRUE)
  BY DEF DeleteByFilter
<1>2. PICK call : call =
        [at |-> "scan", op |-> "filter", docs |-> Docs, left |-> {}, to |-> Absent,
         form |-> form, order |-> order, offset |-> 0, before |-> stored, failed |-> FALSE,
         raised |-> "no", sole |-> IF queue = <<>> THEN Docs \ Busy ELSE {}]
  OBVIOUS
<1>3. /\ CallType(call) /\ call.sole \cap Busy = {}
      /\ call.before = stored /\ call.left = {} /\ call.op = "filter" /\ call.at = "scan"
      /\ call.offset = 0 /\ ~call.failed /\ call.sole = IF queue = <<>> THEN Docs \ Busy ELSE {}
  BY <1>0, <1>1, <1>2 DEF CallType, FilterType, EngineInv, StoreType, Values, Operation, Raised
<1>4. Keeps(call, kind, stored, queue)
  <2> SUFFICES ASSUME NEW d \in call.sole
               PROVE  Quiet(kind, stored, queue, d, call.before[d]) /\ d \notin call.left
    BY DEF Keeps
  <2>1. queue = <<>>
    BY <1>3
  <2>2. QED
    BY <1>3, <2>1 DEF Quiet
<1>5. Deletes(call, kind, keyed, stored, queue, Settled)
  <2> SUFFICES ASSUME Strict(call, kind, keyed)
               PROVE  Deletes(call, kind, keyed, stored, queue, Settled)
    BY DEF Deletes
  <2>1. queue = <<>>
    BY <1>3 DEF Strict
  <2>2. CASE kind = "postgres"
    BY <1>3, <2>1, <2>2 DEF Deletes, Scanned
  <2>3. CASE kind # "postgres"
    <3>1. call.order \in Rankings
      <4>1. kind # "meilisearch"
        BY DEF Strict, Sure
      <4>2. QED
        BY <1>1, <1>2, <2>3, <4>1 DEF KeptOrders
    <3>2. \A d \in Sought(call) : ~ (Rank(Sought(call), call.order, d) < 0)
      <4>1. Sought(call) \in SUBSET Docs /\ call.order \in Rankings
        BY <3>1 DEF Sought
      <4>2. PICK M, o : M = Sought(call) /\ o = call.order
        OBVIOUS
      <4>3. \A d \in M : Rank(M, o, d) \in 0..(Cardinality(M) - 1)
        BY <4>1, <4>2, PlacesFill
      <4>4. \A d \in M : ~ (Rank(M, o, d) < 0)
        BY <4>3
      <4>5. QED
        BY <4>2, <4>4
    <3>3. QED
      BY <1>3, <2>1, <2>3, <3>1, <3>2 DEF Deletes, Scanned
  <2>4. QED
    BY <2>2, <2>3
<1>6. kind \in Sure => Puts(call, Settled)
  BY <1>3 DEF Puts
<1>7. Holds(call, kind, keyed, stored, queue, Settled)
  BY <1>4, <1>5, <1>6 DEF Holds
<1>8. QED
  BY <1>1, <1>2, <1>3, <1>7, BeginKeeps

(* An index that is made anew or dropped: nobody claims anything of it.     *)
LEMMA NothingClaimed ==
    ASSUME NEW call, call.sole = {}, NEW k, NEW ky, NEW st, NEW q, NEW s
    PROVE  Holds(call, k, ky, st, q, s)
BY DEF Holds, Keeps, Deletes, Strict, Puts

LEMMA DroppedKeeps ==
    ASSUME EngineInv, calls' = Shared(Docs), acked' = NoDocs, stored' = NoDocs,
           queue' = <<>>, UNCHANGED setting
    PROVE  EngineInv'
<1>1. PICK cs : cs = Shared(Docs)
  OBVIOUS
<1>2. cs = [c \in Callers |-> cs[c]]
  BY <1>1 DEF Shared
<1>3. ASSUME NEW c \in Callers, cs[c] # NoCall
      PROVE  CallType(cs[c]) /\ cs[c].sole = {}
  <2>1. calls[c] # NoCall
    BY <1>1, <1>3, SharedHolds
  <2>2. CallType(cs[c]) /\ cs[c].sole = calls[c].sole \ Docs
    BY <1>1, <2>1, SharedHolds
  <2>3. calls[c].sole \subseteq Docs
    BY <2>1 DEF EngineInv, Calls, CallType
  <2>4. QED
    BY <2>2, <2>3
<1>4. ASSUME NEW c \in Callers, cs[c] # NoCall
      PROVE  Holds(cs[c], kind', keyed', stored', queue', Settled')
  <2>1. PICK k, ky, st, q, s : /\ k = kind' /\ ky = keyed' /\ st = stored' /\ q = queue'
                               /\ s = Settled'
    OBVIOUS
  <2>2. QED
    BY <1>3, <1>4, <2>1, NothingClaimed
<1>5. Apart(cs)
  BY <1>3 DEF Apart
<1>6. Calls(calls', kind', keyed', stored', queue', Settled')
  BY <1>1, <1>2, <1>3, <1>4, <1>5 DEF Calls
<1>7. Kept(calls', acked', Settled')
  BY DEF Kept, NoDocs
<1>8. StoreType' /\ acked' \in [Docs -> Values]
  BY DEF EngineInv, StoreType, NoDocs, Values, setting
<1>9. QED
  BY <1>6, <1>7, <1>8 DEF EngineInv

(* A step of one call.                                                     *)
LEMMA StepKeeps ==
    ASSUME EngineInv, NEW e \in Callers, calls[e] # NoCall, NEW new,
           calls' = [calls EXCEPT ![e] = new], CallType(new),
           new.docs = calls[e].docs, new.sole = calls[e].sole,
           Holds(new, kind, keyed, stored', queue', Settled'),
           \A call : CallType(call) /\ Holds(call, kind, keyed, stored, queue, Settled)
                        /\ call.sole \cap new.docs = {}
                     => Holds(call, kind, keyed, stored', queue', Settled'),
           \A d \in Docs \ new.docs : Settled'[d] = Settled[d],
           UNCHANGED <<setting, acked>>, StoreType'
    PROVE  EngineInv'
<1>1. PICK cs, k, ky, st, q, s, st2, q2, s2, a :
        /\ cs = calls /\ k = kind /\ ky = keyed /\ st = stored /\ q = queue /\ s = Settled
        /\ st2 = stored' /\ q2 = queue' /\ s2 = Settled' /\ a = acked
  OBVIOUS
<1>2. /\ Calls(cs, k, ky, st, q, s) /\ cs[e] # NoCall /\ (k \in Sure => Kept(cs, a, s))
      /\ new.docs = cs[e].docs /\ new.sole = cs[e].sole /\ Holds(new, k, ky, st2, q2, s2)
      /\ \A d \in Docs \ new.docs : s2[d] = s[d]
  BY <1>1 DEF EngineInv
<1>3. \A call : CallType(call) /\ Holds(call, k, ky, st, q, s) /\ call.sole \cap new.docs = {}
                => Holds(call, k, ky, st2, q2, s2)
  BY <1>1
<1>4. /\ Calls([cs EXCEPT ![e] = new], k, ky, st2, q2, s2)
      /\ k \in Sure => Kept([cs EXCEPT ![e] = new], a, s2)
  BY <1>2, <1>3, Advance
<1>5. kind' = kind /\ keyed' = keyed /\ acked' = acked
  BY DEF setting
<1>6. QED
  BY <1>1, <1>4, <1>5 DEF EngineInv

LEMMA WriteKeeps ==
    ASSUME EngineInv, NEW e \in Callers, calls[e] # NoCall, NEW new,
           calls' = [calls EXCEPT ![e] = new], CallType(new),
           new.docs = calls[e].docs, new.sole = calls[e].sole,
           Holds(new, kind, keyed, stored', queue', Settled'),
           NEW w \in WriteSet, Effect(w), w.docs \subseteq new.docs,
           UNCHANGED <<setting, acked>>
    PROVE  EngineInv'
<1>1. StoreType /\ UNCHANGED setting
  BY DEF EngineInv
<1>2. StoreType' /\ Settled' = After(kind, w, Settled)
  BY <1>1, EffectSettles
<1>3. \A d \in Docs \ new.docs : Settled'[d] = Settled[d]
  BY <1>2 DEF After, Applies
<1>4. ASSUME NEW call, CallType(call), Holds(call, kind, keyed, stored, queue, Settled),
             call.sole \cap new.docs = {}
      PROVE  Holds(call, kind, keyed, stored', queue', Settled')
  <2>1. call.sole \cap w.docs = {}
    BY <1>4
  <2>2. QED
    BY <1>1, <1>4, <2>1, Undisturbed
<1>5. QED
  BY <1>1, <1>2, <1>3, <1>4, StepKeeps

LEMMA QuietStepKeeps ==
    ASSUME EngineInv, NEW e \in Callers, calls[e] # NoCall, NEW new,
           calls' = [calls EXCEPT ![e] = new], CallType(new),
           new.docs = calls[e].docs, new.sole = calls[e].sole,
           Holds(new, kind, keyed, stored, queue, Settled),
           UNCHANGED <<setting, acked, stored, queue>>
    PROVE  EngineInv'
<1>1. kind' = kind /\ keyed' = keyed /\ Settled' = Settled
  BY SettledStays DEF setting
<1>2. StoreType'
  BY <1>1 DEF EngineInv, StoreType
<1>3. QED
  BY <1>1, <1>2, StepKeeps

(* What a step of a call leaves of it.                                     *)
Same(old, new) ==
    /\ DOMAIN new = DOMAIN old /\ new.op = old.op /\ new.docs = old.docs
    /\ new.to = old.to /\ new.sole = old.sole
    /\ old.op = "filter" =>
         new.form = old.form /\ new.order = old.order /\ new.before = old.before

LEMMA SameClaims ==
    ASSUME NEW old, NEW new, Same(old, new), old.op = "filter", NEW k, NEW ky
    PROVE  /\ \A d : Asked(new, d) <=> Asked(old, d)
           /\ Sought(new) = Sought(old) /\ (Strict(new, k, ky) <=> Strict(old, k, ky))
<1>1. \A d : Asked(new, d) <=> Asked(old, d)
  BY DEF Same, Asked
<1>2. Sought(new) = Sought(old)
  BY <1>1 DEF Sought
<1>3. QED
  BY <1>1, <1>2 DEF Same, Strict

(* A call that is over, or gave up, claims nothing but what it kept.        *)
LEMMA GivenUp ==
    ASSUME NEW old, NEW k, NEW ky, NEW st, NEW q, NEW s, CallType(old),
           Holds(old, k, ky, st, q, s), NEW raised \in Raised \ {"no"}
    PROVE  LET new == [old EXCEPT !.at = "close", !.raised = raised]
           IN  CallType(new) /\ Same(old, new) /\ Holds(new, k, ky, st, q, s)
<1> DEFINE new == [old EXCEPT !.at = "close", !.raised = raised]
<1>1. /\ Same(old, new) /\ CallType(new) /\ new.left = old.left
      /\ new.at = "close" /\ new.raised = raised
  BY DEF CallType, FilterType, Same
<1> HIDE DEF new
<1>2. Keeps(new, k, st, q)
  BY <1>1 DEF Holds, Keeps, Same, Asked
<1>3. QED
  BY <1>1, <1>2 DEF Holds, Deletes, Puts, new

-----------------------------------------------------------------------------
(* One request.                                                            *)

(* What is sent, what the backend answers, and what the call makes of it:   *)
(* it goes on, or ends; if it is still without failure, all was taken.      *)
Sent(call, docs, answer, new) ==
    /\ CallType(new) /\ Same(call, new)
    /\ new.at \in {"send", "close"}
    /\ new.left = IF new.at = "send" THEN call.left \ docs ELSE call.left
    /\ new.at = "send" /\ ~new.failed => ~call.failed /\ answer.raised = "no"
    /\ new.at = "close" /\ new.raised = "no" =>
         ~call.failed /\ answer.raised = "no" /\ call.left = docs

SendOp(call) == IF call.op = "filter" THEN "remove" ELSE call.op

LEMMA SendGives ==
    ASSUME EngineInv, NEW c \in Callers, Send(c)
    PROVE  \E docs \in SUBSET calls[c].left : \E there, present, new :
           \E answer \in Answers(kind, SendOp(calls[c]), docs, there, present) :
             /\ calls[c] # NoCall /\ calls[c].at = "send" /\ CallType(calls[c])
             /\ calls' = [calls EXCEPT ![c] = new]
             /\ Sent(calls[c], docs, answer, new)
             /\ Effect(Write(answer.done, calls[c].to,
                             IF SendOp(calls[c]) = "clear" THEN "all" ELSE "any"))
<1> DEFINE call == calls[c]
           op == SendOp(call)
           present == {d \in Docs : Settled[d] # Absent}
<1>1. call.at = "send" /\ call # NoCall
  BY DEF Send, NoCall
<1>2. CallType(call)
  BY <1>1 DEF EngineInv, Calls
<1>3. PICK docs \in IF OneByOne(kind, op) THEN {{d} : d \in call.left} ELSE {call.left} :
        \E answer \in Answers(kind, op, docs, exists, present) :
         /\ Effect(Write(answer.done, call.to, IF op = "clear" THEN "all" ELSE "any"))
         /\ LET failed == call.failed \/ answer.raised = "backend" IN
          CASE answer.raised \in Unhandled -> Ends(c, answer.raised)
            [] answer.raised \notin Unhandled /\ (call.left = docs \/ (failed /\ ~GoesOn(kind))) ->
                 Ends(c, IF failed THEN "backend" ELSE "no")
            [] OTHER -> calls' = [calls EXCEPT ![c].left = @ \ docs, ![c].failed = failed]
  BY DEF Send, SendOp
<1>9. PICK answer \in Answers(kind, op, docs, exists, present) :
         /\ Effect(Write(answer.done, call.to, IF op = "clear" THEN "all" ELSE "any"))
         /\ LET failed == call.failed \/ answer.raised = "backend" IN
          CASE answer.raised \in Unhandled -> Ends(c, answer.raised)
            [] answer.raised \notin Unhandled /\ (call.left = docs \/ (failed /\ ~GoesOn(kind))) ->
                 Ends(c, IF failed THEN "backend" ELSE "no")
            [] OTHER -> calls' = [calls EXCEPT ![c].left = @ \ docs, ![c].failed = failed]
  BY <1>3
<1>10. docs \in SUBSET call.left
  OBVIOUS
<1>4. answer.raised \in Raised /\ kind \in Kinds /\ op \in {"add", "remove", "update", "clear"}
  <2>1. kind \in Kinds /\ op \in {"add", "remove", "update", "clear"}
    BY <1>2 DEF EngineInv, StoreType, CallType, SendOp, Operation, Unlogged
  <2>2. QED
    BY <1>9, <2>1, AnswerTaken
<1> DEFINE failed == call.failed \/ answer.raised = "backend"
<1>5. ASSUME NEW raised \in Raised, Ends(c, raised),
             raised = "no" => ~call.failed /\ answer.raised = "no" /\ call.left = docs
      PROVE  \E new : calls' = [calls EXCEPT ![c] = new] /\ Sent(call, docs, answer, new)
  <2> DEFINE new == [call EXCEPT !.at = "close", !.raised = raised]
  <2>1. calls' = [calls EXCEPT ![c] = new]
    BY <1>5 DEF Ends
  <2>2. /\ CallType(new) /\ Same(call, new) /\ new.at = "close" /\ new.raised = raised
        /\ new.left = call.left
    BY <1>2, <1>5 DEF CallType, FilterType, Same
  <2> HIDE DEF new
  <2>3. Sent(call, docs, answer, new)
    BY <1>5, <2>2 DEF Sent
  <2>4. QED
    BY <2>1, <2>3
<1>6. ASSUME calls' = [calls EXCEPT ![c].left = @ \ docs, ![c].failed = failed],
             answer.raised \notin Unhandled
      PROVE  \E new : calls' = [calls EXCEPT ![c] = new] /\ Sent(call, docs, answer, new)
  <2> DEFINE new == [call EXCEPT !.left = @ \ docs, !.failed = failed]
  <2>1. calls' = [calls EXCEPT ![c] = new]
    BY <1>6
  <2>2. failed \in BOOLEAN
    BY <1>2 DEF CallType
  <2>3. /\ Same(call, new) /\ new.at = "send"
        /\ new.left = call.left \ docs /\ new.failed = failed /\ new.raised = call.raised
        /\ call.op = "filter" => new.offset = call.offset
    BY <1>1, <1>2 DEF CallType, FilterType, Same
  <2>4. CallType(new)
    <3> HIDE DEF new
    <3>1. QED
      BY <1>2, <2>2, <2>3 DEF CallType, FilterType, Same
  <2>5. ~failed => ~call.failed /\ answer.raised = "no"
    BY <1>4, <1>6 DEF Raised, Unhandled
  <2> HIDE DEF new, failed
  <2>6. Sent(call, docs, answer, new)
    BY <2>3, <2>4, <2>5 DEF Sent
  <2>7. QED
    BY <2>1, <2>6
<1>7. \E new : calls' = [calls EXCEPT ![c] = new] /\ Sent(call, docs, answer, new)
  <2>1. CASE answer.raised \in Unhandled
    <3>1. Ends(c, answer.raised) /\ answer.raised # "no"
      BY <1>9, <2>1 DEF Unhandled
    <3>2. QED
      BY <1>4, <1>5, <3>1
  <2>2. CASE answer.raised \notin Unhandled /\ (call.left = docs \/ (failed /\ ~GoesOn(kind)))
    <3>1. Ends(c, IF failed THEN "backend" ELSE "no")
      BY <1>9, <2>2
    <3>2. PICK raised : raised = IF failed THEN "backend" ELSE "no"
      OBVIOUS
    <3>3. raised \in Raised /\ (raised = "no" => ~call.failed /\ answer.raised = "no" /\ call.left = docs)
      BY <1>4, <2>2, <3>2 DEF Raised, Unhandled
    <3>4. QED
      BY <1>5, <3>1, <3>2, <3>3
  <2>3. CASE answer.raised \notin Unhandled /\ ~ (call.left = docs \/ (failed /\ ~GoesOn(kind)))
    BY <1>9, <1>6, <2>3
  <2>4. QED
    BY <2>1, <2>2, <2>3
<1>8. QED
  BY <1>1, <1>2, <1>7, <1>9, <1>10

(* A request of one call keeps what holds of it.                           *)
LEMMA SendHolds ==
    ASSUME NEW call, CallType(call), call.at = "send", NEW k \in Kinds, NEW ky,
           NEW docs \in SUBSET call.left, NEW there, NEW present,
           NEW answer \in Answers(k, SendOp(call), docs, there, present),
           NEW new, Sent(call, docs, answer, new),
           NEW st, NEW q, NEW s, NEW st2, NEW q2, NEW s2, Holds(call, k, ky, st, q, s),
           \A d \in Docs \ answer.done : s2[d] = s[d],
           \A d \in answer.done : s2[d] = call.to,
           \A d \in Docs \ answer.done : \A v : Quiet(k, st, q, d, v) => Quiet(k, st2, q2, d, v)
    PROVE  Holds(new, k, ky, st2, q2, s2)
<1>1. SendOp(call) \in {"add", "remove", "update", "clear"}
  BY DEF CallType, SendOp, Operation, Unlogged
<1>2. /\ answer.done \subseteq docs
      /\ answer.raised = "no" /\ (k \in Sure \/ (SendOp(call) = "remove" /\ k = "vespa"))
         => answer.done = docs
  BY <1>1, AnswerTaken
<1>3. Same(call, new) /\ new.left \subseteq call.left /\ new.at \in {"send", "close"}
  BY DEF Sent
<1>4. Keeps(new, k, st2, q2)
  <2> SUFFICES ASSUME new.op = "filter", <<k, new.form>> \notin Misread,
                      NEW d \in new.sole, ~Asked(new, d)
               PROVE  Quiet(k, st2, q2, d, new.before[d]) /\ d \notin new.left
    BY DEF Keeps
  <2>1. call.op = "filter" /\ <<k, call.form>> \notin Misread /\ d \in call.sole /\ ~Asked(call, d)
        /\ new.before = call.before
    BY <1>3, SameClaims DEF Same
  <2>2. Quiet(k, st, q, d, call.before[d]) /\ d \notin call.left
    BY <2>1 DEF Holds, Keeps
  <2>3. d \in Docs \ answer.done
    BY <1>2, <2>1, <2>2 DEF CallType
  <2>4. QED
    BY <1>3, <2>1, <2>2, <2>3
<1>5. ASSUME NEW S \in SUBSET Docs, NEW to, to = call.to, answer.raised = "no" => answer.done = docs,
             ~call.failed => \A d \in S \ call.left : s[d] = to
      PROVE  /\ new.at = "send" /\ ~new.failed => \A d \in S \ new.left : s2[d] = to
             /\ new.at = "close" /\ new.raised = "no" => \A d \in S : s2[d] = to
  <2>1. ASSUME answer.raised = "no", ~call.failed, NEW d \in S, d \in docs \/ d \notin call.left
        PROVE  s2[d] = to
    BY <1>5, <2>1
  <2>2. QED
    BY <2>1 DEF Sent
<1>6. ASSUME k \in Sure PROVE Puts(new, s2)
  <2> SUFFICES ASSUME new.op # "filter" PROVE Puts(new, s2)
    BY DEF Puts
  <2>1. call.op # "filter" /\ new.sole = call.sole /\ new.to = call.to
    BY <1>3 DEF Same, SendOp
  <2>2. ~call.failed => \A d \in call.sole \ call.left : s[d] = call.to
    BY <1>6, <2>1 DEF Holds, Puts
  <2>3. call.sole \in SUBSET Docs /\ (answer.raised = "no" => answer.done = docs)
    BY <1>2, <1>6, <2>1 DEF CallType
  <2>4. /\ new.at = "send" /\ ~new.failed => \A d \in call.sole \ new.left : s2[d] = call.to
        /\ new.at = "close" /\ new.raised = "no" => \A d \in call.sole : s2[d] = call.to
    BY <1>5, <2>1, <2>2, <2>3
  <2>5. QED
    BY <2>1, <2>4 DEF Puts
<1>7. Deletes(new, k, ky, st2, q2, s2)
  <2> SUFFICES ASSUME Strict(new, k, ky) PROVE Deletes(new, k, ky, st2, q2, s2)
    BY DEF Deletes
  <2>1. call.op = "filter" /\ SendOp(call) = "remove" /\ call.to = Absent
    BY <1>3 DEF Strict, Same, SendOp, CallType, FilterType
  <2>2. Strict(call, k, ky) /\ Sought(new) = Sought(call)
    BY <1>3, <2>1, SameClaims
  <2>3. ~call.failed => \A d \in Sought(call) \ call.left : s[d] = call.to
    BY <2>1, <2>2 DEF Holds, Deletes
  <2>4. Sought(call) \in SUBSET Docs /\ (answer.raised = "no" => answer.done = docs)
    BY <1>2, <2>1, <2>2 DEF Strict, Sought
  <2>5. /\ new.at = "send" /\ ~new.failed => \A d \in Sought(call) \ new.left : s2[d] = call.to
        /\ new.at = "close" /\ new.raised = "no" => \A d \in Sought(call) : s2[d] = call.to
    BY <1>5, <2>1, <2>3, <2>4
  <2>6. QED
    BY <1>3, <2>1, <2>2, <2>5 DEF Deletes
<1>8. QED
  BY <1>4, <1>6, <1>7 DEF Holds

LEMMA SendKeeps ==
    ASSUME EngineInv, NEW c \in Callers, Send(c)
    PROVE  EngineInv'
<1>1. PICK docs \in SUBSET calls[c].left : \E there, present, new :
      \E answer \in Answers(kind, SendOp(calls[c]), docs, there, present) :
        /\ calls[c] # NoCall /\ calls[c].at = "send" /\ CallType(calls[c])
        /\ calls' = [calls EXCEPT ![c] = new]
        /\ Sent(calls[c], docs, answer, new)
        /\ Effect(Write(answer.done, calls[c].to,
                        IF SendOp(calls[c]) = "clear" THEN "all" ELSE "any"))
  BY SendGives
<1>a. PICK there, present, new :
      \E answer \in Answers(kind, SendOp(calls[c]), docs, there, present) :
        /\ calls[c] # NoCall /\ calls[c].at = "send" /\ CallType(calls[c])
        /\ calls' = [calls EXCEPT ![c] = new]
        /\ Sent(calls[c], docs, answer, new)
        /\ Effect(Write(answer.done, calls[c].to,
                        IF SendOp(calls[c]) = "clear" THEN "all" ELSE "any"))
  BY <1>1
<1>2. PICK answer \in Answers(kind, SendOp(calls[c]), docs, there, present) :
        /\ calls[c] # NoCall /\ calls[c].at = "send" /\ CallType(calls[c])
        /\ calls' = [calls EXCEPT ![c] = new]
        /\ Sent(calls[c], docs, answer, new)
        /\ Effect(Write(answer.done, calls[c].to,
                        IF SendOp(calls[c]) = "clear" THEN "all" ELSE "any"))
  BY <1>a
<1>3. PICK call, k, ky, st, q, s, st2, q2, s2, w :
        /\ call = calls[c] /\ k = kind /\ ky = keyed /\ st = stored /\ q = queue /\ s = Settled
        /\ st2 = stored' /\ q2 = queue' /\ s2 = Settled'
        /\ w = Write(answer.done, calls[c].to, IF SendOp(calls[c]) = "clear" THEN "all" ELSE "any")
  OBVIOUS
<1>4. /\ CallType(call) /\ call.at = "send" /\ k \in Kinds /\ docs \in SUBSET call.left
      /\ answer \in Answers(k, SendOp(call), docs, there, present)
      /\ Sent(call, docs, answer, new) /\ Holds(call, k, ky, st, q, s)
  BY <1>2, <1>3 DEF EngineInv, StoreType, Calls
<1>5. answer.done \subseteq docs
  <2>1. SendOp(call) \in {"add", "remove", "update", "clear"}
    BY <1>4 DEF CallType, SendOp, Operation, Unlogged
  <2>2. QED
    BY <1>4, <2>1, AnswerTaken
<1>6. /\ w \in WriteSet /\ Effect(w) /\ w.docs = answer.done /\ w.to = call.to
      /\ w.form \in {"any", "all"}
  <2>1. SendOp(call) = "clear" => call.to = Absent
    BY <1>4 DEF CallType, SendOp
  <2>2. QED
    BY <1>2, <1>3, <1>4, <1>5, <2>1 DEF Write, WriteSet, CallType
<1>7. UNCHANGED <<setting, acked>> /\ StoreType
  BY DEF Send, EngineInv
<1>8. s2 = After(k, w, s)
  BY <1>3, <1>6, <1>7, EffectSettles
<1>9. /\ \A d \in Docs \ answer.done : s2[d] = s[d]
      /\ \A d \in answer.done : s2[d] = call.to
  <2>1. \A d \in answer.done : d \in Docs
    BY <1>4, <1>5 DEF CallType
  <2>2. QED
    BY <1>6, <1>8, <2>1 DEF After, Applies
<1>10. \A d \in Docs \ answer.done : \A v : Quiet(k, st, q, d, v) => Quiet(k, st2, q2, d, v)
  <2> SUFFICES ASSUME NEW d \in Docs \ answer.done, NEW v, Quiet(k, st, q, d, v)
               PROVE  Quiet(k, st2, q2, d, v)
    OBVIOUS
  <2>1. Spares(kind, w, d, v) /\ Quiet(kind, stored, queue, d, v)
    BY <1>3, <1>6 DEF Spares, Applies
  <2>2. Quiet(kind', stored', queue', d, v)
    BY <1>6, <1>7, <2>1, EffectQuiet
  <2>3. QED
    BY <1>3, <1>7, <2>2 DEF setting
<1>11. Holds(new, k, ky, st2, q2, s2)
  BY <1>4, <1>9, <1>10, SendHolds
<1>12. /\ CallType(new) /\ new.docs = calls[c].docs /\ new.sole = calls[c].sole
       /\ w.docs \subseteq new.docs
  BY <1>3, <1>4, <1>5, <1>6 DEF Sent, Same, CallType
<1>13. QED
  BY <1>2, <1>3, <1>6, <1>7, <1>11, <1>12, WriteKeeps

-----------------------------------------------------------------------------
(* One page of a scan.                                                     *)

(* On a scan that is still alone, the matches are what is asked for.        *)
LEMMA MatchesAsked ==
    ASSUME NEW call, CallType(call), call.op = "filter", kind \in Kinds,
           <<kind, call.form>> \notin Misread, stored = call.before
    PROVE  Matches(call.form) = Sought(call)
<1>1. \A v : Reads(kind, call.form, v) <=> v # Absent /\ Means(call.form, v)
  BY ReadsAsked DEF CallType, FilterType
<1>2. QED
  BY <1>1 DEF Matches, Sought, Asked

LEMMA HitsArePage ==
    ASSUME NEW order, NEW form, NEW offset
    PROVE  Hits(order, form, offset) = PageOf(Matches(form), order, offset)
BY DEF Hits, Place, PageOf, Rank

(* What a page adds, and whether it is the last.                           *)
LEMMA PageScanned ==
    ASSUME NEW call, CallType(call), NEW k, NEW ky, Strict(call, k, ky), Scanned(call, k),
           NEW order, k # "postgres" => order = call.order, k = "postgres" => order \in Rankings,
           NEW hits, hits = PageOf(Sought(call), order, call.offset),
           NEW new, Same(call, new), new.left = call.left \cup hits,
           new.offset = call.offset + Page
    PROVE  /\ Cardinality(hits) = Page => Scanned(new, k)
           /\ Cardinality(hits) < Page => Sought(call) \subseteq new.left
<1>1. PICK M, n : M = Sought(call) /\ n = call.offset
  OBVIOUS
<1>2. /\ M \in SUBSET Docs /\ n \in Nat /\ Page \in Nat \ {0} /\ hits = PageOf(M, order, n)
      /\ call.op = "filter" /\ Sought(new) = M /\ new.order = call.order
      /\ IsFiniteSet(M) /\ Cardinality(M) \in Nat
  <2>1. M \in SUBSET Docs
    BY <1>1 DEF Sought
  <2>2. IsFiniteSet(M) /\ Cardinality(M) \in Nat
    BY <2>1, FS_Subset, FS_CardinalityType, EnginesAssumption
  <2>3. call.op = "filter"
    BY DEF Strict
  <2>4. Sought(new) = M /\ new.order = call.order
    BY <1>1, <2>3, SameClaims DEF Same
  <2>5. QED
    BY <1>1, <2>1, <2>2, <2>3, <2>4, EnginesAssumption DEF CallType, FilterType
<1>7. order \in Rankings
  BY DEF Scanned
<1>3. \A d \in M : Rank(M, order, d) \in Nat
  BY <1>2, <1>7, PlacesFill
<1>4. CASE k = "postgres"
  <2>1. Cardinality(M) <= Page /\ (n # 0 => M \subseteq call.left)
    BY <1>1, <1>4 DEF Strict, Scanned
  <2>2. CASE n = 0
    <3>1. hits = M
      BY <1>2, <1>7, <2>1, <2>2, OnlyPage
    <3>2. QED
      BY <1>1, <1>2, <1>4, <3>1 DEF Scanned
  <2>3. CASE n # 0
    BY <1>1, <1>2, <1>4, <2>1, <2>3 DEF Scanned
  <2>4. QED
    BY <2>2, <2>3
<1>5. CASE k # "postgres"
  <2>1. order = call.order /\ \A d \in M : Rank(M, order, d) < n => d \in call.left
    BY <1>1, <1>5 DEF Scanned
  <2>2. ASSUME NEW d \in M, Rank(M, order, d) < n + Page PROVE d \in new.left
    <3>1. CASE Rank(M, order, d) < n
      BY <2>1, <3>1
    <3>2. CASE ~ (Rank(M, order, d) < n)
      <4>1. Rank(M, order, d) \in n .. (n + Page - 1)
        BY <1>2, <1>3, <2>2, <3>2
      <4>2. QED
        BY <1>2, <4>1 DEF PageOf
    <3>3. QED
      BY <3>1, <3>2
  <2>3. Scanned(new, k)
    BY <1>1, <1>2, <1>5, <2>1, <2>2 DEF Scanned
  <2>4. ASSUME Cardinality(hits) < Page PROVE M \subseteq new.left
    <3>1. \A d \in M : Rank(M, order, d) < n + Page
      BY <1>2, <1>7, <2>4, LastPage
    <3>2. QED
      BY <2>2, <3>1
  <2>5. QED
    BY <1>1, <2>3, <2>4
<1>6. QED
  BY <1>4, <1>5

(* A page keeps what holds of its call.                                    *)
LEMMA PageKeeps ==
    ASSUME EngineInv, NEW c \in Callers, ScanPage(c), calls[c].at = "scan", kind # "meilisearch",
           UNCHANGED <<setting, stored, queue, acked>>
    PROVE  EngineInv'
<1>1. PICK call : call = calls[c]
  OBVIOUS
<1>2. /\ call # NoCall /\ CallType(call) /\ FilterType(call) /\ call.op = "filter"
      /\ call.at = "scan" /\ Holds(call, kind, keyed, stored, queue, Settled) /\ kind \in Kinds
  BY <1>1 DEF EngineInv, StoreType, Calls, CallType, NoCall
<1>3. PICK order \in Orders(call) :
        LET hits == Hits(order, call.form, call.offset)
            ids == call.left \cup Ids(hits)
        IN  \/ /\ Cardinality(hits) = Page
               /\ calls' = [calls EXCEPT ![c].left = ids, ![c].offset = @ + Page]
            \/ /\ Cardinality(hits) < Page /\ ids # {}
               /\ calls' = [calls EXCEPT ![c].left = ids, ![c].at = "send"]
            \/ Cardinality(hits) < Page /\ ids = {} /\ Ends(c, "no")
  BY <1>1 DEF ScanPage
<1>4. PICK hits, ids : /\ hits = Hits(order, call.form, call.offset)
                       /\ ids = call.left \cup Ids(hits)
  OBVIOUS
<1>5. (kind = "postgres" => order \in Rankings) /\ (kind # "postgres" => order = call.order)
  BY <1>2, <1>3 DEF Orders, FilterType
<1>6. hits \subseteq Matches(call.form) /\ ids \subseteq Docs
  <2>1. hits \subseteq Matches(call.form) /\ Matches(call.form) \subseteq Docs
    BY <1>4 DEF Hits, Matches
  <2>2. Ids(hits) \subseteq hits
    BY DEF Ids
  <2>3. QED
    BY <1>2, <1>4, <2>1, <2>2 DEF CallType
<1>7. ASSUME NEW new, Same(call, new), new.left \in {call.left, ids}
      PROVE  Keeps(new, kind, stored, queue)
  <2> SUFFICES ASSUME <<kind, new.form>> \notin Misread, NEW d \in new.sole, ~Asked(new, d)
               PROVE  Quiet(kind, stored, queue, d, new.before[d]) /\ d \notin new.left
    BY DEF Keeps
  <2>1. /\ <<kind, call.form>> \notin Misread /\ d \in call.sole /\ ~Asked(call, d)
        /\ new.before = call.before
    BY <1>2, <1>7, SameClaims DEF Same
  <2>2. Quiet(kind, stored, queue, d, call.before[d]) /\ d \notin call.left
    BY <1>2, <2>1 DEF Holds, Keeps
  <2>3. d \notin Matches(call.form)
    <3>1. stored[d] = call.before[d]
      BY <2>2 DEF Quiet
    <3>2. ~Reads(kind, call.form, call.before[d])
      BY <1>2, <2>1, ReadsAsked DEF Asked, FilterType
    <3>3. QED
      BY <3>1, <3>2 DEF Matches
  <2>4. d \notin ids
    BY <1>4, <1>6, <2>2, <2>3 DEF Ids
  <2>5. QED
    BY <1>7, <2>1, <2>2, <2>4
<1>8. ASSUME Strict(call, kind, keyed)
      PROVE  /\ stored = call.before /\ queue = <<>> /\ ~call.failed /\ Scanned(call, kind)
             /\ ids = call.left \cup hits /\ hits = PageOf(Sought(call), order, call.offset)
  <2>1. stored = call.before /\ queue = <<>> /\ ~call.failed /\ Scanned(call, kind)
    BY <1>2, <1>8 DEF Holds, Deletes
  <2>2. Ids(hits) = hits
    BY <1>8 DEF Ids, Strict
  <2>3. Matches(call.form) = Sought(call)
    BY <1>2, <1>8, <2>1, MatchesAsked DEF Strict
  <2>4. QED
    BY <1>4, <2>1, <2>2, <2>3, HitsArePage
<1> DEFINE more == [call EXCEPT !.left = ids, !.offset = @ + Page]
<1>9. /\ CallType(more) /\ Same(call, more) /\ more.left = ids /\ more.at = "scan"
      /\ more.failed = call.failed /\ more.offset = call.offset + Page
  <2>1. /\ DOMAIN more = DOMAIN call /\ more.left = ids /\ more.at = "scan" /\ more.op = "filter"
        /\ more.offset = call.offset + Page /\ more.docs = Docs /\ more.to = call.to
        /\ more.sole = call.sole /\ more.failed = call.failed /\ more.form = call.form
        /\ more.order = call.order /\ more.before = call.before
        /\ more.raised = call.raised
    BY <1>2 DEF CallType, FilterType
  <2>2. call.offset + Page \in Nat
    BY <1>2, EnginesAssumption DEF FilterType
  <2> HIDE DEF more
  <2>3. QED
    BY <1>2, <1>6, <2>1, <2>2 DEF CallType, FilterType, Same
<1>10. ASSUME Strict(call, kind, keyed)
       PROVE  /\ Cardinality(hits) = Page => Scanned(more, kind)
              /\ Cardinality(hits) < Page => Sought(call) \subseteq ids
  <2>1. PICK k, ky : k = kind /\ ky = keyed
    OBVIOUS
  <2>2. /\ Strict(call, k, ky) /\ Scanned(call, k)
        /\ (k # "postgres" => order = call.order) /\ (k = "postgres" => order \in Rankings)
        /\ hits = PageOf(Sought(call), order, call.offset)
        /\ more.left = call.left \cup hits
    BY <1>5, <1>8, <1>9, <1>10, <2>1
  <2> HIDE DEF more
  <2>3. QED
    BY <1>2, <1>5, <1>9, <2>1, <2>2, PageScanned
<1>11. CASE Cardinality(hits) = Page /\ calls' = [calls EXCEPT ![c].left = ids, ![c].offset = @ + Page]
  <2>1. calls' = [calls EXCEPT ![c] = more]
    BY <1>1, <1>11
  <2> HIDE DEF more
  <2>2. Deletes(more, kind, keyed, stored, queue, Settled)
    <3> SUFFICES ASSUME Strict(more, kind, keyed)
                 PROVE  Deletes(more, kind, keyed, stored, queue, Settled)
      BY DEF Deletes
    <3>1. Strict(call, kind, keyed)
      BY <1>2, <1>9, SameClaims
    <3>2. more.before = call.before
      BY <1>2, <1>9 DEF Same
    <3>3. QED
      BY <1>8, <1>9, <1>10, <1>11, <3>1, <3>2 DEF Deletes
  <2>3. Holds(more, kind, keyed, stored, queue, Settled)
    BY <1>2, <1>7, <1>9, <2>2 DEF Holds, Puts, Same
  <2>4. QED
    BY <1>1, <1>2, <1>9, <2>1, <2>3, QuietStepKeeps DEF Same
<1>12. CASE /\ Cardinality(hits) < Page
            /\ calls' = [calls EXCEPT ![c].left = ids, ![c].at = "send"]
  <2> DEFINE new == [call EXCEPT !.left = ids, !.at = "send"]
  <2>1. calls' = [calls EXCEPT ![c] = new]
    BY <1>1, <1>12
  <2>2. CallType(new) /\ Same(call, new) /\ new.left = ids /\ new.at = "send"
    <3>1. /\ DOMAIN new = DOMAIN call /\ new.left = ids /\ new.at = "send" /\ new.op = "filter"
          /\ new.offset = call.offset /\ new.docs = Docs /\ new.to = call.to
          /\ new.sole = call.sole /\ new.failed = call.failed /\ new.form = call.form
          /\ new.order = call.order /\ new.before = call.before
          /\ new.raised = call.raised
      BY <1>2 DEF CallType, FilterType
    <3> HIDE DEF new
    <3>2. QED
      BY <1>2, <1>6, <3>1 DEF CallType, FilterType, Same
  <2> HIDE DEF new
  <2>3. Deletes(new, kind, keyed, stored, queue, Settled)
    <3> SUFFICES ASSUME Strict(new, kind, keyed)
                 PROVE  Deletes(new, kind, keyed, stored, queue, Settled)
      BY DEF Deletes
    <3>1. Strict(call, kind, keyed) /\ Sought(new) = Sought(call)
      BY <1>2, <2>2, SameClaims
    <3>2. QED
      BY <1>10, <1>12, <2>2, <3>1 DEF Deletes
  <2>4. Holds(new, kind, keyed, stored, queue, Settled)
    BY <1>2, <1>7, <2>2, <2>3 DEF Holds, Puts, Same
  <2>5. QED
    BY <1>1, <1>2, <2>1, <2>2, <2>4, QuietStepKeeps DEF Same
<1>13. CASE Cardinality(hits) < Page /\ ids = {} /\ Ends(c, "no")
  <2> DEFINE new == [call EXCEPT !.at = "close", !.raised = "no"]
  <2>1. calls' = [calls EXCEPT ![c] = new]
    BY <1>1, <1>13 DEF Ends
  <2>2. CallType(new) /\ Same(call, new) /\ new.left = call.left /\ new.at = "close"
    BY <1>2 DEF CallType, FilterType, Same, Raised
  <2> HIDE DEF new
  <2>3. Deletes(new, kind, keyed, stored, queue, Settled)
    <3> SUFFICES ASSUME Strict(new, kind, keyed)
                 PROVE  Deletes(new, kind, keyed, stored, queue, Settled)
      BY DEF Deletes
    <3>1. Strict(call, kind, keyed) /\ Sought(new) = Sought(call)
      BY <1>2, <2>2, SameClaims
    <3>2. Sought(new) = {}
      BY <1>10, <1>13, <3>1
    <3>3. QED
      BY <2>2, <3>2 DEF Deletes
  <2>4. Holds(new, kind, keyed, stored, queue, Settled)
    BY <1>2, <1>7, <2>2, <2>3 DEF Holds, Puts, Same
  <2>5. QED
    BY <1>1, <1>2, <2>1, <2>2, <2>4, QuietStepKeeps DEF Same
<1>14. QED
  BY <1>3, <1>4, <1>11, <1>12, <1>13

(* A call gives up.                                                        *)
LEMMA GiveUpKeeps ==
    ASSUME EngineInv, NEW c \in Callers, calls[c] # NoCall,
           NEW raised \in Raised \ {"no"}, Ends(c, raised), UNCHANGED <<setting, stored, queue, acked>>
    PROVE  EngineInv'
<1>1. PICK call, k, ky, st, q, s, new :
        /\ call = calls[c] /\ k = kind /\ ky = keyed /\ st = stored /\ q = queue /\ s = Settled
        /\ new = [calls[c] EXCEPT !.at = "close", !.raised = raised]
  OBVIOUS
<1>2. CallType(call) /\ Holds(call, k, ky, st, q, s)
  BY <1>1 DEF EngineInv, Calls
<1>3. CallType(new) /\ Same(call, new) /\ Holds(new, k, ky, st, q, s)
  BY <1>1, <1>2, GivenUp
<1>4. calls' = [calls EXCEPT ![c] = new]
  BY <1>1 DEF Ends
<1>5. QED
  BY <1>1, <1>3, <1>4, QuietStepKeeps DEF Same

LEMMA ScanKeeps ==
    ASSUME EngineInv, NEW c \in Callers, Scan(c)
    PROVE  EngineInv'
<1>1. /\ calls[c].at = "scan" /\ calls[c] # NoCall /\ kind # "meilisearch"
      /\ UNCHANGED <<setting, stored, queue, acked>>
  BY DEF Scan, NoCall
<1>2. (\E raised \in Raised \ {"no"} : Ends(c, raised)) \/ ScanPage(c)
  BY DEF Scan, SearchMissing, Raised
<1>3. QED
  BY <1>1, <1>2, PageKeeps, GiveUpKeeps

(* Meilisearch deletes what its own filter finds.                          *)
LEMMA TaskKeeps ==
    ASSUME EngineInv, NEW c \in Callers, DeleteTask(c)
    PROVE  EngineInv'
<1>1. PICK call : call = calls[c]
  OBVIOUS
<1>2. /\ call.at = "scan" /\ call # NoCall /\ kind = "meilisearch" /\ UNCHANGED <<setting, acked>>
  BY <1>1 DEF DeleteTask, NoCall
<1>3. PICK answer \in Failing \cup MeilisearchRequest(Docs) :
        Effect(Write(answer.done, Absent, call.form)) /\ Ends(c, answer.raised)
  BY <1>1 DEF DeleteTask
<1>4. answer.done \subseteq Docs /\ answer.raised \in Raised
  BY DEF Raised, Failing, MeilisearchRequest, Single, Whole, Unsent, Torn, Answer
<1>5. /\ CallType(call) /\ FilterType(call) /\ call.op = "filter" /\ kind \in Kinds
      /\ Holds(call, kind, keyed, stored, queue, Settled) /\ StoreType
  BY <1>1, <1>2 DEF EngineInv, StoreType, Calls, CallType
<1>6. PICK w : w = Write(answer.done, Absent, call.form)
  OBVIOUS
<1>7. w \in WriteSet /\ Effect(w) /\ w.docs = answer.done /\ w.to = Absent /\ w.form = call.form
  BY <1>3, <1>4, <1>5, <1>6 DEF Write, WriteSet, FilterType, Values
<1> DEFINE new == [call EXCEPT !.at = "close", !.raised = answer.raised]
<1>8. calls' = [calls EXCEPT ![c] = new]
  BY <1>1, <1>3 DEF Ends
<1>9. /\ CallType(new) /\ Same(call, new) /\ new.left = call.left /\ new.op = "filter"
      /\ new.docs = Docs
  BY <1>4, <1>5 DEF CallType, FilterType, Same
<1> HIDE DEF new
<1>10. Keeps(new, kind, stored', queue')
  <2> SUFFICES ASSUME <<kind, new.form>> \notin Misread, NEW d \in new.sole, ~Asked(new, d)
               PROVE  Quiet(kind, stored', queue', d, new.before[d]) /\ d \notin new.left
    BY DEF Keeps
  <2>1. /\ <<kind, call.form>> \notin Misread /\ d \in call.sole /\ ~Asked(call, d)
        /\ new.before = call.before /\ d \in Docs
    BY <1>5, <1>9, SameClaims DEF Same, CallType
  <2>2. Quiet(kind, stored, queue, d, call.before[d]) /\ d \notin call.left
    BY <1>5, <2>1 DEF Holds, Keeps
  <2>3. PICK v : v = call.before[d]
    OBVIOUS
  <2>4. Spares(kind, w, d, v)
    <3>1. ~Reads(kind, call.form, v)
      BY <1>5, <2>1, <2>3, ReadsAsked DEF Asked, FilterType
    <3>2. call.form \notin {"any", "all"}
      BY <1>5 DEF FilterType, Forms
    <3>3. QED
      BY <1>7, <3>1, <3>2 DEF Spares, Applies
  <2>5. Quiet(kind', stored', queue', d, v)
    BY <1>2, <1>5, <1>7, <2>1, <2>2, <2>3, <2>4, EffectQuiet
  <2>6. QED
    BY <1>2, <1>9, <2>1, <2>2, <2>3, <2>5 DEF setting
<1>11. Holds(new, kind, keyed, stored', queue', Settled')
  BY <1>2, <1>9, <1>10 DEF Holds, Deletes, Strict, Puts, Sure
<1>12. QED
  BY <1>1, <1>2, <1>4, <1>7, <1>8, <1>9, <1>11, WriteKeeps DEF Same

(* A call is over, or its process dead.                                    *)
LEMMA OverKeeps ==
    ASSUME EngineInv, NEW c \in Callers, calls' = [calls EXCEPT ![c] = NoCall],
           UNCHANGED <<setting, stored, queue>>, acked' \in [Docs -> Values],
           kind \in Sure => Kept(calls', acked', Settled)
    PROVE  EngineInv'
<1>1. kind' = kind /\ keyed' = keyed /\ Settled' = Settled
  BY SettledStays DEF setting
<1>2. /\ calls' = [e \in Callers |-> calls'[e]]
      /\ calls'[c] = NoCall /\ \A e \in Callers \ {c} : calls'[e] = calls[e]
  BY DEF EngineInv, Calls
<1>3. Calls(calls', kind, keyed, stored, queue, Settled)
  BY <1>2 DEF EngineInv, Calls, Apart
<1>4. QED
  BY <1>1, <1>3 DEF EngineInv, StoreType

LEMMA CloseKeeps ==
    ASSUME EngineInv, NEW c \in Callers, Close(c)
    PROVE  EngineInv'
<1> DEFINE call == calls[c]
<1> DEFINE Acks(d) == call.op = "add" /\ call.raised = "no" /\ d \in call.sole
<1>1. /\ call.at = "close" /\ calls' = [calls EXCEPT ![c] = NoCall] /\ call # NoCall
      /\ UNCHANGED <<setting, stored, queue>>
      /\ acked' = [d \in Docs |-> IF Acks(d) THEN call.to ELSE acked[d]]
  BY ClosingIs
<1>2. CallType(call) /\ Holds(call, kind, keyed, stored, queue, Settled) /\ acked \in [Docs -> Values]
  BY <1>1 DEF EngineInv, Calls
<1>3. acked' \in [Docs -> Values]
  BY <1>1, <1>2 DEF CallType
<1>4. calls'[c] = NoCall /\ \A e \in Callers \ {c} : calls'[e] = calls[e]
  BY <1>1 DEF EngineInv, Calls
<1>5. ASSUME kind \in Sure, NEW d \in Docs, acked'[d] # Absent
      PROVE  Settled[d] = acked'[d] /\ \A e \in Callers : calls'[e] # NoCall => d \notin calls'[e].docs
  <2>1. CASE Acks(d)
    <3>1. Settled[d] = call.to
      BY <1>1, <1>2, <1>5, <2>1 DEF Holds, Puts
    <3>2. \A e \in Callers \ {c} : calls[e] # NoCall => d \notin calls[e].docs
      BY <1>1, <2>1 DEF EngineInv, Calls, Apart
    <3>3. QED
      BY <1>1, <1>4, <2>1, <3>1, <3>2
  <2>2. CASE ~Acks(d)
    <3>1. acked'[d] = acked[d]
      BY <1>1, <2>2
    <3>2. QED
      BY <1>4, <1>5, <3>1 DEF EngineInv, Kept
  <2>3. QED
    BY <2>1, <2>2
<1>6. kind \in Sure => Kept(calls', acked', Settled)
  BY <1>5 DEF Kept
<1>7. QED
  BY <1>1, <1>3, <1>6, OverKeeps

LEMMA StopKeeps ==
    ASSUME EngineInv, NEW c \in Callers, Stop(c)
    PROVE  EngineInv'
<1>1. calls' = [calls EXCEPT ![c] = NoCall] /\ UNCHANGED <<setting, stored, queue, acked>>
  BY DEF Stop
<1>2. calls'[c] = NoCall /\ \A e \in Callers \ {c} : calls'[e] = calls[e]
  BY <1>1 DEF EngineInv, Calls
<1>3. kind \in Sure => Kept(calls', acked', Settled)
  BY <1>1, <1>2 DEF EngineInv, Kept
<1>4. QED
  BY <1>1, <1>3, OverKeeps DEF EngineInv

(* The engine applies what it took: nothing that is claimed changes.        *)
LEMMA ApplyKeeps ==
    ASSUME EngineInv, Apply
    PROVE  EngineInv'
<1>1. /\ UNCHANGED <<setting, calls, acked>> /\ queue # <<>> /\ StoreType
  BY DEF Apply, EngineInv
<1>2. kind' = kind /\ keyed' = keyed /\ calls' = calls /\ acked' = acked
  BY <1>1 DEF setting
<1>3. /\ StoreType' /\ (kind \notin {"meilisearch", "opensearch"} => Settled' = Settled)
      /\ \A d \in Docs : \A v : Quiet(kind, stored, queue, d, v) => Quiet(kind', stored', queue', d, v)
  BY <1>1, ApplySettles
<1>4. ASSUME NEW call, CallType(call), Holds(call, kind, keyed, stored, queue, Settled)
      PROVE  Holds(call, kind, keyed, stored', queue', Settled')
  <2>1. Keeps(call, kind, stored', queue')
    BY <1>2, <1>3, <1>4 DEF Holds, Keeps, CallType
  <2>2. Deletes(call, kind, keyed, stored', queue', Settled')
    <3> SUFFICES ASSUME Strict(call, kind, keyed)
                 PROVE  Deletes(call, kind, keyed, stored', queue', Settled')
      BY DEF Deletes
    <3>1. Settled' = Settled
      BY <1>3 DEF Strict, Sure
    <3>2. QED
      BY <1>1, <1>4, <3>1 DEF Holds, Deletes
  <2>3. kind \in Sure => Puts(call, Settled')
    BY <1>3, <1>4 DEF Holds, Sure
  <2>4. QED
    BY <2>1, <2>2, <2>3 DEF Holds
<1>5. Calls(calls, kind, keyed, stored', queue', Settled')
  BY <1>4 DEF EngineInv, Calls
<1>6. kind \in Sure => Kept(calls, acked, Settled')
  BY <1>3 DEF EngineInv, Sure
<1>7. QED
  BY <1>2, <1>3, <1>5, <1>6 DEF EngineInv

LEMMA EngineInit == Init => EngineInv
<1> SUFFICES ASSUME Init PROVE EngineInv
  OBVIOUS
<1>1. /\ kind \in Kinds /\ keyed \in BOOLEAN /\ queue = <<>>
      /\ calls = [c \in Callers |-> NoCall] /\ acked = [d \in Docs |-> Absent]
      /\ stored \in [Docs -> IF exists THEN {Null, Value, Absent} ELSE {Absent}]
  BY DEF Init, EnginesInit
<1>2. StoreType /\ acked \in [Docs -> Values]
  BY <1>1 DEF StoreType, Values
<1>3. Calls(calls, kind, keyed, stored, queue, Settled)
  BY <1>1 DEF Calls, Apart
<1>4. Kept(calls, acked, Settled)
  BY <1>1 DEF Kept
<1>5. QED
  BY <1>2, <1>3, <1>4 DEF EngineInv

LEMMA EngineStep == EngineInv /\ [Next]_vars => EngineInv'
<1> SUFFICES ASSUME EngineInv, [Next]_vars PROVE EngineInv'
  OBVIOUS
<1>1. CASE UNCHANGED engineVars
  <2>1. UNCHANGED <<kind, keyed, stored, queue, calls, acked>>
    BY <1>1 DEF engineVars
  <2>2. Settled' = Settled
    BY <2>1, SettledStays
  <2>3. QED
    BY <2>1, <2>2 DEF EngineInv, StoreType
<1>2. ASSUME NEW c \in Callers, IndexDocuments(c) PROVE EngineInv'
  <2>1. PICK docs \in SUBSET Docs, to \in Contents : Begin(c, Sending("add", docs, to), TRUE)
    BY <1>2 DEF IndexDocuments
  <2>2. to \in Values
    BY EnginesAssumption DEF Values
  <2>3. QED
    BY <2>1, <2>2, SendingKeeps DEF Operation
<1>3. ASSUME NEW c \in Callers, RemoveDocuments(c) PROVE EngineInv'
  <2>1. PICK docs \in SUBSET Docs : Begin(c, Sending("remove", docs, Absent), TRUE)
    BY <1>3 DEF RemoveDocuments
  <2>2. QED
    BY <2>1, SendingKeeps DEF Operation, Values
<1>4. ASSUME NEW c \in Callers, UpdateDocuments(c) PROVE EngineInv'
  <2>1. PICK docs \in SUBSET Docs, to \in Contents : Begin(c, Sending("update", docs, to), FALSE)
    BY <1>4 DEF UpdateDocuments
  <2>2. to \in Values
    BY EnginesAssumption DEF Values
  <2>3. QED
    BY <2>1, <2>2, SendingKeeps DEF Operation, Unlogged
<1>5. ASSUME NEW c \in Callers, ClearDocuments(c) PROVE EngineInv'
  <2>1. Begin(c, Sending("clear", Docs, Absent), FALSE)
    BY <1>5 DEF ClearDocuments
  <2>2. QED
    BY <2>1, SendingKeeps DEF Operation, Unlogged, Values
<1>6. CASE CreateIndex
  <2>1. CASE kind = "dummy"
    <3>1. /\ calls' = Shared(Docs) /\ acked' = NoDocs /\ stored' = NoDocs
          /\ UNCHANGED <<setting, queue>>
      BY <1>6, <2>1 DEF CreateIndex
    <3>2. queue' = <<>>
      BY <2>1, <3>1 DEF EngineInv, StoreType, Queues
    <3>3. QED
      BY <3>1, <3>2, DroppedKeeps
  <2>2. CASE kind # "dummy"
    <3>1. UNCHANGED <<kind, keyed, stored, queue, calls, acked>>
      BY <1>6, <2>2 DEF CreateIndex, setting
    <3>2. Settled' = Settled
      BY <3>1, SettledStays
    <3>3. QED
      BY <3>1, <3>2 DEF EngineInv, StoreType
  <2>3. QED
    BY <2>1, <2>2
<1>7. CASE DeleteIndex
  BY <1>7, DroppedKeeps DEF DeleteIndex
<1>8. QED
  BY <1>1, <1>2, <1>3, <1>4, <1>5, <1>6, <1>7, FilteringKeeps, ScanKeeps, TaskKeeps, SendKeeps,
     CloseKeeps, StopKeeps, ApplyKeeps
     DEF Next, EnginesNext, vars

(* On Dummy, Postgres and Solr, a document that an add recorded as a success *)
(* has written, and no other call touched, is there or will be, whatever the *)
(* engine has still to apply and whoever dies meanwhile: documents.py:37 and *)
(* the add_documents of the backends.                                        *)
THEOREM AddsAreAcknowledged == Spec => []Acknowledged
<1>1. EngineInv => Acknowledged
  BY DEF EngineInv, Kept, Acknowledged, Sure
<1>2. QED
  BY <1>1, EngineInit, EngineStep, PTL DEF Spec

(* A deletion by filter that succeeds keeps every document it does not ask  *)
(* for, and deletes every document it asks for, however many pages of hits   *)
(* it scans and in whatever order they come: base.py:93.                     *)
THEOREM FiltersDelete == Spec => []FilterDeletes
<1>1. EngineInv => FilterDeletes
  <2> SUFFICES ASSUME EngineInv, NEW c \in Callers,
                      calls[c].at = "close", calls[c].op = "filter", calls[c].raised = "no",
                      <<kind, calls[c].form>> \notin Misread
               PROVE  /\ \A d \in calls[c].sole : ~Asked(calls[c], d) => Settled[d] = calls[c].before[d]
                      /\ calls[c].sole = Docs /\ ~MayLeave(calls[c]) =>
                           \A d \in Docs : Asked(calls[c], d) => Settled[d] = Absent
    BY DEF FilterDeletes
  <2>1. PICK call : call = calls[c]
    OBVIOUS
  <2>2. call # NoCall
    BY <2>1 DEF NoCall
  <2>3. /\ CallType(call) /\ Holds(call, kind, keyed, stored, queue, Settled)
        /\ StoreType /\ kind \in Kinds
    BY <2>1, <2>2 DEF EngineInv, Calls, StoreType
  <2>4. ASSUME NEW d \in call.sole, ~Asked(call, d) PROVE Settled[d] = call.before[d]
    <3>1. d \in Docs /\ Quiet(kind, stored, queue, d, call.before[d])
      BY <2>1, <2>3, <2>4 DEF Holds, Keeps, CallType
    <3>2. PICK v : v = call.before[d]
      OBVIOUS
    <3>3. QED
      BY <2>3, <3>1, <3>2, QuietSettled
  <2>5. ASSUME call.sole = Docs, ~MayLeave(call), NEW d \in Docs, Asked(call, d)
        PROVE  Settled[d] = Absent
    <3>1. Strict(call, kind, keyed)
      BY <2>1, <2>3, <2>5, StrictIs
    <3>2. QED
      BY <2>1, <2>3, <2>5, <3>1 DEF Holds, Deletes, Sought
  <2>6. QED
    BY <2>1, <2>4, <2>5
<1>2. QED
  BY <1>1, EngineInit, EngineStep, PTL DEF Spec

-----------------------------------------------------------------------------
(* The promise of DocumentStore.                                           *)

(* What a call asks of the store.                                          *)
AskOf(call) ==
    IF call = NoCall THEN [op |-> "none"]
    ELSE [op |-> call.op, docs |-> call.docs, to |-> call.to,
          own |-> IF call.op = "filter" THEN {} ELSE call.sole]

LEMMA AskingIs == Asking = [c \in Callers |-> AskOf(calls[c])]
BY DEF Asking, AskOf, Idle

LEMMA AskOfCall ==
    ASSUME NEW call, CallType(call)
    PROVE  /\ AskOf(call).op = call.op /\ AskOf(call).op # "none"
           /\ AskOf(call).docs = call.docs /\ AskOf(call).to = call.to
           /\ AskOf(call).own = IF call.op = "filter" THEN {} ELSE call.sole
           /\ \A docs : AskOf(Yields(call, docs)) = [AskOf(call) EXCEPT !.own = @ \ docs]
<1>1. call # NoCall /\ call.op # "none"
  BY TypedIsCall DEF CallType, Operation, Unlogged
<1>2. AskOf(call) = [op |-> call.op, docs |-> call.docs, to |-> call.to,
                     own |-> IF call.op = "filter" THEN {} ELSE call.sole]
  BY <1>1 DEF AskOf
<1>3. ASSUME NEW docs
      PROVE  AskOf(Yields(call, docs)) = [AskOf(call) EXCEPT !.own = @ \ docs]
  <2>1. /\ Yields(call, docs) # NoCall /\ Yields(call, docs).op = call.op
        /\ Yields(call, docs).docs = call.docs /\ Yields(call, docs).to = call.to
        /\ Yields(call, docs).sole = call.sole \ docs
    BY DEF Yields, CallType, NoCall
  <2>2. QED
    BY <1>2, <2>1 DEF AskOf
<1>4. QED
  BY <1>1, <1>2, <1>3

LEMMA StoreIdle ==
    ASSUME EngineInv, NEW c \in Callers
    PROVE  /\ Asking[c] = AskOf(calls[c])
           /\ Store!Idle(c) <=> calls[c] = NoCall
           /\ calls[c] # NoCall => CallType(calls[c]) /\ Asking[c].docs = calls[c].docs
<1>1. Asking[c] = AskOf(calls[c])
  BY AskingIs
<1>2. CASE calls[c] = NoCall
  BY <1>1, <1>2 DEF AskOf, Store!Idle
<1>3. CASE calls[c] # NoCall
  <2>1. CallType(calls[c])
    BY <1>3 DEF EngineInv, Calls
  <2>2. QED
    BY <1>1, <1>3, <2>1, AskOfCall DEF Store!Idle
<1>4. QED
  BY <1>2, <1>3

LEMMA NamedIsBusy == ASSUME EngineInv PROVE Store!Named = Busy
<1>1. \A c \in Callers : /\ Store!Idle(c) <=> calls[c] = NoCall
                         /\ calls[c] # NoCall => Asking[c].docs = calls[c].docs
  BY StoreIdle
<1>2. QED
  BY <1>1 DEF Store!Named, Busy, Idle

(* What calls have left, once one has begun, is what their writes have left. *)
LEMMA YieldingIs ==
    ASSUME EngineInv, NEW docs, NEW c \in Callers
    PROVE  AskOf(Shared(docs)[c]) = Store!Yielding(docs)[c]
<1>1. /\ Asking[c] = AskOf(calls[c]) /\ (Store!Idle(c) <=> calls[c] = NoCall)
      /\ calls[c] # NoCall => CallType(calls[c])
  BY StoreIdle
<1>2. CASE calls[c] = NoCall
  BY <1>1, <1>2 DEF Shared, Idle, AskOf, Store!Yielding, Store!NoWrite
<1>3. CASE calls[c] # NoCall
  <2>1. Shared(docs)[c] = Yields(calls[c], docs)
    BY <1>3 DEF Shared, Idle, Yields
  <2>2. AskOf(Yields(calls[c], docs)) = [AskOf(calls[c]) EXCEPT !.own = @ \ docs]
    BY <1>1, <1>3, AskOfCall
  <2>3. QED
    BY <1>1, <1>3, <2>1, <2>2 DEF Store!Yielding
<1>4. QED
  BY <1>2, <1>3

LEMMA GradeStays == ASSUME UNCHANGED kind PROVE Grade' = Grade
BY DEF Grade

LEMMA LateStays == ASSUME UNCHANGED <<kind, queue>> PROVE Late' = Late
BY DEF Late, MayFail

(* A call begins.                                                          *)
LEMMA BeginAsks ==
    ASSUME EngineInv, NEW c \in Callers, NEW call, NEW logged \in BOOLEAN,
           Begin(c, call, logged), CallType(call), logged <=> call.op \notin Unlogged,
           call.op # "filter" => call.sole = call.docs \ Busy
    PROVE  Store!Ask(c)
<1>1. /\ calls' = [Shared(call.docs) EXCEPT ![c] = call] /\ calls[c] = NoCall
      /\ log' = [log EXCEPT ![c] = IF logged THEN "pending" ELSE NoRow]
      /\ UNCHANGED <<kind, stored, queue>>
  BY DEF Begin, setting, Idle
<1>2. Store!Idle(c) /\ Store!Named = Busy
  BY <1>1, StoreIdle, NamedIsBusy
<1>3. UNCHANGED <<Grade, Late, Settled>>
  BY <1>1, GradeStays, LateStays, SettledStays
<1>4. AskOf(call) = [op |-> call.op, docs |-> call.docs, to |-> call.to,
                     own |-> IF call.op = "filter" THEN {} ELSE call.docs \ Store!Named]
  BY <1>2, TypedIsCall DEF AskOf
<1>5. Asking' = [Store!Yielding(call.docs) EXCEPT ![c] = AskOf(call)]
  <2>1. Asking' = [e \in Callers |-> AskOf(calls'[e])]
    BY DEF Asking, AskOf, Idle
  <2>2. \A e \in Callers : calls'[e] = IF e = c THEN call ELSE Shared(call.docs)[e]
    BY <1>1 DEF Shared
  <2>3. \A e \in Callers : AskOf(Shared(call.docs)[e]) = Store!Yielding(call.docs)[e]
    BY YieldingIs
  <2>4. Store!Yielding(call.docs) = [e \in Callers |-> Store!Yielding(call.docs)[e]]
    BY DEF Store!Yielding
  <2>5. QED
    BY <2>1, <2>2, <2>3, <2>4
<1>6. /\ call.op \in Store!Ops /\ call.docs \in SUBSET Docs /\ call.to \in {Absent, Null, Value}
      /\ logged <=> call.op \in Store!Logged
  BY DEF CallType, Operation, Unlogged, Values, Store!Ops, Store!Logged
<1>7. log' = [log EXCEPT ![c] = IF call.op \in Store!Logged THEN "pending" ELSE "none"]
  BY <1>1, <1>6 DEF NoRow
<1>8. ~Store!Idle(c)'
  <2>1. c \in DOMAIN Store!Yielding(call.docs)
    BY DEF Store!Yielding
  <2>2. Asking'[c].op = AskOf(call).op /\ AskOf(call).op # "none"
    BY <1>5, <2>1, AskOfCall
  <2>3. QED
    BY <2>2 DEF Store!Idle
<1>9. QED
  BY <1>2, <1>3, <1>4, <1>5, <1>6, <1>7, <1>8 DEF Store!Ask

-----------------------------------------------------------------------------
(* The documents the engine may go back on.                                *)
LateOf(k, q) ==
    UNION {q[i].docs : i \in {i \in 1..Len(q) :
             k = "meilisearch" \/ (k = "opensearch" /\ q[i].form = "all")}}
Risky(k, w) == k = "meilisearch" \/ (k = "opensearch" /\ w.form = "all")

LEMMA LateIs == Late = LateOf(kind, queue)
BY DEF Late, LateOf, MayFail

LEMMA LateAppend ==
    ASSUME NEW k, NEW q \in Seq(WriteSet), NEW w \in WriteSet
    PROVE  LateOf(k, Append(q, w)) = LateOf(k, q) \cup (IF Risky(k, w) THEN w.docs ELSE {})
<1> DEFINE r == Append(q, w)
<1>1. /\ Len(q) \in Nat /\ Len(r) = Len(q) + 1 /\ r[Len(q) + 1] = w
      /\ \A i \in 1..Len(q) : r[i] = q[i]
  OBVIOUS
<1>2. 1..Len(r) = 1..Len(q) \cup {Len(q) + 1} /\ Len(q) + 1 \notin 1..Len(q)
  BY <1>1
<1> HIDE DEF r
<1>3. ASSUME NEW d
      PROVE  d \in LateOf(k, r) <=> d \in LateOf(k, q) \/ (Risky(k, w) /\ d \in w.docs)
  <2>1. \A x : x \in LateOf(k, r) <=> \E i \in 1..Len(r) : Risky(k, r[i]) /\ x \in r[i].docs
    BY DEF LateOf, Risky
  <2>2. \A x : x \in LateOf(k, q) <=> \E i \in 1..Len(q) : Risky(k, q[i]) /\ x \in q[i].docs
    BY DEF LateOf, Risky
  <2>3. QED
    BY <1>1, <1>2, <2>1, <2>2
<1>4. QED
  BY <1>3 DEF r

LEMMA EffectLate ==
    ASSUME StoreType, NEW w \in WriteSet, Effect(w), UNCHANGED setting
    PROVE  Late' = IF Risky(kind, w) THEN Late \cup w.docs ELSE Late
<1>1. /\ kind' = kind /\ queue \in Seq(WriteSet) /\ Late = LateOf(kind, queue)
      /\ Late' = LateOf(kind, queue')
  BY LateIs DEF StoreType, setting, Late, LateOf, MayFail
<1>2. CASE w.docs = {}
  BY <1>1, <1>2 DEF Effect
<1>3. CASE w.docs # {} /\ kind = "solr"
  BY <1>1, <1>3 DEF LateOf, Risky
<1>4. CASE w.docs # {} /\ kind # "solr" /\ Queues(kind)
  <2>1. queue' = Append(queue, w)
    BY <1>4 DEF Effect
  <2>2. LateOf(kind, Append(queue, w))
          = LateOf(kind, queue) \cup (IF Risky(kind, w) THEN w.docs ELSE {})
    BY <1>1, LateAppend
  <2>3. QED
    BY <1>1, <2>1, <2>2
<1>5. CASE w.docs # {} /\ ~Queues(kind)
  <2>1. queue' = queue /\ ~Risky(kind, w)
    BY <1>5 DEF Effect, Queues, Risky
  <2>2. QED
    BY <1>1, <2>1
<1>6. QED
  BY <1>2, <1>3, <1>4, <1>5

-----------------------------------------------------------------------------
(* Steps of a call.                                                        *)

(* A step that leaves of a call what it asks, leaves all that is asked.     *)
LEMMA StillAsking ==
    ASSUME EngineInv, NEW c \in Callers, calls[c] # NoCall, NEW new,
           calls' = [calls EXCEPT ![c] = new], Same(calls[c], new)
    PROVE  Asking' = Asking
<1>1. AskOf(new) = AskOf(calls[c])
  <2>1. "op" \in DOMAIN calls[c]
    BY DEF EngineInv, Calls, CallType
  <2>2. new # NoCall
    BY <2>1 DEF Same, NoCall
  <2>3. QED
    BY <2>2 DEF AskOf, Same
<1>2. \A e \in Callers : calls'[e] = IF e = c THEN new ELSE calls[e]
  BY DEF EngineInv, Calls
<1>3. Asking' = [e \in Callers |-> AskOf(calls'[e])]
  BY DEF Asking, AskOf, Idle
<1>4. Asking = [e \in Callers |-> AskOf(calls[e])]
  BY AskingIs
<1>5. \A e \in Callers : AskOf(calls'[e]) = AskOf(calls[e])
  BY <1>1, <1>2
<1>6. QED
  BY <1>3, <1>4, <1>5

(* A write of a call is a step of the store.                               *)
LEMMA WriteTakes ==
    ASSUME EngineInv, NEW c \in Callers, calls[c] # NoCall, NEW w \in WriteSet, Effect(w),
           w.docs \subseteq calls[c].docs, w.to = calls[c].to,
           calls[c].op = "filter" \/ w.form \in {"any", "all"},
           kind = "opensearch" => (w.form = "all" <=> calls[c].op = "clear"),
           UNCHANGED <<setting, log>>, Asking' = Asking
    PROVE  Store!Take(c)
<1>1. /\ StoreType /\ kind \in Kinds /\ UNCHANGED kind /\ Settled \in [Docs -> Values]
      /\ CallType(calls[c])
  BY SettledType DEF EngineInv, StoreType, setting, Calls
<1>2. /\ ~Store!Idle(c) /\ Asking[c].docs = calls[c].docs /\ Asking[c].op = calls[c].op
      /\ Asking[c].to = calls[c].to
  BY <1>1, StoreIdle, AskOfCall
<1>3. UNCHANGED <<Grade, log, Asking>>
  BY <1>1, GradeStays
<1>4. Late' = IF \/ Grade = "forgetful"
                 \/ Grade = "reordering" /\ Asking[c].op = "clear"
              THEN Late \cup w.docs ELSE Late
  <2>1. Late' = IF Risky(kind, w) THEN Late \cup w.docs ELSE Late
    BY <1>1, EffectLate
  <2>2. Grade = "forgetful" <=> kind = "meilisearch"
    BY <1>1 DEF Grade, Kinds
  <2>3. Grade = "reordering" <=> kind = "opensearch"
    BY <1>1 DEF Grade, Kinds
  <2>4. QED
    BY <1>2, <2>1, <2>2, <2>3 DEF Risky
<1> DEFINE changed == {d \in w.docs : Applies(kind, w, d, Settled[d])}
<1>5. Settled' = [d \in Docs |-> IF d \in changed THEN Asking[c].to ELSE Settled[d]]
  <2>1. Settled' = After(kind, w, Settled)
    BY <1>1, EffectSettles
  <2>2. QED
    BY <1>2, <2>1 DEF After, Applies
<1>6. changed \in IF Asking[c].op = "filter" THEN SUBSET w.docs ELSE {w.docs}
  BY <1>2 DEF Applies
<1>7. w.docs \in SUBSET Asking[c].docs
  BY <1>2
<1> HIDE DEF changed
<1>8. QED
  BY <1>2, <1>3, <1>4, <1>5, <1>6, <1>7 DEF Store!Take

(* A call ends, or the row of it is about to say so.                       *)
LEMMA EndStillAsks ==
    ASSUME EngineInv, NEW c \in Callers, calls[c] # NoCall, NEW raised, Ends(c, raised)
    PROVE  Asking' = Asking
<1> DEFINE new == [calls[c] EXCEPT !.at = "close", !.raised = raised]
<1>1. CallType(calls[c])
  BY DEF EngineInv, Calls
<1>2. calls' = [calls EXCEPT ![c] = new]
  BY DEF Ends
<1>3. Same(calls[c], new)
  BY <1>1 DEF CallType, FilterType, Same
<1> HIDE DEF new
<1>4. QED
  BY <1>2, <1>3, StillAsking

LEMMA SendTakes ==
    ASSUME EngineInv, NEW c \in Callers, Send(c)
    PROVE  Store!Take(c)
<1>1. PICK docs \in SUBSET calls[c].left : \E there, present, new :
      \E answer \in Answers(kind, SendOp(calls[c]), docs, there, present) :
        /\ calls[c] # NoCall /\ calls[c].at = "send" /\ CallType(calls[c])
        /\ calls' = [calls EXCEPT ![c] = new]
        /\ Sent(calls[c], docs, answer, new)
        /\ Effect(Write(answer.done, calls[c].to,
                        IF SendOp(calls[c]) = "clear" THEN "all" ELSE "any"))
  BY SendGives
<1>2. PICK there, present, new :
      \E answer \in Answers(kind, SendOp(calls[c]), docs, there, present) :
        /\ calls[c] # NoCall /\ calls[c].at = "send" /\ CallType(calls[c])
        /\ calls' = [calls EXCEPT ![c] = new]
        /\ Sent(calls[c], docs, answer, new)
        /\ Effect(Write(answer.done, calls[c].to,
                        IF SendOp(calls[c]) = "clear" THEN "all" ELSE "any"))
  BY <1>1
<1>3. PICK answer \in Answers(kind, SendOp(calls[c]), docs, there, present) :
        /\ calls[c] # NoCall /\ calls[c].at = "send" /\ CallType(calls[c])
        /\ calls' = [calls EXCEPT ![c] = new]
        /\ Sent(calls[c], docs, answer, new)
        /\ Effect(Write(answer.done, calls[c].to,
                        IF SendOp(calls[c]) = "clear" THEN "all" ELSE "any"))
  BY <1>2
<1>4. PICK w : w = Write(answer.done, calls[c].to,
                         IF SendOp(calls[c]) = "clear" THEN "all" ELSE "any")
  OBVIOUS
<1>5. answer.done \subseteq docs
  <2>1. SendOp(calls[c]) \in {"add", "remove", "update", "clear"} /\ kind \in Kinds
    BY <1>3 DEF CallType, SendOp, Operation, Unlogged, EngineInv, StoreType
  <2>2. QED
    BY <1>3, <2>1, AnswerTaken
<1>6. /\ w \in WriteSet /\ Effect(w) /\ w.docs = answer.done /\ w.to = calls[c].to
      /\ w.form \in {"any", "all"} /\ (w.form = "all" <=> calls[c].op = "clear")
  <2>1. SendOp(calls[c]) = "clear" <=> calls[c].op = "clear"
    BY DEF SendOp
  <2>2. calls[c].op = "clear" => calls[c].to = Absent
    BY <1>3 DEF CallType
  <2>3. calls[c].left \subseteq Docs /\ calls[c].to \in Values
    BY <1>3 DEF CallType
  <2>4. QED
    BY <1>3, <1>4, <1>5, <2>1, <2>2, <2>3 DEF Write, WriteSet
<1>7. w.docs \subseteq calls[c].docs
  BY <1>3, <1>5, <1>6 DEF CallType
<1>8. UNCHANGED <<setting, log>>
  BY DEF Send
<1>9. Asking' = Asking
  BY <1>3, StillAsking DEF Sent
<1>10. QED
  BY <1>3, <1>6, <1>7, <1>8, <1>9, WriteTakes

LEMMA TaskTakes ==
    ASSUME EngineInv, NEW c \in Callers, DeleteTask(c)
    PROVE  Store!Take(c)
<1>1. PICK call : call = calls[c]
  OBVIOUS
<1>2. /\ call.at = "scan" /\ call # NoCall /\ kind = "meilisearch" /\ UNCHANGED <<setting, log>>
  BY <1>1 DEF DeleteTask, NoCall
<1>3. PICK answer \in Failing \cup MeilisearchRequest(Docs) :
        Effect(Write(answer.done, Absent, call.form)) /\ Ends(c, answer.raised)
  BY <1>1 DEF DeleteTask
<1>4. answer.done \subseteq Docs
  BY DEF Failing, MeilisearchRequest, Single, Whole, Unsent, Torn, Answer
<1>5. CallType(call) /\ FilterType(call) /\ call.op = "filter"
  BY <1>1, <1>2 DEF EngineInv, Calls, CallType
<1>6. PICK w : w = Write(answer.done, Absent, call.form)
  OBVIOUS
<1>7. w \in WriteSet /\ Effect(w) /\ w.docs \subseteq call.docs /\ w.to = call.to
  BY <1>3, <1>4, <1>5, <1>6 DEF Write, WriteSet, FilterType, Values
<1>8. Asking' = Asking
  BY <1>1, <1>2, <1>3, EndStillAsks
<1>9. QED
  BY <1>1, <1>2, <1>5, <1>7, <1>8, WriteTakes

(* The steps of a scan change nothing that the store has.                   *)
LEMMA NothingChanges ==
    ASSUME UNCHANGED <<kind, stored, queue, log, Asking>>
    PROVE  UNCHANGED Store!storeVars
<1>1. UNCHANGED <<Grade, Late, Settled>>
  BY GradeStays, LateStays, SettledStays
<1>2. QED
  BY <1>1 DEF Store!storeVars

LEMMA ScanChanges ==
    ASSUME EngineInv, NEW c \in Callers, Scan(c)
    PROVE  UNCHANGED Store!storeVars
<1>1. calls[c].at = "scan" /\ calls[c] # NoCall /\ UNCHANGED <<kind, stored, queue, log>>
  BY DEF Scan, NoCall, setting
<1>2. CallType(calls[c])
  BY <1>1 DEF EngineInv, Calls
<1>3. ASSUME NEW ids, NEW new, calls' = [calls EXCEPT ![c] = new],
             \/ new = [calls[c] EXCEPT !.left = ids, !.offset = @ + Page]
             \/ new = [calls[c] EXCEPT !.left = ids, !.at = "send"]
      PROVE  Asking' = Asking
  <2>1. Same(calls[c], new)
    BY <1>2, <1>3 DEF CallType, FilterType, Same
  <2>2. QED
    BY <1>1, <1>3, <2>1, StillAsking
<1>4. \/ \E raised : Ends(c, raised)
      \/ \E ids : calls' = [calls EXCEPT ![c].left = ids, ![c].offset = @ + Page]
      \/ \E ids : calls' = [calls EXCEPT ![c].left = ids, ![c].at = "send"]
  BY DEF Scan, ScanPage
<1>5. Asking' = Asking
  <2>1. CASE \E raised : Ends(c, raised)
    BY <1>1, <2>1, EndStillAsks
  <2>2. CASE \E ids : calls' = [calls EXCEPT ![c].left = ids, ![c].offset = @ + Page]
    BY <1>3, <2>2
  <2>3. CASE \E ids : calls' = [calls EXCEPT ![c].left = ids, ![c].at = "send"]
    BY <1>3, <2>3
  <2>4. QED
    BY <1>4, <2>1, <2>2, <2>3
<1>6. QED
  BY <1>1, <1>5, NothingChanges

(* A call that is over asks for nothing.                                   *)
LEMMA OverAsks ==
    ASSUME EngineInv, NEW c \in Callers, calls' = [calls EXCEPT ![c] = NoCall]
    PROVE  Asking' = [Asking EXCEPT ![c] = Store!NoWrite]
<1>1. \A e \in Callers : calls'[e] = IF e = c THEN NoCall ELSE calls[e]
  BY DEF EngineInv, Calls
<1>2. Asking' = [e \in Callers |-> AskOf(calls'[e])]
  BY DEF Asking, AskOf, Idle
<1>3. Asking = [e \in Callers |-> AskOf(calls[e])]
  BY AskingIs
<1>4. AskOf(NoCall) = Store!NoWrite
  BY DEF AskOf, Store!NoWrite
<1>5. QED
  BY <1>1, <1>2, <1>3, <1>4

LEMMA CloseConfirms ==
    ASSUME EngineInv, RowInv, NEW c \in Callers, Close(c)
    PROVE  Store!Confirm(c) \/ Store!GiveUp(c)
<1> DEFINE call == calls[c]
<1>1. /\ call.at = "close" /\ call # NoCall /\ calls' = [calls EXCEPT ![c] = NoCall]
      /\ UNCHANGED <<kind, stored, queue>>
  BY ClosingIs DEF setting
<1>11. PICK reason : reason = Reason(c)
  OBVIOUS
<1>9. log' = [log EXCEPT ![c] =
         IF log[c] = NoRow \/ reason # "" THEN @ ELSE Outcome(call.raised)]
  BY <1>11, ClosingIs
<1>2. /\ CallType(call) /\ Holds(call, kind, keyed, stored, queue, Settled)
      /\ log[c] = IF call.op \in Unlogged THEN NoRow ELSE "pending"
      /\ log = [e \in Callers |-> log[e]] /\ kind \in Kinds
  BY <1>1 DEF EngineInv, Calls, RowInv, Rows, CallOK, Idle
<1>3. UNCHANGED <<Grade, Late, Settled>>
  BY <1>1, GradeStays, LateStays, SettledStays
<1>4. ~Store!Idle(c) /\ Asking' = [Asking EXCEPT ![c] = Store!NoWrite]
  BY <1>1, StoreIdle, OverAsks
<1>5. CASE log[c] = NoRow \/ reason # ""
  <2>1. log' = log
    BY <1>2, <1>5, <1>9
  <2>2. QED
    BY <1>3, <1>4, <2>1 DEF Store!GiveUp
<1>6. CASE log[c] # NoRow /\ reason = "" /\ call.raised = "backend"
  <2>1. log[c] = "pending" /\ log' = [log EXCEPT ![c] = "failed"]
    BY <1>2, <1>6, <1>9 DEF Outcome
  <2>2. QED
    BY <1>3, <1>4, <2>1 DEF Store!GiveUp
<1>7. CASE log[c] # NoRow /\ reason = "" /\ call.raised = "no"
  <2>1. log[c] = "pending" /\ log' = [log EXCEPT ![c] = "success"]
    BY <1>2, <1>7, <1>9 DEF Outcome
  <2>2. ASSUME Grade = "sure", NEW d \in Asking[c].own PROVE Settled[d] = Asking[c].to
    <3>1. kind \in Sure
      BY <1>2, <2>2 DEF Grade, Sure, Kinds
    <3>2. /\ Asking[c].to = call.to
          /\ Asking[c].own = IF call.op = "filter" THEN {} ELSE call.sole
      BY <1>2, StoreIdle, AskOfCall
    <3>3. QED
      BY <1>1, <1>2, <1>7, <2>2, <3>1, <3>2 DEF Holds, Puts
  <2>3. QED
    BY <1>3, <1>4, <2>1, <2>2 DEF Store!Confirm
<1>8. call.raised \in Unhandled => log[c] = NoRow \/ reason # ""
  BY <1>11 DEF Reason, Unhandled
<1>10. QED
  BY <1>2, <1>5, <1>6, <1>7, <1>8 DEF CallType, Raised, Unhandled

LEMMA StopGivesUp ==
    ASSUME EngineInv, NEW c \in Callers, Stop(c)
    PROVE  Store!GiveUp(c)
<1>1. /\ calls[c] # NoCall /\ calls' = [calls EXCEPT ![c] = NoCall]
      /\ UNCHANGED <<kind, stored, queue, log>>
  BY DEF Stop, Idle, setting
<1>2. UNCHANGED <<Grade, Late, Settled, log>>
  BY <1>1, GradeStays, LateStays, SettledStays
<1>3. ~Store!Idle(c) /\ Asking' = [Asking EXCEPT ![c] = Store!NoWrite]
  BY <1>1, StoreIdle, OverAsks
<1>4. QED
  BY <1>2, <1>3 DEF Store!GiveUp

-----------------------------------------------------------------------------
(* Steps of the engine.                                                    *)

(* A write that overtakes clears: a document is left as it would have been, *)
(* or it is absent, and a clear that was overtaken names it.                *)
ClearsBefore(q, i) == \A j \in 1..(i - 1) : q[j].form = "all"
ClearedBefore(q, i, d) == \E j \in 1..(i - 1) : d \in q[j].docs

LEMMA Overtaken ==
    ASSUME NEW k, NEW q \in Seq(WriteSet), NEW i \in 1..Len(q), NEW st, NEW d \in Docs,
           ClearsBefore(q, i), NEW r, r = RemoveAt(q, i), NEW tt, tt = After(k, q[i], st)
    PROVE  \/ Settle(k, r, tt)[d] = Settle(k, q, st)[d]
           \/ Settle(k, r, tt)[d] = Absent /\ ClearedBefore(q, i, d)
<1> DEFINE w == q[i]
           hit == ClearedBefore(q, i, d)
<1>1. PICK n : n = Len(q)
  OBVIOUS
<1>2. /\ n \in Nat /\ i \in 1..n /\ n - 1 \in Nat /\ r \in Seq(WriteSet) /\ Len(r) = n - 1
      /\ \A j \in 1..(n - 1) : r[j] = IF j < i THEN q[j] ELSE q[j + 1]
      /\ \A j \in 1..n : q[j] \in WriteSet
  <2>1. /\ n \in Nat /\ i \in 1..n /\ n - 1 \in Nat
        /\ \A j \in 1..n : q[j] \in WriteSet
    BY <1>1
  <2>2. /\ r \in Seq(WriteSet) /\ Len(r) = Len(q) - 1
        /\ \A j \in 1..(Len(q) - 1) : r[j] = IF j < i THEN q[j] ELSE q[j + 1]
    BY RemovedAt
  <2>3. QED
    BY <1>1, <2>1, <2>2
<1>3. PICK g : Settling(g, k, q, st, n) /\ Settle(k, q, st) = g[n]
  BY <1>1, <1>2, SettleSettles
<1>4. PICK h : Settling(h, k, r, tt, n - 1) /\ Settle(k, r, tt) = h[n - 1]
  <2>1. Len(r) \in Nat
    BY <1>2
  <2>2. PICK h : Settling(h, k, r, tt, Len(r)) /\ Settle(k, r, tt) = h[Len(r)]
    BY <2>1, SettleSettles
  <2>3. QED
    BY <1>2, <2>2
<1>5. /\ g[0] = st /\ h[0] = After(k, w, st)
      /\ \A l \in 1..n : g[l] = After(k, q[l], g[l - 1])
      /\ \A l \in 1..(n - 1) : h[l] = After(k, r[l], h[l - 1])
  <2>1. 0 \in 0..n /\ \A l \in 1..n : l \in 0..n /\ l # 0
    BY <1>2
  <2>2. 0 \in 0..(n - 1) /\ \A l \in 1..(n - 1) : l \in 0..(n - 1) /\ l # 0
    BY <1>2
  <2>3. g[0] = st /\ \A l \in 1..n : g[l] = After(k, q[l], g[l - 1])
    BY <1>3, <2>1 DEF Settling
  <2>4. h[0] = tt /\ \A l \in 1..(n - 1) : h[l] = After(k, r[l], h[l - 1])
    BY <1>4, <2>2 DEF Settling
  <2>5. QED
    BY <2>3, <2>4
<1> HIDE DEF w, hit
<1>6. ASSUME NEW l \in 0..(i - 1)
      PROVE  h[l][d] = After(k, w, g[l])[d] \/ (hit /\ h[l][d] = Absent)
  <2> DEFINE bad == {m \in 0..(i - 1) :
                       ~ (h[m][d] = After(k, w, g[m])[d] \/ (hit /\ h[m][d] = Absent))}
  <2> SUFFICES ASSUME bad # {} PROVE FALSE
    BY <1>6
  <2>1. PICK m \in bad : \A j \in bad : m <= j
    <3>1. bad \in SUBSET Nat
      BY <1>2
    <3> HIDE DEF bad
    <3>2. QED
      BY <3>1, LeastNumber
  <2>2. m # 0
    BY <1>5
  <2>3. /\ m \in 1..(i - 1) /\ m \in 1..n /\ m \in 1..(n - 1) /\ m < i
        /\ m - 1 \in 0..(i - 1) /\ ~ (m <= m - 1)
    BY <1>2, <2>2
  <2>4. h[m - 1][d] = After(k, w, g[m - 1])[d] \/ (hit /\ h[m - 1][d] = Absent)
    <3>1. m - 1 \notin bad
      BY <2>1, <2>3
    <3>2. QED
      BY <2>3, <3>1
  <2>5. /\ q[m].form = "all" /\ q[m].to = Absent
        /\ g[m] = After(k, q[m], g[m - 1]) /\ h[m] = After(k, q[m], h[m - 1])
    BY <1>2, <1>5, <2>3 DEF WriteSet, ClearsBefore
  <2>6. CASE d \in q[m].docs
    <3>1. hit
      BY <2>3, <2>6 DEF hit, ClearedBefore
    <3>2. h[m][d] = Absent
      BY <2>5, <2>6, AfterDoc
    <3>3. QED
      BY <3>1, <3>2
  <2>7. CASE d \notin q[m].docs
    <3>1. h[m][d] = h[m - 1][d] /\ g[m][d] = g[m - 1][d]
      BY <2>5, <2>7, AfterDoc
    <3>2. After(k, w, g[m])[d] = After(k, w, g[m - 1])[d]
      BY <3>1 DEF After
    <3>3. QED
      BY <2>4, <3>1, <3>2
  <2>8. QED
    BY <2>6, <2>7
<1>7. ASSUME NEW l \in (i - 1)..(n - 1) PROVE h[l][d] = g[l + 1][d] \/ (hit /\ h[l][d] = Absent)
  <2> DEFINE bad == {m \in (i - 1)..(n - 1) :
                       ~ (h[m][d] = g[m + 1][d] \/ (hit /\ h[m][d] = Absent))}
  <2> SUFFICES ASSUME bad # {} PROVE FALSE
    BY <1>7
  <2>1. PICK m \in bad : \A j \in bad : m <= j
    <3>1. bad \in SUBSET Nat
      BY <1>2
    <3> HIDE DEF bad
    <3>2. QED
      BY <3>1, LeastNumber
  <2>2. CASE m = i - 1
    <3>1. g[i] = After(k, w, g[i - 1]) /\ m + 1 = i /\ m \in 0..(i - 1)
      BY <1>2, <1>5, <2>2 DEF w
    <3>2. h[m][d] = g[m + 1][d] \/ (hit /\ h[m][d] = Absent)
      BY <1>6, <2>2, <3>1
    <3>3. QED
      BY <3>2
  <2>3. CASE m # i - 1
    <3>1. /\ m \in 1..(n - 1) /\ m - 1 \in (i - 1)..(n - 1) /\ ~ (m <= m - 1) /\ ~ (m < i)
          /\ m + 1 \in 1..n /\ (m + 1) - 1 = m /\ (m - 1) + 1 = m
      BY <1>2, <2>3
    <3>2. h[m - 1][d] = g[m][d] \/ (hit /\ h[m - 1][d] = Absent)
      <4>1. m - 1 \notin bad
        BY <2>1, <3>1
      <4>2. QED
        BY <3>1, <4>1
    <3>3. PICK x : x = q[m + 1]
      OBVIOUS
    <3>4. h[m] = After(k, x, h[m - 1]) /\ g[m + 1] = After(k, x, g[m])
      BY <1>2, <1>5, <3>1, <3>3
    <3>5. CASE h[m - 1][d] = g[m][d]
      BY <3>4, <3>5 DEF After
    <3>6. CASE hit /\ h[m - 1][d] = Absent
      <4>1. ~ Reads(k, x.form, Absent)
        BY DEF Reads
      <4>2. h[m][d] = Absent \/ h[m][d] = g[m + 1][d]
        BY <3>4, <3>6, <4>1 DEF After, Applies
      <4>3. QED
        BY <3>6, <4>2
    <3>7. QED
      BY <3>2, <3>5, <3>6
  <2>4. QED
    BY <2>2, <2>3
<1>8. Settle(k, r, tt)[d] = h[n - 1][d] /\ n - 1 \in (i - 1)..(n - 1) /\ (n - 1) + 1 = n
  BY <1>2, <1>4
<1>9. h[n - 1][d] = g[n][d] \/ (hit /\ h[n - 1][d] = Absent)
  BY <1>7, <1>8
<1>10. QED
  BY <1>3, <1>8, <1>9 DEF hit

(* The engine applies a write: it goes back on one, or nothing changes.     *)
LEMMA ApplyGoesBack ==
    ASSUME EngineInv, Apply
    PROVE  Store!GoBack \/ UNCHANGED Store!storeVars
<1>1. PICK i \in 1..Len(queue) :
        /\ \A j \in 1..(i - 1) : kind = "opensearch" /\ queue[j].form = "all"
        /\ queue' = RemoveAt(queue, i)
        /\ \/ stored' = Written(queue[i], stored)
           \/ kind = "meilisearch" /\ UNCHANGED stored
  BY DEF Apply
<1>2. /\ StoreType /\ StoreType' /\ UNCHANGED <<kind, log, calls>> /\ queue \in Seq(WriteSet)
      /\ kind \in Kinds
  BY ApplySettles DEF EngineInv, StoreType, Apply, setting
<1>3. /\ UNCHANGED <<Grade, log, Asking>>
      /\ Settled' \in [Docs -> Values]
  <2>1. Settled' \in [Docs -> Values]
    <3>1. Settled' = Settle(kind', queue', stored')
      BY DEF Settled, Settle, Written, After, Applies
    <3>2. QED
      BY <1>2, <3>1, SettleType DEF StoreType
  <2>2. Asking' = Asking
    BY <1>2 DEF Asking, Idle
  <2>3. QED
    BY <1>2, <2>1, <2>2, GradeStays
<1>4. Late' \subseteq Late
  <2>1. \A j \in 1..Len(queue') : \E l \in 1..Len(queue) : queue'[j] = queue[l]
    <3>1. PICK q, r : q = queue /\ r = RemoveAt(q, i)
      OBVIOUS
    <3>2. \A j \in 1..Len(r) : \E l \in 1..Len(q) : r[j] = q[l]
      BY <1>2, <3>1, RemovedAt
    <3>3. QED
      BY <1>1, <3>1, <3>2
  <2>2. QED
    BY <1>2, <2>1 DEF Late, MayFail
<1>5. \A l \in 1..Len(queue) : MayFail(queue[l]) => queue[l].docs \subseteq Late
  BY DEF Late
<1>6. ASSUME NEW d \in Docs
      PROVE  /\ d \notin Late => Settled'[d] = Settled[d]
             /\ kind = "opensearch" => Settled'[d] \in {Settled[d], Absent}
  <2>1. CASE kind = "meilisearch"
    <3>1. ASSUME d \notin Late PROVE Settled'[d] = Settled[d]
      <4>1. \A l \in 1..Len(queue) : d \notin queue[l].docs
        BY <1>5, <2>1, <3>1 DEF MayFail
      <4>2. PICK v : v = stored[d]
        OBVIOUS
      <4>3. Quiet(kind, stored, queue, d, v)
        BY <4>1, <4>2 DEF Quiet, Spares, Applies
      <4>4. Settled[d] = v
        BY <1>2, <4>3, QuietSettled
      <4>5. Quiet(kind', stored', queue', d, v)
        BY <1>2, <4>3, ApplySettles
      <4>6. Settled'[d] = v
        <5>1. PICK k, q, st : k = kind' /\ q = queue' /\ st = stored'
          OBVIOUS
        <5>2. Settle(k, q, st)[d] = v
          <6>1. Quiet(k, st, q, d, v) /\ q \in Seq(WriteSet)
            BY <1>2, <4>5, <5>1 DEF StoreType
          <6>2. QED
            BY <6>1, SettleSpares
        <5>3. Settled' = Settle(kind', queue', stored')
          BY DEF Settled, Settle, Written, After, Applies
        <5>4. QED
          BY <5>1, <5>2, <5>3
      <4>7. QED
        BY <4>4, <4>6
    <3>2. QED
      BY <2>1, <3>1
  <2>2. CASE kind = "opensearch"
    <3>1. PICK k, q, st : k = kind /\ q = queue /\ st = stored
      OBVIOUS
    <3> DEFINE r == RemoveAt(q, i)
               tt == After(k, q[i], st)
    <3> HIDE DEF r, tt
    <3>2. q \in Seq(WriteSet) /\ i \in 1..Len(q) /\ ClearsBefore(q, i)
      BY <1>1, <1>2, <3>1 DEF ClearsBefore
    <3>3. \/ Settle(k, r, tt)[d] = Settle(k, q, st)[d]
          \/ Settle(k, r, tt)[d] = Absent /\ ClearedBefore(q, i, d)
      <4>1. PICK x, y : x = r /\ y = tt
        OBVIOUS
      <4>2. x = RemoveAt(q, i) /\ y = After(k, q[i], st)
        BY <4>1 DEF r, tt
      <4>3. \/ Settle(k, x, y)[d] = Settle(k, q, st)[d]
            \/ Settle(k, x, y)[d] = Absent /\ ClearedBefore(q, i, d)
        BY <3>2, <4>2, Overtaken
      <4>4. QED
        BY <4>1, <4>3
    <3>4. Settled' = Settle(kind', queue', stored') /\ Settled = Settle(k, q, st)
      BY <3>1, SettledIs DEF Settled, Settle, Written, After, Applies
    <3>5. queue' = r /\ stored' = tt /\ kind' = k
      BY <1>1, <1>2, <2>2, <3>1, WrittenIs DEF r, tt
    <3>6. Settled'[d] = Settle(k, r, tt)[d]
      BY <3>4, <3>5
    <3>7. ClearedBefore(q, i, d) => d \in Late
      <4> SUFFICES ASSUME NEW j \in 1..(i - 1), d \in q[j].docs PROVE d \in Late
        BY DEF ClearedBefore
      <4>1. j \in 1..Len(queue) /\ MayFail(queue[j])
        BY <1>1, <2>2, <3>1 DEF MayFail
      <4>2. QED
        BY <1>5, <3>1, <4>1
    <3>8. QED
      BY <2>2, <3>3, <3>4, <3>6, <3>7
  <2>3. CASE kind \notin {"meilisearch", "opensearch"}
    BY <1>2, <2>3, ApplySettles
  <2>4. QED
    BY <2>1, <2>2, <2>3
<1>7. CASE Late = {}
  <2>1. Settled \in [Docs -> Values]
    BY <1>2, SettledType
  <2>2. Settled' = Settled
    BY <1>3, <1>6, <1>7, <2>1
  <2>3. QED
    BY <1>3, <1>4, <1>7, <2>2 DEF Store!storeVars
<1>8. CASE Late # {}
  <2>1. Grade = "reordering" => kind = "opensearch"
    BY <1>2 DEF Grade, Kinds
  <2>2. \A d \in Docs \ Late : Settled'[d] = Settled[d]
    BY <1>6
  <2>3. Grade = "reordering" => \A d \in Docs : Settled'[d] \in {Settled[d], Absent}
    BY <1>6, <2>1
  <2>4. Settled' \in [Docs -> {Absent, Null, Value}]
    BY <1>3 DEF Values
  <2>5. QED
    BY <1>3, <1>4, <1>8, <2>2, <2>3, <2>4 DEF Store!GoBack
<1>9. QED
  BY <1>7, <1>8

(* The index is made anew or deleted.                                       *)
LEMMA DroppedResets ==
    ASSUME EngineInv, kind' = kind, stored' = NoDocs, queue' = <<>>, calls' = Shared(Docs),
           log' = log
    PROVE  Store!Reset
<1>1. Settled' = [d \in Docs |-> Absent]
  <2>1. Settled' = Settle(kind', queue', stored')
    BY DEF Settled, Settle, Written, After, Applies
  <2>2. QED
    BY <2>1, SettleEmpty DEF NoDocs
<1>2. Late' = {}
  BY DEF Late
<1>3. Asking' = Store!Yielding(Docs)
  <2>1. Asking' = [e \in Callers |-> AskOf(calls'[e])]
    BY DEF Asking, AskOf, Idle
  <2>2. \A e \in Callers : AskOf(Shared(Docs)[e]) = Store!Yielding(Docs)[e]
    BY YieldingIs
  <2>3. Store!Yielding(Docs) = [e \in Callers |-> Store!Yielding(Docs)[e]]
    BY DEF Store!Yielding
  <2>4. QED
    BY <2>1, <2>2, <2>3
<1>4. QED
  BY <1>1, <1>2, <1>3, GradeStays DEF Store!Reset

LEMMA CreateResets ==
    ASSUME EngineInv, CreateIndex
    PROVE  Store!Reset \/ UNCHANGED Store!storeVars
<1>1. CASE kind = "dummy"
  <2>1. /\ stored' = NoDocs /\ calls' = Shared(Docs) /\ queue' = queue
        /\ kind' = kind /\ log' = log
    BY <1>1 DEF CreateIndex, setting
  <2>2. queue = <<>>
    BY <1>1 DEF EngineInv, StoreType, Queues
  <2>3. QED
    BY <2>1, <2>2, DroppedResets
<1>2. CASE kind # "dummy"
  <2>1. UNCHANGED <<kind, stored, queue, calls, log>>
    BY <1>2 DEF CreateIndex, setting
  <2>2. Asking' = Asking
    BY <2>1 DEF Asking, Idle
  <2>3. QED
    BY <2>1, <2>2, NothingChanges
<1>3. QED
  BY <1>1, <1>2

LEMMA SendingAsks ==
    ASSUME EngineInv, NEW c \in Callers, NEW op \in Operation \ {"filter"},
           NEW docs \in SUBSET Docs, NEW to \in Values, NEW logged \in BOOLEAN,
           logged <=> op \notin Unlogged,
           op = "clear" => to = Absent, Begin(c, Sending(op, docs, to), logged)
    PROVE  Store!Ask(c)
<1>1. PICK call : call = Sending(op, docs, to)
  OBVIOUS
<1>2. CallType(call) /\ call.op = op /\ call.sole = call.docs \ Busy
  BY <1>1 DEF CallType, Sending, Raised
<1>3. QED
  BY <1>1, <1>2, BeginAsks

LEMMA FilteringAsks ==
    ASSUME EngineInv, NEW c \in Callers, DeleteByFilter(c)
    PROVE  Store!Ask(c)
<1>0. KeptOrders \subseteq Rankings \cup {NoOrder}
  BY DEF KeptOrders
<1>1. PICK form \in Forms, order \in KeptOrders :
        Begin(c, [at |-> "scan", op |-> "filter", docs |-> Docs, left |-> {}, to |-> Absent,
                  form |-> form, order |-> order, offset |-> 0, before |-> stored, failed |-> FALSE,
                  raised |-> "no", sole |-> IF queue = <<>> THEN Docs \ Busy ELSE {}], TRUE)
  BY DEF DeleteByFilter
<1>2. PICK call : call =
        [at |-> "scan", op |-> "filter", docs |-> Docs, left |-> {}, to |-> Absent,
         form |-> form, order |-> order, offset |-> 0, before |-> stored, failed |-> FALSE,
         raised |-> "no", sole |-> IF queue = <<>> THEN Docs \ Busy ELSE {}]
  OBVIOUS
<1>3. CallType(call) /\ call.op = "filter"
  BY <1>0, <1>1, <1>2 DEF CallType, FilterType, EngineInv, StoreType, Values, Operation, Raised
<1>4. call.op \notin Unlogged
  BY <1>3 DEF Unlogged
<1>5. QED
  BY <1>1, <1>2, <1>3, <1>4, BeginAsks

LEMMA StoreInit == Init => Store!Init
<1> SUFFICES ASSUME Init PROVE Store!Init
  OBVIOUS
<1>1. EngineInv
  BY EngineInit
<1>2. /\ queue = <<>> /\ calls = [c \in Callers |-> NoCall] /\ log = [c \in Callers |-> NoRow]
      /\ kind \in Kinds
  BY DEF Init, EnginesInit
<1>3. Grade \in Store!Grades
  BY <1>2 DEF Grade, Kinds, Store!Grades
<1>4. Settled \in [Docs -> {Absent, Null, Value}]
  BY <1>1, SettledType DEF EngineInv, Values
<1>5. Late = {}
  BY <1>2 DEF Late
<1>6. Asking = [c \in Callers |-> Store!NoWrite]
  BY <1>2 DEF Asking, Idle, Store!NoWrite
<1>7. log = [c \in Callers |-> "none"]
  BY <1>2 DEF NoRow
<1>8. QED
  BY <1>3, <1>4, <1>5, <1>6, <1>7 DEF Store!Init

LEMMA StoreStep == EngineInv /\ RowInv /\ [Next]_vars => [Store!Next]_(Store!storeVars)
<1> SUFFICES ASSUME EngineInv, RowInv, [Next]_vars
             PROVE  Store!Next \/ UNCHANGED Store!storeVars
  OBVIOUS
<1>1. CASE UNCHANGED engineVars
  <2>1. UNCHANGED <<kind, stored, queue, calls, log>>
    BY <1>1 DEF engineVars
  <2>2. Asking' = Asking
    BY <2>1 DEF Asking, Idle
  <2>3. QED
    BY <2>1, <2>2, NothingChanges
<1>2. ASSUME NEW c \in Callers,
             \/ IndexDocuments(c) \/ RemoveDocuments(c) \/ UpdateDocuments(c)
             \/ ClearDocuments(c) \/ DeleteByFilter(c)
      PROVE  Store!Ask(c)
  <2>1. CASE IndexDocuments(c)
    <3>1. PICK docs \in SUBSET Docs, to \in Contents : Begin(c, Sending("add", docs, to), TRUE)
      BY <2>1 DEF IndexDocuments
    <3>2. to \in Values
      BY EnginesAssumption DEF Values
    <3>3. QED
      BY <3>1, <3>2, SendingAsks DEF Operation, Unlogged
  <2>2. CASE RemoveDocuments(c)
    <3>1. PICK docs \in SUBSET Docs : Begin(c, Sending("remove", docs, Absent), TRUE)
      BY <2>2 DEF RemoveDocuments
    <3>2. QED
      BY <3>1, SendingAsks DEF Operation, Unlogged, Values
  <2>3. CASE UpdateDocuments(c)
    <3>1. PICK docs \in SUBSET Docs, to \in Contents : Begin(c, Sending("update", docs, to), FALSE)
      BY <2>3 DEF UpdateDocuments
    <3>2. to \in Values
      BY EnginesAssumption DEF Values
    <3>3. QED
      BY <3>1, <3>2, SendingAsks DEF Operation, Unlogged
  <2>4. CASE ClearDocuments(c)
    <3>1. Begin(c, Sending("clear", Docs, Absent), FALSE)
      BY <2>4 DEF ClearDocuments
    <3>2. QED
      BY <3>1, SendingAsks DEF Operation, Unlogged, Values
  <2>5. CASE DeleteByFilter(c)
    BY <2>5, FilteringAsks
  <2>6. QED
    BY <1>2, <2>1, <2>2, <2>3, <2>4, <2>5
<1>3. CASE DeleteIndex
  <2>1. kind' = kind /\ stored' = NoDocs /\ queue' = <<>> /\ calls' = Shared(Docs) /\ log' = log
    BY <1>3 DEF DeleteIndex, setting
  <2>2. Store!Reset
    BY <2>1, DroppedResets
  <2>3. QED
    BY <2>2 DEF Store!Next
<1>4. ASSUME NEW c \in Callers, Scan(c) \/ DeleteTask(c) \/ Send(c) \/ Close(c) \/ Stop(c)
      PROVE  Store!Take(c) \/ Store!Confirm(c) \/ Store!GiveUp(c) \/ UNCHANGED Store!storeVars
  BY <1>4, ScanChanges, TaskTakes, SendTakes, CloseConfirms, StopGivesUp
<1>5. QED
  BY <1>1, <1>2, <1>3, <1>4, ApplyGoesBack, CreateResets DEF Next, EnginesNext, vars, Store!Next

(* The services keep the promise of DocumentStore: whatever order an engine *)
(* applies its queue in and whichever requests of a call fail, a document   *)
(* changes only to what a call under way writes, and a success is recorded  *)
(* only when the whole call is done: services/documents.py, backends/.      *)
THEOREM ImplementsStore == Spec => StoreSpec
<1>1. Init /\ [][Next]_vars => Store!Init /\ [][Store!Next]_(Store!storeVars)
  BY EngineInit, EngineStep, RowInit, RowStep, StoreInit, StoreStep, PTL
<1>2. QED
  BY <1>1 DEF Spec, StoreSpec, Store!Spec

-----------------------------------------------------------------------------
(* The tables of the database.                                             *)

(* Operations on a table of the database.                                  *)
Renamed(names, old, new) ==
    Restrict(names, DOMAIN names \ {old}) ++ Entry(new, names[old])
Mapping(f) == f = [x \in DOMAIN f |-> f[x]]
Put(db, t, table) == [db EXCEPT ![t] = table]

LEMMA AddIndexesIs ==
    ASSUME NEW db, NEW t, NEW c, NEW u, NEW i, NEW idx, db[t] = TableWith(c, u, i)
    PROVE  AddIndexes(db, t, idx) = Put(db, t, TableWith(c, u, i ++ idx))
<1>1. db[t].indexes = i
  BY DEF TableWith
<1>2. AddIndexes(db, t, idx) = [db EXCEPT ![t] = [db[t] EXCEPT !.indexes = i ++ idx]]
  BY <1>1, Zenon DEF AddIndexes
<1>3. \A x : [db[t] EXCEPT !.indexes = x] = TableWith(c, u, x)
  BY DEF TableWith
<1>4. QED
  BY <1>2, <1>3, Zenon DEF Put

LEMMA AddConstraintIs ==
    ASSUME NEW db, NEW t, NEW c, NEW u, NEW i, NEW name, NEW columns,
           db[t] = TableWith(c, u, i)
    PROVE  AddConstraint(db, t, name, columns)
             = Put(db, t, TableWith(c, u ++ Entry(name, columns), i))
<1>1. db[t].unique = u
  BY DEF TableWith
<1>2. AddConstraint(db, t, name, columns)
        = [db EXCEPT ![t] = [db[t] EXCEPT !.unique = u ++ Entry(name, columns)]]
  BY <1>1, Zenon DEF AddConstraint
<1>3. \A x : [db[t] EXCEPT !.unique = x] = TableWith(c, x, i)
  BY DEF TableWith
<1>4. QED
  BY <1>2, <1>3, Zenon DEF Put

LEMMA RenameIndexIs ==
    ASSUME NEW db, NEW t, NEW c, NEW u, NEW i, NEW old, NEW new,
           db[t] = TableWith(c, u, i)
    PROVE  RenameIndex(db, t, old, new)
             = Put(db, t, TableWith(c, u, Renamed(i, old, new)))
<1>1. db[t].indexes = i
  BY DEF TableWith
<1>2. RenameIndex(db, t, old, new)
        = [db EXCEPT ![t] = [db[t] EXCEPT !.indexes =
             Renamed(i, old, new)]]
  BY <1>1, Zenon DEF RenameIndex, Renamed
<1>3. \A x : [db[t] EXCEPT !.indexes = x] = TableWith(c, u, x)
  BY DEF TableWith
<1>4. QED
  BY <1>2, <1>3, Zenon DEF Put

(* An alteration that changes nothing.                                     *)
LEMMA AlterFieldIs ==
    ASSUME NEW db, NEW t, NEW c, NEW u, NEW i, NEW name, NEW column,
           Mapping(db), db[t] = TableWith(c, u, i), Mapping(c), c[name] = column
    PROVE  AlterField(db, t, name, column) = db
<1>1. db[t].columns = c
  BY DEF TableWith
<1>2. AlterField(db, t, name, column)
        = [db EXCEPT ![t] = [db[t] EXCEPT !.columns = [c EXCEPT ![name] = column]]]
  BY <1>1, Zenon DEF AlterField
<1>3. [c EXCEPT ![name] = column] = c
  BY DEF Mapping
<1>4. [db[t] EXCEPT !.columns = c] = db[t]
  BY DEF TableWith
<1>5. AlterField(db, t, name, column) = [db EXCEPT ![t] = db[t]]
  BY <1>2, <1>3, <1>4, Zenon
<1>6. QED
  BY <1>5 DEF Mapping

-----------------------------------------------------------------------------
(* The tables of the three sources.  The chain gives four of them their    *)
(* indexes and constraints afterwards.                                     *)
LEMMA ChainTables ==
    /\ Chain!SearchIndex = SearchIndex
    /\ Chain!IndexSyncLog = IndexSyncLog
    /\ Chain!SearchQueryLog = Table(SearchQueryLog.columns)
    /\ Chain!SearchQueryAggregate = Table(SearchQueryAggregate.columns)
    /\ Chain!BoostRule = BoostRule
    /\ Chain!QueryRedirect = QueryRedirect
    /\ Chain!QueryRewrite = QueryRewrite
    /\ Chain!SearchBanner = SearchBanner
    /\ Chain!SearchPin = SearchPin
    /\ Chain!ZeroResultFallback = ZeroResultFallback
    /\ Chain!SearchClick = Table(SearchClick.columns)
    /\ Chain!SearchClickAggregate = Table(SearchClickAggregate.columns)
<1> USE DEF Column, Char, Decimal, Uuid, Time, Date, Text, Json, Boolean,
   Integer, Positive, PositiveSmall, PositiveBig, Ref, Indexed, Unique,
   Nullable, None, TableWith, Table, Base, Rule, ++, Chain!Column, Chain!Char,
   Chain!Decimal, Chain!Uuid, Chain!Time, Chain!Date, Chain!Text, Chain!Json,
   Chain!Boolean, Chain!Integer, Chain!Positive, Chain!PositiveSmall,
   Chain!PositiveBig, Chain!Ref, Chain!Indexed, Chain!Unique, Chain!Nullable,
   Chain!None, Chain!TableWith, Chain!Table, Chain!Base, Chain!Rule, Chain!++
<1>1. Chain!SearchIndex = SearchIndex
  BY DEF Chain!SearchIndex, SearchIndex
<1>2. Chain!IndexSyncLog = IndexSyncLog
  BY DEF Chain!IndexSyncLog, IndexSyncLog
<1>3. Chain!SearchQueryLog = Table(SearchQueryLog.columns)
  BY DEF Chain!SearchQueryLog, SearchQueryLog
<1>4. Chain!SearchQueryAggregate = Table(SearchQueryAggregate.columns)
  BY DEF Chain!SearchQueryAggregate, SearchQueryAggregate
<1>5. Chain!BoostRule = BoostRule
  BY DEF Chain!BoostRule, BoostRule
<1>6. Chain!QueryRedirect = QueryRedirect
  BY DEF Chain!QueryRedirect, QueryRedirect
<1>7. Chain!QueryRewrite = QueryRewrite
  BY DEF Chain!QueryRewrite, QueryRewrite
<1>8. Chain!SearchBanner = SearchBanner
  BY DEF Chain!SearchBanner, SearchBanner
<1>9. Chain!SearchPin = SearchPin
  BY DEF Chain!SearchPin, SearchPin
<1>10. Chain!ZeroResultFallback = ZeroResultFallback
  BY DEF Chain!ZeroResultFallback, ZeroResultFallback
<1>11. Chain!SearchClick = Table(SearchClick.columns)
  BY DEF Chain!SearchClick, SearchClick
<1>12. Chain!SearchClickAggregate = Table(SearchClickAggregate.columns)
  BY DEF Chain!SearchClickAggregate, SearchClickAggregate
<1>13. QED
  BY <1>1, <1>2, <1>3, <1>4, <1>5, <1>6, <1>7, <1>8, <1>9, <1>10, <1>11, <1>12

PinKey == <<"index_name", "tenant_id", "query_pattern", "document_id">>

Pinned == TableWith(SearchPin.columns, [icv_search_pin_unique |-> PinKey], None)

LEMMA ModelTables ==
    /\ Model!SearchIndex = SearchIndex
    /\ Model!IndexSyncLog = IndexSyncLog
    /\ AUTH_USER_MODEL = ICV_AUTH_USER_MODEL => Model!SearchQueryLog = SearchQueryLog
    /\ Model!SearchQueryAggregate = SearchQueryAggregate
    /\ Model!BoostRule = BoostRule
    /\ Model!QueryRedirect = QueryRedirect
    /\ Model!QueryRewrite = QueryRewrite
    /\ Model!SearchBanner = SearchBanner
    /\ Model!SearchPin = Pinned
    /\ Model!ZeroResultFallback = ZeroResultFallback
    /\ Model!SearchClick = SearchClick
    /\ Model!SearchClickAggregate = SearchClickAggregate
<1> USE DEF Column, Char, Decimal, Uuid, Time, Date, Text, Json, Boolean,
   Integer, Positive, PositiveSmall, PositiveBig, Ref, Indexed, Unique,
   Nullable, None, TableWith, Table, Base, Rule, ++, Model!Column, Model!Char,
   Model!Decimal, Model!Uuid, Model!Time, Model!Date, Model!Text, Model!Json,
   Model!Boolean, Model!Integer, Model!Positive, Model!PositiveSmall,
   Model!PositiveBig, Model!Ref, Model!Indexed, Model!Unique, Model!Nullable,
   Model!None, Model!TableWith, Model!Table, Model!Base, Model!Rule, Model!++
<1>1. Model!SearchIndex = SearchIndex
  BY DEF Model!SearchIndex, SearchIndex
<1>2. Model!IndexSyncLog = IndexSyncLog
  BY DEF Model!IndexSyncLog, IndexSyncLog
<1>3. ASSUME AUTH_USER_MODEL = ICV_AUTH_USER_MODEL
      PROVE  Model!SearchQueryLog = SearchQueryLog
  BY <1>3 DEF Model!SearchQueryLog, SearchQueryLog
<1>4. Model!SearchQueryAggregate = SearchQueryAggregate
  BY DEF Model!SearchQueryAggregate, SearchQueryAggregate
<1>5. Model!BoostRule = BoostRule
  BY DEF Model!BoostRule, BoostRule
<1>6. Model!QueryRedirect = QueryRedirect
  BY DEF Model!QueryRedirect, QueryRedirect
<1>7. Model!QueryRewrite = QueryRewrite
  BY DEF Model!QueryRewrite, QueryRewrite
<1>8. Model!SearchBanner = SearchBanner
  BY DEF Model!SearchBanner, SearchBanner
<1>9. Model!SearchPin = Pinned
  BY DEF Model!SearchPin, SearchPin, Pinned, PinKey
<1>10. Model!ZeroResultFallback = ZeroResultFallback
  BY DEF Model!ZeroResultFallback, ZeroResultFallback
<1>11. Model!SearchClick = SearchClick
  BY DEF Model!SearchClick, SearchClick
<1>12. Model!SearchClickAggregate = SearchClickAggregate
  BY DEF Model!SearchClickAggregate, SearchClickAggregate
<1>13. QED
  BY <1>1, <1>2, <1>3, <1>4, <1>5, <1>6, <1>7, <1>8, <1>9, <1>10, <1>11, <1>12

-----------------------------------------------------------------------------
(* The database along the chain.                                           *)
LEMMA ChainOperations ==
    ASSUME NEW db, NEW t, NEW x, NEW y
    PROVE  /\ Chain!CreateModels(db, x) = CreateModels(db, x)
           /\ Chain!AddIndexes(db, t, x) = AddIndexes(db, t, x)
           /\ Chain!AddConstraint(db, t, x, y) = AddConstraint(db, t, x, y)
           /\ Chain!RenameIndex(db, t, x, y) = RenameIndex(db, t, x, y)
           /\ Chain!AlterField(db, t, x, y) = AlterField(db, t, x, y)
           /\ Chain!Json = Json /\ Chain!None = None
BY Zenon DEF Chain!CreateModels, CreateModels, Chain!AddIndexes, AddIndexes,
   Chain!AddConstraint, AddConstraint, Chain!RenameIndex, RenameIndex,
   Chain!AlterField, AlterField, Chain!++, ++, Chain!Entry, Entry, Chain!Restrict,
   Restrict, Chain!Json, Json, Chain!Column, Column, Chain!None, None

(* The names 0002 gives to the indexes of the query log.                   *)
FirstNames ==
    [icv_search__index_n_zero_idx |-> <<"index_name", "is_zero_result">>,
     icv_search__index_n_tenant_idx |-> <<"index_name", "tenant_id", "created_at">>]
LogNamed(indexes) == TableWith(SearchQueryLog.columns, None, indexes)

Tables1 == [SearchIndex |-> SearchIndex, IndexSyncLog |-> IndexSyncLog]
Tables2 ==
    [SearchIndex |-> SearchIndex, IndexSyncLog |-> IndexSyncLog,
     SearchQueryLog |-> LogNamed(FirstNames)]
Tables3 ==
    [SearchIndex |-> SearchIndex, IndexSyncLog |-> IndexSyncLog,
     SearchQueryLog |-> LogNamed(FirstNames),
     SearchQueryAggregate |-> SearchQueryAggregate]
Tables4 ==
    [SearchIndex |-> SearchIndex, IndexSyncLog |-> IndexSyncLog,
     SearchQueryLog |-> SearchQueryLog, SearchQueryAggregate |-> SearchQueryAggregate,
     BoostRule |-> BoostRule, QueryRedirect |-> QueryRedirect,
     QueryRewrite |-> QueryRewrite, SearchBanner |-> SearchBanner,
     SearchPin |-> Pinned, ZeroResultFallback |-> ZeroResultFallback]
Released ==
    [SearchIndex |-> SearchIndex, IndexSyncLog |-> IndexSyncLog,
     SearchQueryLog |-> SearchQueryLog, SearchQueryAggregate |-> SearchQueryAggregate,
     BoostRule |-> BoostRule, QueryRedirect |-> QueryRedirect,
     QueryRewrite |-> QueryRewrite, SearchBanner |-> SearchBanner,
     SearchPin |-> Pinned, ZeroResultFallback |-> ZeroResultFallback,
     SearchClick |-> SearchClick, SearchClickAggregate |-> SearchClickAggregate]

LEMMA TablesOf1 == Chain!Migration0001(None) = Tables1
<1>1. Chain!Migration0001(None) = None ++ Tables1
  BY ChainTables, ChainOperations, Zenon DEF Chain!Migration0001, CreateModels, Tables1
<1>2. None ++ Tables1 = Tables1
  BY DEF Tables1, None, ++
<1>3. QED
  BY <1>1, <1>2

LEMMA TablesOf2 == Chain!Migration0002(Tables1) = Tables2
<1> DEFINE queries == Table(SearchQueryLog.columns)
           created == [SearchIndex |-> SearchIndex, IndexSyncLog |-> IndexSyncLog,
                       SearchQueryLog |-> queries]
<1>1. Chain!Migration0002(Tables1)
        = AddIndexes(Tables1 ++ [SearchQueryLog |-> queries], "SearchQueryLog", FirstNames)
  BY ChainTables, ChainOperations, Zenon DEF Chain!Migration0002, CreateModels, FirstNames
<1> HIDE DEF queries
<1>2. Tables1 ++ [SearchQueryLog |-> queries] = created
  BY DEF Tables1, ++
<1>3. AddIndexes(created, "SearchQueryLog", FirstNames)
        = Put(created, "SearchQueryLog",
              TableWith(SearchQueryLog.columns, None, None ++ FirstNames))
  BY AddIndexesIs DEF queries, Table
<1>4. None ++ FirstNames = FirstNames
  BY DEF FirstNames, None, ++
<1>5. Put(created, "SearchQueryLog", LogNamed(FirstNames)) = Tables2
  BY DEF Tables2, Put
<1>6. QED
  BY <1>1, <1>2, <1>3, <1>4, <1>5, Zenon DEF LogNamed

LEMMA TablesOf3 == Chain!Migration0003(Tables2) = Tables3
<1> DEFINE name == "SearchQueryAggregate"
           columns == SearchQueryAggregate.columns
           created == [SearchIndex |-> SearchIndex, IndexSyncLog |-> IndexSyncLog,
                       SearchQueryLog |-> LogNamed(FirstNames),
                       SearchQueryAggregate |-> Table(columns)]
           key == <<"index_name", "query", "date", "tenant_id">>
           unique == [icv_search_agg_unique |-> key]
           indexes == [icv_srch_agg_idx_dt |-> <<"index_name", "date">>,
                       icv_srch_agg_tnt_dt |-> <<"index_name", "tenant_id", "date">>]
           constrained == Put(created, name, TableWith(columns, unique, None))
<1>1. Chain!Migration0003(Tables2)
        = AddIndexes(AddConstraint(Tables2 ++ [SearchQueryAggregate |-> Table(columns)],
                                   name, "icv_search_agg_unique", key), name, indexes)
  BY ChainTables, ChainOperations, Zenon DEF Chain!Migration0003, CreateModels
<1>2. SearchQueryAggregate = TableWith(columns, unique, indexes)
  BY DEF SearchQueryAggregate, TableWith
<1> HIDE DEF columns, key, indexes
<1>3. Tables2 ++ [SearchQueryAggregate |-> Table(columns)] = created
  BY DEF Tables2, ++
<1>4. None ++ Entry("icv_search_agg_unique", key) = unique
  BY DEF None, ++, Entry
<1>5. None ++ indexes = indexes
  BY DEF indexes, None, ++
<1>6. created[name] = TableWith(columns, None, None)
  BY DEF Table
<1>7. constrained[name] = TableWith(columns, unique, None)
  BY DEF Put
<1>8. Put(constrained, name, SearchQueryAggregate) = Tables3
  BY DEF Tables3, Put
<1> HIDE DEF name, unique, created
<1>9. AddConstraint(created, name, "icv_search_agg_unique", key) = constrained
  BY <1>4, <1>6, AddConstraintIs
<1> HIDE DEF constrained
<1>10. AddIndexes(constrained, name, indexes) = Tables3
  BY <1>2, <1>5, <1>7, <1>8, AddIndexesIs
<1>11. QED
  BY <1>1, <1>3, <1>9, <1>10, Zenon

(* The names 0004 gives to the indexes of the query log, one by one.       *)
NamesBetween ==
    [icv_search__index_n_08e7ef_idx |-> <<"index_name", "is_zero_result">>,
     icv_search__index_n_tenant_idx |-> <<"index_name", "tenant_id", "created_at">>]
LastNames ==
    [icv_search__index_n_08e7ef_idx |-> <<"index_name", "is_zero_result">>,
     icv_search__index_n_09bc9e_idx |-> <<"index_name", "tenant_id", "created_at">>]

LEMMA NamesGiven ==
    /\ Renamed(FirstNames, "icv_search__index_n_zero_idx", "icv_search__index_n_08e7ef_idx")
         = NamesBetween
    /\ Renamed(NamesBetween, "icv_search__index_n_tenant_idx",
               "icv_search__index_n_09bc9e_idx") = LastNames
    /\ SearchQueryLog = LogNamed(LastNames)
<1>1. ASSUME NEW first, NEW second
      PROVE  /\ Renamed([icv_search__index_n_zero_idx |-> first,
                         icv_search__index_n_tenant_idx |-> second],
                        "icv_search__index_n_zero_idx", "icv_search__index_n_08e7ef_idx")
                  = [icv_search__index_n_08e7ef_idx |-> first,
                     icv_search__index_n_tenant_idx |-> second]
             /\ Renamed([icv_search__index_n_08e7ef_idx |-> first,
                         icv_search__index_n_tenant_idx |-> second],
                        "icv_search__index_n_tenant_idx", "icv_search__index_n_09bc9e_idx")
                  = [icv_search__index_n_08e7ef_idx |-> first,
                     icv_search__index_n_09bc9e_idx |-> second]
  <2> DEFINE one == [icv_search__index_n_zero_idx |-> first,
                     icv_search__index_n_tenant_idx |-> second]
             two == [icv_search__index_n_08e7ef_idx |-> first,
                     icv_search__index_n_tenant_idx |-> second]
  <2>1. /\ Restrict(one, DOMAIN one \ {"icv_search__index_n_zero_idx"})
             = [icv_search__index_n_tenant_idx |-> second]
        /\ Restrict(two, DOMAIN two \ {"icv_search__index_n_tenant_idx"})
             = [icv_search__index_n_08e7ef_idx |-> first]
    BY DEF Restrict
  <2>2. /\ [icv_search__index_n_tenant_idx |-> second]
             ++ Entry("icv_search__index_n_08e7ef_idx", first) = two
        /\ [icv_search__index_n_08e7ef_idx |-> first]
             ++ Entry("icv_search__index_n_09bc9e_idx", second)
             = [icv_search__index_n_08e7ef_idx |-> first,
                icv_search__index_n_09bc9e_idx |-> second]
    BY DEF ++, Entry
  <2>3. /\ one["icv_search__index_n_zero_idx"] = first
        /\ two["icv_search__index_n_tenant_idx"] = second
    OBVIOUS
  <2>4. QED
    BY <2>1, <2>2, <2>3, Zenon DEF Renamed
<1>2. SearchQueryLog = LogNamed(LastNames)
  BY DEF SearchQueryLog, LogNamed, LastNames, TableWith
<1>3. QED
  BY <1>1, <1>2, Zenon DEF FirstNames, NamesBetween, LastNames

LEMMA PinnedIs ==
    ASSUME NEW db, db["SearchPin"] = SearchPin
    PROVE  AddConstraint(db, "SearchPin", "icv_search_pin_unique", PinKey)
             = Put(db, "SearchPin", Pinned)
<1> DEFINE columns == SearchPin.columns
<1>1. SearchPin = TableWith(columns, None, None)
  BY DEF SearchPin, Table, TableWith
<1>2. None ++ Entry("icv_search_pin_unique", PinKey) = [icv_search_pin_unique |-> PinKey]
  BY DEF None, ++, Entry
<1>3. Pinned = TableWith(columns, [icv_search_pin_unique |-> PinKey], None)
  BY DEF Pinned
<1> HIDE DEF columns
<1>4. QED
  BY <1>1, <1>2, <1>3, AddConstraintIs

RuleTables ==
    [BoostRule |-> BoostRule, QueryRedirect |-> QueryRedirect,
     QueryRewrite |-> QueryRewrite, SearchBanner |-> SearchBanner,
     SearchPin |-> SearchPin, ZeroResultFallback |-> ZeroResultFallback]

LEMMA TablesOf4 == Chain!Migration0004(Tables3) = Tables4
<1> DEFINE WithLog(table) ==
             [SearchIndex |-> SearchIndex, IndexSyncLog |-> IndexSyncLog,
              SearchQueryLog |-> table, SearchQueryAggregate |-> SearchQueryAggregate,
              BoostRule |-> BoostRule, QueryRedirect |-> QueryRedirect,
              QueryRewrite |-> QueryRewrite, SearchBanner |-> SearchBanner,
              SearchPin |-> SearchPin, ZeroResultFallback |-> ZeroResultFallback]
           name == "SearchQueryLog"
           first == WithLog(LogNamed(FirstNames))
           between == WithLog(LogNamed(NamesBetween))
           last == WithLog(LogNamed(LastNames))
<1>1. Chain!Migration0004(Tables3)
        = AddConstraint(
            RenameIndex(RenameIndex(Tables3 ++ RuleTables, name,
                          "icv_search__index_n_zero_idx", "icv_search__index_n_08e7ef_idx"),
                        name, "icv_search__index_n_tenant_idx",
                        "icv_search__index_n_09bc9e_idx"),
            "SearchPin", "icv_search_pin_unique", PinKey)
  <2>1. /\ \A db, x : Chain!CreateModels(db, x) = db ++ x
        /\ \A db, t, x, y : Chain!RenameIndex(db, t, x, y) = RenameIndex(db, t, x, y)
        /\ \A db, t, x, y : Chain!AddConstraint(db, t, x, y) = AddConstraint(db, t, x, y)
    BY ChainOperations, Zenon DEF CreateModels
  <2>2. Chain!Migration0004(Tables3)
          = Chain!AddConstraint(
              Chain!RenameIndex(Chain!RenameIndex(Tables3 ++ RuleTables, name,
                  "icv_search__index_n_zero_idx", "icv_search__index_n_08e7ef_idx"),
                name, "icv_search__index_n_tenant_idx", "icv_search__index_n_09bc9e_idx"),
              "SearchPin", "icv_search_pin_unique", PinKey)
    BY <2>1, ChainTables, Zenon DEF Chain!Migration0004, RuleTables, PinKey
  <2>3. QED
    BY <2>1, <2>2
<1>2. Tables3 ++ RuleTables = first
  BY DEF Tables3, RuleTables, ++
<1>3. /\ first[name] = LogNamed(FirstNames) /\ between[name] = LogNamed(NamesBetween)
      /\ Put(first, name, LogNamed(NamesBetween)) = between
      /\ Put(between, name, LogNamed(LastNames)) = last
      /\ last["SearchPin"] = SearchPin
  <2>1. ASSUME NEW x, NEW y
        PROVE  Put(WithLog(x), name, y) = WithLog(y)
    BY DEF Put
  <2>2. ASSUME NEW x
        PROVE  WithLog(x)[name] = x /\ WithLog(x)["SearchPin"] = SearchPin
    OBVIOUS
  <2> HIDE DEF WithLog, name
  <2>3. QED
    BY <2>1, <2>2
<1>4. Put(last, "SearchPin", Pinned) = Tables4
  BY NamesGiven DEF Put, Tables4
<1> HIDE DEF first, between, last
<1>5. RenameIndex(first, name, "icv_search__index_n_zero_idx",
                  "icv_search__index_n_08e7ef_idx") = between
  BY <1>3, NamesGiven, RenameIndexIs DEF LogNamed
<1>6. RenameIndex(between, name, "icv_search__index_n_tenant_idx",
                  "icv_search__index_n_09bc9e_idx") = last
  BY <1>3, NamesGiven, RenameIndexIs DEF LogNamed
<1>7. AddConstraint(last, "SearchPin", "icv_search_pin_unique", PinKey) = Tables4
  BY <1>3, <1>4, PinnedIs
<1>8. QED
  BY <1>1, <1>2, <1>5, <1>6, <1>7, Zenon

LEMMA TablesOf5 == Chain!Migration0005(Tables4) = Released
<1> DEFINE WithClicks(clicks, aggregates) ==
             [SearchIndex |-> SearchIndex, IndexSyncLog |-> IndexSyncLog,
              SearchQueryLog |-> SearchQueryLog,
              SearchQueryAggregate |-> SearchQueryAggregate,
              BoostRule |-> BoostRule, QueryRedirect |-> QueryRedirect,
              QueryRewrite |-> QueryRewrite, SearchBanner |-> SearchBanner,
              SearchPin |-> Pinned, ZeroResultFallback |-> ZeroResultFallback,
              SearchClick |-> clicks, SearchClickAggregate |-> aggregates]
           c == SearchClick.columns
           a == SearchClickAggregate.columns
           key == <<"index_name", "query", "document_id", "date", "tenant_id">>
           unique == [icv_search_click_agg_unique |-> key]
           clicked == [icv_srch_clk_qry_dt |-> <<"index_name", "query", "created_at">>,
                       icv_srch_clk_doc |-> <<"index_name", "document_id">>]
           counted == [icv_srch_clkagg_qry_dt |-> <<"index_name", "query", "date">>,
                       icv_srch_clkagg_tnt_dt |-> <<"index_name", "date", "tenant_id">>]
           created == WithClicks(Table(c), Table(a))
           indexed == WithClicks(SearchClick, Table(a))
           constrained == WithClicks(SearchClick, TableWith(a, unique, None))
<1>1. Chain!Migration0005(Tables4)
        = AddIndexes(
            AddConstraint(
              AddIndexes(Tables4 ++ [SearchClick |-> Table(c),
                                     SearchClickAggregate |-> Table(a)],
                         "SearchClick", clicked),
              "SearchClickAggregate", "icv_search_click_agg_unique", key),
            "SearchClickAggregate", counted)
  <2>1. /\ Chain!SearchClick = Table(c) /\ Chain!SearchClickAggregate = Table(a)
        /\ \A db, x : Chain!CreateModels(db, x) = db ++ x
        /\ \A db, t, x : Chain!AddIndexes(db, t, x) = AddIndexes(db, t, x)
        /\ \A db, t, x, y : Chain!AddConstraint(db, t, x, y) = AddConstraint(db, t, x, y)
    BY ChainTables, ChainOperations, Zenon DEF CreateModels
  <2> HIDE DEF c, a, key, clicked, counted
  <2>2. Chain!Migration0005(Tables4)
          = Chain!AddIndexes(
              Chain!AddConstraint(
                Chain!AddIndexes(Tables4 ++ [SearchClick |-> Table(c),
                                             SearchClickAggregate |-> Table(a)],
                                 "SearchClick", clicked),
                "SearchClickAggregate", "icv_search_click_agg_unique", key),
              "SearchClickAggregate", counted)
    BY <2>1, Zenon DEF Chain!Migration0005, key, clicked, counted
  <2>3. QED
    BY <2>1, <2>2
<1>2. /\ SearchClick = TableWith(c, None, clicked)
      /\ SearchClickAggregate = TableWith(a, unique, counted)
  BY DEF SearchClick, SearchClickAggregate, TableWith
<1>3. /\ None ++ clicked = clicked /\ None ++ counted = counted
  BY DEF None, ++
<1> HIDE DEF c, a, key, clicked, counted
<1>4. None ++ Entry("icv_search_click_agg_unique", key) = unique
  BY DEF None, ++, Entry
<1>5. Tables4 ++ [SearchClick |-> Table(c), SearchClickAggregate |-> Table(a)] = created
  BY DEF Tables4, ++
<1> HIDE DEF unique
<1>6. /\ created["SearchClick"] = TableWith(c, None, None)
      /\ indexed["SearchClickAggregate"] = TableWith(a, None, None)
      /\ constrained["SearchClickAggregate"] = TableWith(a, unique, None)
  BY DEF Table
<1>7. /\ Put(created, "SearchClick", SearchClick) = indexed
      /\ Put(indexed, "SearchClickAggregate", TableWith(a, unique, None)) = constrained
      /\ Put(constrained, "SearchClickAggregate", SearchClickAggregate) = Released
  <2>1. ASSUME NEW x, NEW y, NEW z
        PROVE  /\ Put(WithClicks(x, y), "SearchClick", z) = WithClicks(z, y)
               /\ Put(WithClicks(x, y), "SearchClickAggregate", z) = WithClicks(x, z)
    <3>1. Put(WithClicks(x, y), "SearchClick", z) = WithClicks(z, y)
      BY DEF Put
    <3>2. Put(WithClicks(x, y), "SearchClickAggregate", z) = WithClicks(x, z)
      BY DEF Put
    <3>3. QED
      BY <3>1, <3>2
  <2>2. WithClicks(SearchClick, SearchClickAggregate) = Released
    BY DEF Released
  <2> HIDE DEF WithClicks
  <2>3. QED
    BY <2>1, <2>2
<1> HIDE DEF created, indexed, constrained
<1>8. AddIndexes(created, "SearchClick", clicked) = indexed
  BY <1>2, <1>3, <1>6, <1>7, AddIndexesIs
<1>9. AddConstraint(indexed, "SearchClickAggregate", "icv_search_click_agg_unique", key)
        = constrained
  BY <1>4, <1>6, <1>7, AddConstraintIs
<1>10. AddIndexes(constrained, "SearchClickAggregate", counted) = Released
  BY <1>2, <1>3, <1>6, <1>7, AddIndexesIs
<1>11. QED
  BY <1>1, <1>5, <1>8, <1>9, <1>10, Zenon

(* The alterations of 0006, of the squashed migration and of 0007 change    *)
(* nothing any more.                                                       *)
LEMMA ReleasedTables ==
    /\ Mapping(Released)
    /\ Released["SearchIndex"] = SearchIndex
    /\ Released["SearchClick"] = SearchClick
    /\ Released["SearchQueryLog"] = SearchQueryLog
BY DEF Released, Mapping

LEMMA SettingsUnaltered ==
    AlterField(Released, "SearchIndex", "settings", Json) = Released
<1> DEFINE c == SearchIndex.columns
<1>1. Mapping(c) /\ c["settings"] = Json
  BY DEF SearchIndex, TableWith, ++, Base, Mapping
<1>2. SearchIndex = TableWith(c, SearchIndex.unique, SearchIndex.indexes)
  BY DEF SearchIndex, TableWith
<1> HIDE DEF c
<1>3. QED
  BY <1>1, <1>2, ReleasedTables, AlterFieldIs

LEMMA TablesOf6 == Chain!Migration0006(Released) = Released
BY ChainOperations, ReleasedTables, SettingsUnaltered DEF Chain!Migration0006

LEMMA TablesOf7 == Migration0007(Released) = Released
<1>1. AlterField(Released, "SearchClick", "tenant_id", Indexed(Char(200))) = Released
  <2> DEFINE c == SearchClick.columns
  <2>1. Mapping(c) /\ c["tenant_id"] = Indexed(Char(200))
    BY DEF SearchClick, TableWith, ++, Base, Mapping
  <2>2. SearchClick = TableWith(c, SearchClick.unique, SearchClick.indexes)
    BY DEF SearchClick, TableWith
  <2> HIDE DEF c
  <2>3. QED
    BY <2>1, <2>2, ReleasedTables, AlterFieldIs
<1>2. AlterField(Released, "SearchQueryLog", "tenant_id", Indexed(Char(200))) = Released
  <2> DEFINE c == SearchQueryLog.columns
  <2>1. Mapping(c) /\ c["tenant_id"] = Indexed(Char(200))
    BY DEF SearchQueryLog, TableWith, ++, Base, Mapping
  <2>2. SearchQueryLog = TableWith(c, SearchQueryLog.unique, SearchQueryLog.indexes)
    BY DEF SearchQueryLog, TableWith
  <2> HIDE DEF c
  <2>3. QED
    BY <2>1, <2>2, ReleasedTables, AlterFieldIs
<1>3. QED
  BY <1>1, <1>2, Zenon DEF Migration0007

LEMMA TablesOfSquashed == Squashed(None) = Released
<1> DEFINE Created(pin) ==
             [SearchIndex |-> SearchIndex, IndexSyncLog |-> IndexSyncLog,
              SearchQueryLog |-> SearchQueryLog,
              SearchQueryAggregate |-> SearchQueryAggregate,
              BoostRule |-> BoostRule, QueryRedirect |-> QueryRedirect,
              QueryRewrite |-> QueryRewrite, SearchBanner |-> SearchBanner,
              SearchPin |-> pin, ZeroResultFallback |-> ZeroResultFallback]
           clicks == [SearchClick |-> SearchClick,
                      SearchClickAggregate |-> SearchClickAggregate]
<1>1. Squashed(None)
        = AlterField(AddConstraint(None ++ Created(SearchPin), "SearchPin",
                                   "icv_search_pin_unique", PinKey) ++ clicks,
                     "SearchIndex", "settings", Json)
  BY Zenon DEF Squashed, CreateModels, PinKey
<1>2. None ++ Created(SearchPin) = Created(SearchPin)
  BY DEF None, ++
<1>3. Created(SearchPin)["SearchPin"] = SearchPin
  OBVIOUS
<1>4. Put(Created(SearchPin), "SearchPin", Pinned) = Created(Pinned)
  BY DEF Put
<1>5. Created(Pinned) ++ clicks = Released
  BY DEF ++, Released
<1> HIDE DEF Created, clicks
<1>6. AddConstraint(Created(SearchPin), "SearchPin", "icv_search_pin_unique", PinKey)
        = Created(Pinned)
  BY <1>3, <1>4, PinnedIs
<1>7. QED
  BY <1>1, <1>2, <1>5, <1>6, ReleasedTables, SettingsUnaltered, Zenon

(* The tables of the models are these, if they look for users where the     *)
(* migrations do, and only then.                                           *)
LEMMA ModelsAre == Model!Models = Released <=> AUTH_USER_MODEL = ICV_AUTH_USER_MODEL
<1>1. ASSUME AUTH_USER_MODEL = ICV_AUTH_USER_MODEL
      PROVE  Model!Models = Released
  BY <1>1, ModelTables, Zenon DEF Model!Models, Released
<1>2. ASSUME Model!Models = Released
      PROVE  AUTH_USER_MODEL = ICV_AUTH_USER_MODEL
  <2>1. Model!SearchQueryLog = SearchQueryLog
    BY <1>2 DEF Model!Models, Released
  <2>2. SearchQueryLog.columns["user"].refers = AUTH_USER_MODEL
    BY DEF SearchQueryLog, TableWith, ++, Base, Nullable, Ref, Column
  <2>3. Model!SearchQueryLog.columns["user"].refers = ICV_AUTH_USER_MODEL
    BY DEF Model!SearchQueryLog, Model!TableWith, Model!++, Model!Base, Model!Nullable,
           Model!Ref, Model!Column
  <2>4. QED
    BY <2>1, <2>2, <2>3, Zenon
<1>3. QED
  BY <1>1, <1>2

-----------------------------------------------------------------------------
(* The migrations an earlier release leaves applied, and its tables.       *)
Names == <<"0001", "0002", "0003", "0004", "0005", "0006">>
First(n) == {Names[k] : k \in 1..n}
TablesAt(k) ==
    CASE k = 0 -> None [] k = 1 -> Tables1 [] k = 2 -> Tables2 [] k = 3 -> Tables3
      [] k = 4 -> Tables4 [] k = 5 -> Released [] k = 6 -> Released
Along(db, n) == db = [k \in 0..n |-> IF k = 0 THEN None ELSE Operations(Names[k], db[k - 1])]

LEMMA OperationsAre ==
    ASSUME NEW db
    PROVE  /\ Operations("0001", db) = Chain!Migration0001(db)
           /\ Operations("0002", db) = Chain!Migration0002(db)
           /\ Operations("0003", db) = Chain!Migration0003(db)
           /\ Operations("0004", db) = Chain!Migration0004(db)
           /\ Operations("0005", db) = Chain!Migration0005(db)
           /\ Operations("0006", db) = Chain!Migration0006(db)
           /\ Operations("squashed", db) = Squashed(db)
           /\ Operations("0007", db) = Migration0007(db)
BY DEF Operations

LEMMA OneFurther ==
    ASSUME NEW k \in 1..6
    PROVE  Operations(Names[k], TablesAt(k - 1)) = TablesAt(k)
<1>1. k = 1 \/ k = 2 \/ k = 3 \/ k = 4 \/ k = 5 \/ k = 6
  OBVIOUS
<1>2. CASE k = 1
  BY <1>2, OperationsAre, TablesOf1 DEF Names, TablesAt
<1>3. CASE k = 2
  BY <1>3, OperationsAre, TablesOf2 DEF Names, TablesAt
<1>4. CASE k = 3
  BY <1>4, OperationsAre, TablesOf3 DEF Names, TablesAt
<1>5. CASE k = 4
  BY <1>5, OperationsAre, TablesOf4 DEF Names, TablesAt
<1>6. CASE k = 5
  BY <1>6, OperationsAre, TablesOf5 DEF Names, TablesAt
<1>7. CASE k = 6
  BY <1>7, OperationsAre, TablesOf6 DEF Names, TablesAt
<1>8. QED
  BY <1>1, <1>2, <1>3, <1>4, <1>5, <1>6, <1>7

LEMMA AlongIs ==
    ASSUME NEW n \in 0..6, NEW db, Along(db, n)
    PROVE  db[n] = TablesAt(n)
<1> DEFINE R(k) == k <= n => db[k] = TablesAt(k)
<1>1. ASSUME NEW k \in 1..6, R(k - 1)
      PROVE  R(k)
  <2>1. CASE k <= n
    <3>1. db[k] = Operations(Names[k], db[k - 1])
      BY <2>1 DEF Along
    <3>2. QED
      BY <1>1, <2>1, <3>1, OneFurther
  <2>2. QED
    BY <2>1
<1>2. R(0)
  BY DEF Along, TablesAt
<1> HIDE DEF R
<1>3. R(1)
  BY <1>1, <1>2
<1>4. R(2)
  BY <1>1, <1>3
<1>5. R(3)
  BY <1>1, <1>4
<1>6. R(4)
  BY <1>1, <1>5
<1>7. R(5)
  BY <1>1, <1>6
<1>8. R(6)
  BY <1>1, <1>7
<1>9. n = 0 \/ n = 1 \/ n = 2 \/ n = 3 \/ n = 4 \/ n = 5 \/ n = 6
  OBVIOUS
<1>10. R(n)
  BY <1>2, <1>3, <1>4, <1>5, <1>6, <1>7, <1>8, <1>9
<1>11. QED
  BY <1>10 DEF R

LEMMA AlongExists ==
    ASSUME NEW n \in 0..6
    PROVE  \E db : Along(db, n)
<1> DEFINE db == [k \in 0..n |-> TablesAt(k)]
<1>1. ASSUME NEW k \in 0..n
      PROVE  TablesAt(k) = IF k = 0 THEN None ELSE Operations(Names[k], db[k - 1])
  BY OneFurther DEF TablesAt
<1>2. Along(db, n)
  BY <1>1 DEF Along
<1>3. QED
  BY <1>2

LEMMA ChainedIs ==
    ASSUME NEW n \in 0..6
    PROVE  Chained(n).applied = First(n) /\ Chained(n).tables = TablesAt(n)
<1> DEFINE db == CHOOSE g : Along(g, n)
<1>1. Along(db, n)
  BY AlongExists
<1>2. Chained(n).applied = First(n) /\ Chained(n).tables = db[n]
  BY DEF Chained, First, Names, Along
<1>3. QED
  BY <1>1, <1>2, AlongIs

(* A database is some way along the chain, or has all its tables.          *)
Underway == \E n \in 0..5 : applied = First(n) /\ tables = TablesAt(n)
Complete == Replaces \subseteq applied /\ tables = Released
SchemaInv == Underway \/ Complete

LEMMA FirstOf ==
    /\ First(0) = {} /\ First(1) = {"0001"} /\ First(2) = {"0001", "0002"}
    /\ First(3) = {"0001", "0002", "0003"} /\ First(4) = {"0001", "0002", "0003", "0004"}
    /\ First(5) = {"0001", "0002", "0003", "0004", "0005"} /\ First(6) = Replaces
<1> DEFINE Is(n, s) == \A m : m \in s <=> \E k \in 1..n : m = Names[k]
<1>1. \A n, s : Is(n, s) => First(n) = s
  BY DEF First
<1>2. /\ Is(0, {}) /\ Is(1, {"0001"}) /\ Is(2, {"0001", "0002"})
      /\ Is(3, {"0001", "0002", "0003"})
  BY DEF Names
<1>3. Is(4, {"0001", "0002", "0003", "0004"})
  BY DEF Names
<1>4. Is(5, {"0001", "0002", "0003", "0004", "0005"})
  BY DEF Names
<1>5. Is(6, Replaces)
  BY DEF Names, Replaces
<1> HIDE DEF Is
<1>6. QED
  BY <1>1, <1>2, <1>3, <1>4, <1>5

(* The steps along the chain: the next migration of a chain is the only one *)
(* whose dependency is applied and that is not applied itself.             *)
LEMMA NextAlong ==
    ASSUME NEW n \in 0..5, NEW m \in DOMAIN Dependency, Dependency[m] \in First(n),
           m \notin First(n)
    PROVE  m = Names[n + 1] /\ First(n) \cup {m} = First(n + 1)
<1>1. n = 0 \/ n = 1 \/ n = 2 \/ n = 3 \/ n = 4 \/ n = 5
  OBVIOUS
<1>2. m \in {"0002", "0003", "0004", "0005", "0006"}
  BY DEF Dependency, Replaces
<1>3. /\ m = "0002" => Dependency[m] = "0001"
      /\ m = "0003" => Dependency[m] = "0002"
      /\ m = "0004" => Dependency[m] = "0003"
      /\ m = "0005" => Dependency[m] = "0004"
      /\ m = "0006" => Dependency[m] = "0005"
  BY DEF Dependency, Replaces
<1>4. CASE n = 0
  BY <1>4, FirstOf
<1>5. CASE n = 1
  BY <1>2, <1>3, <1>5, FirstOf DEF Names
<1>6. CASE n = 2
  BY <1>2, <1>3, <1>6, FirstOf DEF Names
<1>7. CASE n = 3
  BY <1>2, <1>3, <1>7, FirstOf DEF Names
<1>8. CASE n = 4
  BY <1>2, <1>3, <1>8, FirstOf DEF Names
<1>9. CASE n = 5
  BY <1>2, <1>3, <1>9, FirstOf DEF Names, Replaces
<1>10. QED
  BY <1>1, <1>4, <1>5, <1>6, <1>7, <1>8, <1>9

LEMMA AtEnd ==
    ASSUME NEW n \in 0..6, applied' = First(n), tables' = TablesAt(n)
    PROVE  SchemaInv'
<1>1. CASE n \in 0..5
  BY <1>1 DEF SchemaInv, Underway
<1>2. CASE n = 6
  BY <1>2, FirstOf DEF SchemaInv, Complete, TablesAt
<1>3. QED
  BY <1>1, <1>2

LEMMA SchemaStep ==
    ASSUME SchemaInv, Migrate
    PROVE  SchemaInv'
<1>1. ASSUME MigrateSquashed
      PROVE  SchemaInv'
  <2>1. CASE Complete
    BY <1>1, <2>1 DEF MigrateSquashed, Untouched, Complete, Replaces
  <2>2. ASSUME NEW n \in 0..5, applied = First(n), tables = TablesAt(n)
        PROVE  SchemaInv'
    <3>1. n = 0
      <4>1. n = 1 \/ n = 2 \/ n = 3 \/ n = 4 \/ n = 5 => "0001" \in First(n)
        BY FirstOf
      <4>2. QED
        BY <1>1, <2>2, <4>1 DEF MigrateSquashed, Untouched, Replaces
    <3>2. tables' = Released
      BY <1>1, <2>2, <3>1, OperationsAre, TablesOfSquashed DEF MigrateSquashed, TablesAt
    <3>3. QED
      BY <1>1, <3>2 DEF MigrateSquashed, SchemaInv, Complete
  <2>3. QED
    BY <2>1, <2>2 DEF SchemaInv, Underway
<1>2. ASSUME NEW m \in DOMAIN Dependency, Dependency[m] \in applied, ApplyMigration(m)
      PROVE  SchemaInv'
  <2>1. CASE Complete
    BY <1>2, <2>1 DEF ApplyMigration, Complete, Dependency
  <2>2. ASSUME NEW n \in 0..5, applied = First(n), tables = TablesAt(n)
        PROVE  SchemaInv'
    <3>1. m = Names[n + 1] /\ applied' = First(n + 1)
      BY <1>2, <2>2, NextAlong DEF ApplyMigration
    <3>2. tables' = TablesAt(n + 1)
      <4>1. n + 1 \in 1..6 /\ (n + 1) - 1 = n
        OBVIOUS
      <4>2. Operations(Names[n + 1], TablesAt(n)) = TablesAt(n + 1)
        BY <4>1, OneFurther
      <4>3. QED
        BY <1>2, <2>2, <3>1, <4>2 DEF ApplyMigration
    <3>3. QED
      BY <3>1, <3>2, AtEnd
  <2>3. QED
    BY <2>1, <2>2 DEF SchemaInv, Underway
<1>3. ASSUME Replaces \subseteq applied
      PROVE  Complete
  <2>1. ASSUME NEW n \in 0..5, applied = First(n)
        PROVE  FALSE
    <3>1. n = 0 \/ n = 1 \/ n = 2 \/ n = 3 \/ n = 4 \/ n = 5
      OBVIOUS
    <3>2. "0006" \notin First(n)
      BY <3>1, FirstOf
    <3>3. QED
      BY <1>3, <2>1, <3>2 DEF Replaces
  <2>2. QED
    BY <2>1 DEF SchemaInv, Underway
<1>4. ASSUME RecordSquashed
      PROVE  SchemaInv'
  BY <1>3, <1>4 DEF RecordSquashed, SchemaInv, Complete
<1>5. ASSUME MigrateNext
      PROVE  SchemaInv'
  <2>1. tables' = Migration0007(Released)
    BY <1>3, <1>5, OperationsAre DEF MigrateNext, ApplyMigration, Complete
  <2>2. QED
    BY <1>3, <1>5, <2>1, TablesOf7 DEF MigrateNext, ApplyMigration, SchemaInv, Complete
<1>6. QED
  BY <1>1, <1>2, <1>4, <1>5 DEF Migrate, MigrateChain

(* The tables of a database on its way or complete, in every deployment.    *)
LEMMA SchemaKept == Spec => []SchemaInv
<1>1. Init => SchemaInv
  <2>1. ASSUME NEW n \in 0..6, applied = Chained(n).applied, tables = Chained(n).tables
        PROVE  SchemaInv
    <3>1. applied = First(n) /\ tables = TablesAt(n)
      BY <2>1, ChainedIs
    <3>2. CASE n \in 0..5
      BY <3>1, <3>2 DEF SchemaInv, Underway
    <3>3. CASE n = 6
      BY <3>1, <3>3, FirstOf DEF SchemaInv, Complete, TablesAt
    <3>4. QED
      BY <3>2, <3>3
  <2>2. QED
    BY <2>1 DEF Init, SchemaInit
<1>2. SchemaInv /\ [Next]_vars => SchemaInv'
  <2>1. SchemaInv /\ Migrate => SchemaInv'
    BY SchemaStep
  <2>2. SchemaInv /\ UNCHANGED schemaVars => SchemaInv'
    BY DEF SchemaInv, Underway, Complete, schemaVars
  <2>3. QED
    BY <2>1, <2>2 DEF Next, vars
<1>3. QED
  BY <1>1, <1>2, PTL DEF Spec

(* Whatever release a database comes from, and however it went from the     *)
(* chain to the squashed migration and 0007, its tables once migrated are   *)
(* those the models declare where the two look for users in the same place, *)
(* and are not where they do not.                                          *)
THEOREM SchemaOfMigrated ==
    Spec => [](Migrated =>
                 (tables = Model!Models <=> AUTH_USER_MODEL = ICV_AUTH_USER_MODEL))
<1>1. SchemaInv => (Migrated =>
                      (tables = Model!Models <=> AUTH_USER_MODEL = ICV_AUTH_USER_MODEL))
  <2>1. ASSUME SchemaInv, Migrated
        PROVE  tables = Released
    <3>1. ASSUME NEW n \in 0..5
          PROVE  "0007" \notin First(n)
      <4>1. n = 0 \/ n = 1 \/ n = 2 \/ n = 3 \/ n = 4 \/ n = 5
        OBVIOUS
      <4>2. QED
        BY <4>1, FirstOf
    <3>2. QED
      BY <2>1, <3>1 DEF Migrated, SchemaInv, Underway, Complete
  <2>2. QED
    BY <2>1, ModelsAre
<1>2. QED
  BY <1>1, SchemaKept, PTL

(* A migrated database has the tables of the models, in a project whose     *)
(* users the models and the migrations look for in the same place.          *)
THEOREM SchemaAlwaysAgrees ==
    ASSUME AUTH_USER_MODEL = ICV_AUTH_USER_MODEL
    PROVE  Spec => []SchemaAgrees
<1>1. (Migrated => (tables = Model!Models <=> AUTH_USER_MODEL = ICV_AUTH_USER_MODEL))
        => SchemaAgrees
  BY DEF SchemaAgrees
<1>2. QED
  BY <1>1, SchemaOfMigrated, PTL

=============================================================================
