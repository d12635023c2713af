---------------------------- MODULE DocumentStore ----------------------------
(***************************************************************************)
(* What the services promise of the documents they write, whichever engine *)
(* holds them and however many requests a call takes.  A document changes  *)
(* only while a call that names it is under way, and to what that call     *)
(* writes; a row says success only when all of the call is done, on an     *)
(* engine that raises for what it does not take; and only an engine that   *)
(* may go back on a write ever does, and on no other documents.            *)
(***************************************************************************)
EXTENDS Naturals

CONSTANTS
  Docs,     \* documents
  Callers,  \* processes calling the services
  Values,   \* of a document
  Absent    \* the value of a document that is not there

VARIABLES
  grade,   \* what can be expected of the engine
  store,   \* each document, once the engine has applied all it took
  late,    \* documents of writes the engine may still go back on
  writes,  \* what each caller is asking for
  rows     \* the log row of each caller's latest call

storeVars == <<grade, store, late, writes, rows>>

\* An engine that raises for what it does not take; one that may drop single
\* documents; one that also runs a clear after writes that followed it; and one
\* where any write may fail after it was taken.
Grades == {"sure", "partial", "reordering", "forgetful"}

NoWrite == [op |-> "none"]
Idle(c) == writes[c].op = "none"
Ops == {"add", "remove", "update", "clear", "filter"}
Logged == {"add", "remove", "filter"}

Init ==
  /\ grade \in Grades
  /\ store \in [Docs -> Values]
  /\ late = {}
  /\ writes = [c \in Callers |-> NoWrite]
  /\ rows = [c \in Callers |-> "none"]

Named == UNION {writes[c].docs : c \in {c \in Callers : ~Idle(c)}}

\* Of a write under way, what no other write names is its own.
Yielding(docs) == [c \in Callers |->
  IF Idle(c) THEN NoWrite ELSE [writes[c] EXCEPT !.own = @ \ docs]]

\* A deletion by filter may be asked to delete any document.
Ask(c) ==
  /\ Idle(c) /\ ~Idle(c)'
  /\ UNCHANGED <<grade, late, store>>
  /\ \E op \in Ops, docs \in SUBSET Docs, to \in Values :
       /\ rows' = [rows EXCEPT ![c] = IF op \in Logged THEN "pending" ELSE "none"]
       /\ writes' = [Yielding(docs) EXCEPT ![c] =
            [op |-> op, docs |-> docs, to |-> to,
             own |-> IF op = "filter" THEN {} ELSE docs \ Named]]

\* The engine takes some documents of a write; of a deletion by filter, it
\* changes those that the filter finds.
Take(c) ==
  /\ ~Idle(c)
  /\ UNCHANGED <<grade, rows, writes>>
  /\ \E taken \in SUBSET writes[c].docs :
       /\ late' = IF \/ grade = "forgetful"
                     \/ grade = "reordering" /\ writes[c].op = "clear"
                  THEN late \cup taken ELSE late
       /\ \E changed \in IF writes[c].op = "filter" THEN SUBSET taken ELSE {taken} :
            store' = [d \in Docs |-> IF d \in changed THEN writes[c].to ELSE store[d]]

\* The row says success: the engine has all that was asked of what is its own.
Confirm(c) ==
  /\ ~Idle(c) /\ rows[c] = "pending"
  /\ grade = "sure" => \A d \in writes[c].own : store[d] = writes[c].to
  /\ rows' = [rows EXCEPT ![c] = "success"]
  /\ writes' = [writes EXCEPT ![c] = NoWrite]
  /\ UNCHANGED <<grade, late, store>>

\* A call that fails, has no row or dies may have stopped anywhere.
GiveUp(c) ==
  /\ ~Idle(c)
  /\ \/ UNCHANGED rows
     \/ rows[c] = "pending" /\ rows' = [rows EXCEPT ![c] = "failed"]
  /\ writes' = [writes EXCEPT ![c] = NoWrite]
  /\ UNCHANGED <<grade, late, store>>

\* The engine goes back on a write: a late clear takes documents away, a write
\* that fails leaves what was there before.
GoBack ==
  /\ late # {}
  /\ UNCHANGED <<grade, rows, writes>>
  /\ late' \in SUBSET late
  /\ store' \in [Docs -> Values]
  /\ \A d \in Docs \ late : store'[d] = store[d]
  /\ grade = "reordering" => \A d \in Docs : store'[d] \in {store[d], Absent}

\* The index is made anew or deleted.
Reset ==
  /\ UNCHANGED <<grade, rows>>
  /\ late' = {}
  /\ writes' = Yielding(Docs)
  /\ store' = [d \in Docs |-> Absent]

Next ==
  \/ \E c \in Callers : Ask(c) \/ Take(c) \/ Confirm(c) \/ GiveUp(c)
  \/ GoBack \/ Reset

Spec == Init /\ [][Next]_storeVars
=============================================================================
