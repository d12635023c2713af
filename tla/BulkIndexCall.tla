--------------------------- MODULE BulkIndexCall ---------------------------
(***************************************************************************)
(* What a call of bulk_index promises its caller, whatever threads and     *)
(* queues it uses: each document is given to the engine at most once,      *)
(* nothing is given to the engine once the call is over, and a call that   *)
(* returns has given the engine every document.  The engine has applied a  *)
(* document it was given, or has refused it without an error; a backend    *)
(* that is sure does not do that.  A call that raises may have stopped     *)
(* anywhere.                                                               *)
(***************************************************************************)
EXTENDS Naturals

CONSTANT NDocs \* documents in the source

VARIABLES sure,    \* the backend raises for a document it does not take
          applied, \* applied[d]: how often the engine has applied document d
          refused, \* documents refused without an error
          outcome  \* of the call

vars == <<sure, applied, refused, outcome>>

Init ==
    /\ sure \in BOOLEAN
    /\ applied = [d \in 1..NDocs |-> 0]
    /\ refused = {}
    /\ outcome = "running"

\* The engine applies or refuses documents that it has not got yet.
Deliver ==
    /\ outcome = "running"
    /\ applied' \in [1..NDocs -> 0..1]
    /\ \A d \in 1..NDocs : applied[d] <= applied'[d]
    /\ refused \subseteq refused'
    /\ refused' \subseteq {d \in 1..NDocs : applied'[d] = 0}
    /\ sure => refused' = {}
    /\ UNCHANGED <<sure, outcome>>

Return ==
    /\ outcome = "running"
    /\ \A d \in 1..NDocs : applied[d] = 1 \/ d \in refused
    /\ outcome' = "returned"
    /\ UNCHANGED <<sure, applied, refused>>

Raise ==
    /\ outcome = "running"
    /\ outcome' = "raised"
    /\ UNCHANGED <<sure, applied, refused>>

Next == Deliver \/ Return \/ Raise

Spec == Init /\ [][Next]_vars
=============================================================================
