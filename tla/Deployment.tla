------------------------------ MODULE Deployment ------------------------------
(***************************************************************************)
(* A deployment of the package: `migrate' brings the database from an      *)
(* earlier release, or from nothing, to the tables of this one; then the   *)
(* services write documents, each with its row in one of those tables.     *)
(***************************************************************************)
EXTENDS Schema, Engines

vars == <<schemaVars, engineVars>>

Init == SchemaInit /\ EnginesInit

Next ==
  \/ Migrate /\ UNCHANGED engineVars
  \/ Migrated /\ EnginesNext /\ UNCHANGED schemaVars

Spec == Init /\ [][Next]_vars
=============================================================================
