---------------------------- MODULE Schema ----------------------------
(***************************************************************************)
(* The package's tables from one release to the next.  A database was      *)
(* brought to some migration of the chain 0001 to 0006 by an earlier       *)
(* release, or is new; `migrate' then applies what the package ships: the  *)
(* squashed migration where none of the ones it replaces was applied, the  *)
(* rest of the chain where some were, and 0007 after either.               *)
(***************************************************************************)
EXTENDS SchemaSquash

CONSTANT ICV_AUTH_USER_MODEL  \* where the package's models look for users

VARIABLES
  applied,  \* the rows of django_migrations for this package
  tables    \* the database

schemaVars == <<applied, tables>>

Chain  == INSTANCE SchemaChain
Model  == INSTANCE SchemaModels

\* What each migration does to the database.
Operations(m, db) ==
  CASE m = "0001" -> Chain!Migration0001(db)
    [] m = "0002" -> Chain!Migration0002(db)
    [] m = "0003" -> Chain!Migration0003(db)
    [] m = "0004" -> Chain!Migration0004(db)
    [] m = "0005" -> Chain!Migration0005(db)
    [] m = "0006" -> Chain!Migration0006(db)
    [] m = "squashed" -> Squashed(db)
    [] m = "0007" -> Migration0007(db)

\* The dependencies along the chain.
Dependency == [m \in Replaces \ {"0001"} |->
  CASE m = "0002" -> "0001" [] m = "0003" -> "0002" [] m = "0004" -> "0003"
    [] m = "0005" -> "0004" [] m = "0006" -> "0005"]

\* The states an earlier release leaves: a prefix of the chain, applied in order.
Chained(n) ==
  LET names == <<"0001", "0002", "0003", "0004", "0005", "0006">>
      db[k \in 0 .. n] == IF k = 0 THEN None ELSE Operations(names[k], db[k - 1])
  IN  [applied |-> {names[k] : k \in 1 .. n}, tables |-> db[n]]

SchemaInit ==
  \E n \in 0 .. 6 : applied = Chained(n).applied /\ tables = Chained(n).tables

\* Django leaves a squashed migration out of its graph when some but not all
\* of the migrations it replaces were applied, and those out otherwise.
Untouched == applied \cap Replaces = {}

ApplyMigration(m) ==
  /\ m \notin applied
  /\ applied' = applied \cup {m}
  /\ tables' = Operations(m, tables)

\* A new database: the squashed migration, recorded as all that it replaces.
MigrateSquashed ==
  /\ Untouched
  /\ applied' = applied \cup Replaces
  /\ tables' = Operations("squashed", tables)

\* A database part of the way along the chain goes on along it.
MigrateChain ==
  \E m \in DOMAIN Dependency :
    /\ Dependency[m] \in applied
    /\ ApplyMigration(m)

\* Once all that it replaces is applied, the squashed one is recorded too.
RecordSquashed ==
  /\ Replaces \subseteq applied
  /\ "squashed" \notin applied
  /\ applied' = applied \cup {"squashed"}
  /\ UNCHANGED tables

\* 0007 depends on the squashed migration, in whose place stands 0006.
MigrateNext ==
  /\ Replaces \subseteq applied
  /\ ApplyMigration("0007")

Migrate == MigrateSquashed \/ MigrateChain \/ RecordSquashed \/ MigrateNext

Migrated == {"0007", "squashed"} \subseteq applied

\* Whatever release a database comes from, once it is migrated its tables are
\* those the models declare: the squashed migration, the chain and any part of
\* the chain continued lead to the same columns, constraints and index names.
SchemaAgrees == Migrated => tables = Model!Models

=============================================================================
