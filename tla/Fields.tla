--------------------- MODULE Fields ---------------------
(***************************************************************************)
(* Database tables and the migration operations on them, as the migrations *)
(* of the package use Django's.  A column is its type, its width, whether  *)
(* it is indexed, unique and nullable, and the table it refers to; help    *)
(* texts, choices, defaults and orderings are not part of a table.         *)
(***************************************************************************)
EXTENDS Naturals, Functions, TLC

Column(type, width) ==
  [type |-> type, width |-> width, index |-> FALSE, unique |-> FALSE,
   null |-> FALSE, refers |-> ""]

Char(max_length) == Column("varchar", max_length)
Decimal(max_digits, decimal_places) == Column("decimal", <<max_digits, decimal_places>>)
Uuid == Column("uuid", 0)
Time == Column("timestamp", 0)
Date == Column("date", 0)
Text == Column("text", 0)
Json == Column("json", 0)
Boolean == Column("boolean", 0)
Integer == Column("integer", 0)
Positive == Column("positive integer", 0)
PositiveSmall == Column("positive smallint", 0)
PositiveBig == Column("positive bigint", 0)
Ref(table) == [Column("foreign key", 0) EXCEPT !.refers = table]

Indexed(column)  == [column EXCEPT !.index = TRUE]
Unique(column)   == [column EXCEPT !.unique = TRUE]
Nullable(column) == [column EXCEPT !.null = TRUE]

\* TLC's @@ and :>, which the provers do not know: what f has, and what only g
\* has; and a function of one name.
f ++ g == [x \in DOMAIN f \cup DOMAIN g |-> IF x \in DOMAIN f THEN f[x] ELSE g[x]]
Entry(name, value) == [n \in {name} |-> value]

None == <<>>  \* no constraint, no index

\* A table: its columns, and its unique constraints and indexes by name,
\* each the sequence of the columns it is over.
TableWith(columns, unique, indexes) ==
  [columns |-> columns, unique |-> unique, indexes |-> indexes]

Table(columns) == TableWith(columns, None, None)

-----------------------------------------------------------------------------
(* Operations.  A database maps the names of its tables to the tables.     *)

CreateModels(db, tables) == db ++ tables

AddIndexes(db, table, indexes) ==
  [db EXCEPT ![table].indexes = @ ++ indexes]

AddConstraint(db, table, name, columns) ==
  [db EXCEPT ![table].unique = @ ++ Entry(name, columns)]

RenameIndex(db, table, old, new) ==
  LET indexes == db[table].indexes IN
  [db EXCEPT ![table].indexes =
     Restrict(indexes, DOMAIN indexes \ {old}) ++ Entry(new, indexes[old])]

AlterField(db, table, name, column) ==
  [db EXCEPT ![table].columns[name] = column]

=============================================================================
