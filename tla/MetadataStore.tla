---------------------------- MODULE MetadataStore ----------------------------
(***************************************************************************)
(* The metadata database as schema extraction and description generation   *)
(* meet it (db/models): the committed rows of databases, schemas, tables   *)
(* and columns, each under its parent, with the facts found in the source  *)
(* and the description, if any.                                            *)
(*                                                                         *)
(* The database is PostgreSQL at READ COMMITTED: a transaction reads what  *)
(* is committed when its statement runs, and its own writes.  Rows are     *)
(* never shared between transactions before they are committed, and the    *)
(* locks of conflicting writes are held until the end of a transaction, so *)
(* that conflicts come out as if they were decided in commit order.        *)
(*                                                                         *)
(* No constraint of the database forbids two rows of the same name under   *)
(* the same parent; identifiers are uuid4 values, here the writer's number *)
(* and the object, which a writer inserts at most once.                    *)
(***************************************************************************)
EXTENDS Integers, FiniteSets

CONSTANTS
  DatabaseName,              \* the one source database
  Schemas, Tables, Columns,  \* objects that may ever exist in it
  Parent,                    \* what each schema, table and column is part of
  Requests,                  \* the index requests; they number the rows
  Earlier,                   \* the request that made the index there is
  Texts,                     \* descriptions
  NoText,                    \* no description row yet
  NoRow                      \* the parent of a databases row

Objects == {DatabaseName} \union Schemas \union Tables \union Columns

ASSUME StoreAssumption ==
  /\ DatabaseName \notin Schemas \union Tables \union Columns
  /\ Schemas \intersect Tables = {} /\ Schemas \intersect Columns = {}
  /\ Tables \intersect Columns = {}
  /\ Parent \in [Objects \ {DatabaseName} -> Objects]
  /\ \A s \in Schemas : Parent[s] = DatabaseName
  /\ \A t \in Tables : Parent[t] \in Schemas
  /\ \A c \in Columns : Parent[c] \in Tables
  /\ Earlier \notin Requests
  /\ NoText \notin Texts
  /\ NoRow \notin (Requests \union {Earlier}) \X Objects

VARIABLE store  \* the committed rows

----------------------------------------------------------------------------

RowId == (Requests \union {Earlier}) \X Objects

(* What a re-index refreshes: a version of the type, nullability, position  *)
(* and sample values of a column, or column_count of a table; and whether   *)
(* sample_values is a list or null.                                         *)
Facts == [version : Nat, listed : BOOLEAN]

Row == [id : RowId, parent : RowId \union {NoRow}, root : RowId,
        facts : Facts, text : Texts \union {NoText}]

Name(row) == row.id[2]

IdsOf(rows) == {x.id : x \in rows}

RowsNamed(rows, names) == {x \in rows : Name(x) \in names}

ChildrenOf(rows, id) == {x \in rows : x.parent = id}

WithoutRoots(rows, roots) == {x \in rows : x.id \notin roots}

WithoutColumns(rows, roots) ==
  {x \in rows : x.root \notin roots \/ Name(x) \notin Columns}

(* Deleting a databases row takes its schemas, tables, columns and their    *)
(* descriptions along, by cascade of the session and of the foreign keys.   *)
WithoutTrees(rows, roots) == {x \in rows : x.root \notin roots}

=============================================================================
