---------------------------- MODULE QueryMeaning ----------------------------
(***************************************************************************)
(* The words in which the validation of a query is described: what a query *)
(* refers to, what the metadata database holds, and which of it a          *)
(* reference means.  Shared by SqlValidation, the service as it is written *)
(* (services/pipelines/online/validation), and Validator, what it          *)
(* promises.                                                               *)
(*                                                                         *)
(* A query is what the code takes from its syntax tree: the names of its   *)
(* CTEs, its table references and its column references, wherever in the   *)
(* query they stand.  Names are compared in lower case by the code and are *)
(* lower case here; a name does not contain a dot.                         *)
(***************************************************************************)
EXTENDS Naturals

CONSTANTS
  Schemas, Names, ColumnNames,  \* Names: of tables, CTEs and aliases
  None                          \* no schema, no alias, no qualifier

(* FROM schema.name AS alias                                                *)
TableRef == [schema : Schemas \union {None}, name : Names,
             alias : Names \union {None}]

ColumnRef == [table : Names \union {None}, column : ColumnNames]

(* kind: text that is not read-only by its words, text that does not parse, *)
(* or a query.                                                              *)
Query == [kind : {"forbidden", "garbage", "query"}, ctes : SUBSET Names,
          tables : SUBSET TableRef, columns : SUBSET ColumnRef]

(* A row of tables, joined with its schema and its columns.                 *)
TableRow == [id : Nat, schema : Schemas, name : Names, columns : SUBSET ColumnNames]

(* "schema.name", by which a row and a qualified reference are known.       *)
Full(x) == <<x.schema, x.name>>

(* Whoever has the name of a CTE is taken for it, with a schema or not.     *)
RealTables(q) == {t \in q.tables : t.name \notin q.ctes}

----------------------------------------------------------------------------
(* What the query means.                                                    *)

(* The rows a table reference can stand for.                                *)
Denoted(t, found) ==
  {x \in found : x.name = t.name /\ t.schema \in {None, x.schema}}

(* The name by which the query's columns refer to a table.                  *)
Exposed(t) == IF t.alias = None THEN t.name ELSE t.alias

Has(t, col, found) == \E x \in Denoted(t, found) : col.column \in x.columns

(* The columns a query of one scope has for certain: its tables are no      *)
(* CTEs and are told apart by the names they expose.                        *)
OneScope(q) ==
  /\ \A t \in q.tables : t.name \notin q.ctes
  /\ \A t, u \in q.tables : Exposed(t) = Exposed(u) => t = u

NamesUnique(found) == \A x, y \in found : x.name = y.name => Full(x) = Full(y)

RowsUnique(found) == \A x, y \in found : x.name = y.name => x = y

TablesThere(q, found) == \A t \in RealTables(q) : Denoted(t, found) # {}

(* Every column of the query is one of a table with a name in the query.    *)
ColumnsSomewhere(q, found) ==
  \A col \in q.columns : \E x \in found :
    x.name \in {t.name : t \in RealTables(q)} /\ col.column \in x.columns

(* Every table a qualifier stands for has the column, and so has some table *)
(* if there is no qualifier.                                                *)
ColumnsThere(q, found) ==
  \A col \in q.columns :
    /\ \A t \in q.tables : Exposed(t) = col.table => Has(t, col, found)
    /\ col.table = None => \E t \in q.tables : Has(t, col, found)

(* Something the query refers to is not there.                              *)
RefersToNothing(q, found) ==
  \/ \E t \in q.tables : Denoted(t, found) = {}
  \/ \E col \in q.columns :
       ~ \E t \in q.tables : col.table \in {None, Exposed(t)} /\ Has(t, col, found)

=============================================================================
