--------------------------- MODULE MCSqlValidation ---------------------------
(***************************************************************************)
(* An instance of SqlValidation for TLC: up to two tables in two schemas,  *)
(* queries with up to two table references, of which one alias is the name *)
(* of a table, one CTE and one column reference.                           *)
(***************************************************************************)
EXTENDS SqlValidation, FiniteSets

CONSTANTS a, b, t, u, c, d

Refs == [schema : {None, a}, name : {t, u}, alias : {None, u}]

MCQueries ==
  [kind : {"query"}, ctes : {{}, {u}},
   tables : {s \in SUBSET Refs : Cardinality(s) <= 2},
   columns : {{}} \union {{r} : r \in [table : {None, t, u}, column : {c}]}]
  \union [kind : {"forbidden", "garbage"}, ctes : {{}}, tables : {{}}, columns : {{}}]

RowsWithId(i) ==
  [id : {i}, schema : {a, b}, name : {t, u}, columns : {{c}, {d}}]

(* Identifiers are only compared, so one numbering of two rows is enough.   *)
Pairs ==
  {p \in RowsWithId(1) \X RowsWithId(2) :
     \/ p[1].schema = a /\ p[2].schema = b
     \/ p[1].schema = p[2].schema /\ (p[1].name = t \/ p[2].name = u)}

MCInitialCatalogs ==
  {{}} \union {{x} : x \in RowsWithId(1)} \union {{p[1], p[2]} : p \in Pairs}

=============================================================================
