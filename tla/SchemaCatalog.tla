---------------------------- MODULE SchemaCatalog ----------------------------
(***************************************************************************)
(* What the readers of the metadata database may rely on about the indexed *)
(* tables, free of how a request indexes them: each commit takes the index *)
(* from one set of tables to another, an identifier belongs to one table   *)
(* for ever, and a table that stays keeps its schema, its name and its     *)
(* columns.  Tables may vanish, and new ones come with new identifiers.    *)
(*                                                                         *)
(* OfflineMetadata, the index requests as they are written, is shown to    *)
(* keep to this contract, and SqlValidation, a reader, to need no more.    *)
(***************************************************************************)

CONSTANTS Schemas, Names, ColumnNames, Ids

VARIABLES
  catalog,  \* the committed tables
  used      \* the identifiers given to rows so far

Entry == [id : Ids, schema : Schemas, name : Names, columns : SUBSET ColumnNames]

(* Tables are told apart by their identifiers, which have all been used.    *)
Numbered(tables, ids) ==
  /\ tables \in SUBSET Entry /\ ids \subseteq Ids
  /\ \A x \in tables : x.id \in ids
  /\ \A x, y \in tables : x.id = y.id => x = y

(* The table y is what has become of x.                                     *)
Continues(y, x) ==
  /\ y.id = x.id /\ y.schema = x.schema /\ y.name = x.name
  /\ x.columns \subseteq y.columns

Init == Numbered(catalog, used)

(* Identifiers are given to other rows, or to rows that did not stay.       *)
Reserve ==
  /\ UNCHANGED catalog
  /\ used \subseteq used' /\ used' \subseteq Ids

Commit ==
  /\ Numbered(catalog', used') /\ used \subseteq used'
  /\ \A y \in catalog' : y.id \in used => \E x \in catalog : Continues(y, x)

Next == Reserve \/ Commit

Spec == Init /\ [][Next]_<<catalog, used>>

=============================================================================
