--------------------------- MODULE OfflineMetadata ---------------------------
(***************************************************************************)
(* Schema extraction and description generation at work on the same        *)
(* metadata database: index requests, description runs and changes of the  *)
(* source in any order, with faults at every step.                         *)
(***************************************************************************)
EXTENDS SchemaIndex, DescriptionGeneration

vars == <<store, indexVars, run>>

Init == IndexInit /\ GenerationInit

Next ==
  \/ IndexNext /\ UNCHANGED run
  \/ ~LoopHeld /\ GenerationNext /\ UNCHANGED indexVars

Spec == Init /\ [][Next]_vars

----------------------------------------------------------------------------
(* Properties.                                                              *)

(* The store, the requests and the runs have their types; identifiers are   *)
(* unique, and no committed row has lost its parent or its database.        *)
TypeOK ==
  /\ store \subseteq Row
  /\ \A x, y \in store : x.id = y.id => x = y
  /\ \A x \in store : {x.parent, x.root} \subseteq IdsOf(store) \union {NoRow}
  /\ edits \in 0..MaxEdits
  /\ source.columns \subseteq Columns
  /\ source.contents \in [Tables -> Contents]
  /\ source.version \in [Columns -> 0..MaxEdits]
  /\ disturbed \in [Requests -> BOOLEAN] /\ overlapped \in BOOLEAN
  /\ \A r \in Requests :
       /\ job[r].pc \in {"idle", "sample"} \union FetchPcs \union SavePcs \union Ended
       /\ job[r].tries \in 0..(MaxTries - 1)
       /\ job[r].inserts \subseteq Row
       /\ job[r].deletes \union Range(job[r].ids) \subseteq RowId
  /\ \A g \in Runs :
       /\ run[g].pc \in {"idle", "generate", "success", "not_found", "aborted",
                         "crashed"}
       /\ run[g].rows \subseteq LoadedRow
       /\ run[g].todo \subseteq IdsOf(run[g].rows)

(* The columns an index request is to find: those of tables that have       *)
(* samples and that it could read.                                          *)
Indexable(r) ==
  {c \in source.columns :
     HasSamples(Parent[c]) /\ Parent[c] \notin job[r].unread}

RowsIndexed(r) == {x \in store : x.root = job[r].ids[DatabaseName]}

(* A row and the rows it is part of have the names the source has.          *)
RightPlace(x) ==
  Name(x) = DatabaseName \/
  \E y \in store : y.id = x.parent /\ Name(y) = Parent[Name(x)]

(* An index request that succeeded and that nothing disturbed has left a    *)
(* row for every column it was to find, with the facts of the source, in    *)
(* its place; after a force_refresh there is nothing else in the index      *)
(* (schema_extraction_pipeline.py:142-257, 286-300).                        *)
IndexMirrorsSource ==
  \A r \in Requests : job[r].pc = "success" /\ ~disturbed[r] =>
    /\ \A c \in Indexable(r) : \E x \in RowsNamed(RowsIndexed(r), {c}) :
         RightPlace(x) /\ x.facts.version = source.version[c]
    /\ job[r].force =>
         /\ {Name(x) : x \in RowsIndexed(r)} =
              {DatabaseName} \union SourceSchemas \union Indexable(r)
                \union {Parent[c] : c \in Indexable(r)}
         /\ \A x \in RowsIndexed(r) : RightPlace(x)

(* Nothing in the database keeps two rows of one name under one parent from *)
(* being inserted; as long as no two requests save at the same time, it     *)
(* does not happen, however often the source is indexed again               *)
(* (the select-then-insert of schema_extraction_pipeline.py:278-366).       *)
NoDuplicates ==
  ~overlapped =>
    \A x, y \in store : x.parent = y.parent /\ Name(x) = Name(y) => x = y

(* No table is in the index without a column, after no fault, conflict or   *)
(* race: a request that fails leaves nothing behind, one that succeeds      *)
(* leaves all (one transaction, schema_extraction_pipeline.py:205).         *)
NoHalfTables ==
  \A x \in RowsNamed(store, Tables) : ChildrenOf(store, x.id) # {}

(* sample_values of an indexed column is a list, for only tables with       *)
(* samples are kept; description generation slices it outside of its try    *)
(* (generator.py:97), and a null would abort its run.                       *)
SamplesAreLists == \A x \in RowsNamed(store, Columns) : x.facts.listed

(* A description disappears only with a database that a force_refresh       *)
(* deletes: not by a re-index, a fault, nor another description run         *)
(* (schema_extraction_pipeline.py:356-363, generate/pipeline.py:126-134).   *)
DescriptionsStay ==
  [][\A x \in store : x.text # NoText =>
       \/ \E y \in store' : y.id = x.id /\ y.text # NoText
       \/ \E r \in Requests : job[r].force /\ x.root \in job[r].deletes
                              /\ job'[r].pc = "success"]_vars

(* A run that reports success has described every table it was to describe  *)
(* and every column it knew of it; rows deleted since are none of its       *)
(* business (generate/pipeline.py:99-147).                                  *)
SuccessDescribesAll ==
  \A g \in Runs : run[g].pc = "success" =>
    \A x \in store : x.id \in IdsOf(run[g].rows) => x.text # NoText

(* The tables of the index with the names their readers know them by, and   *)
(* the identifiers that are or were theirs.                                 *)
TablesIndexed ==
  {[id |-> x.id, schema |-> x.parent[2], name |-> Name(x),
    columns |-> {Name(y) : y \in ChildrenOf(store, x.id)}] :
      x \in RowsNamed(store, Tables)}

IdsGiven ==
  ({Earlier} \union {r \in Requests : job[r].pc = "success"}) \X Objects

Catalog == INSTANCE SchemaCatalog WITH
  Ids <- RowId, Names <- Tables, ColumnNames <- Columns,
  catalog <- TablesIndexed, used <- IdsGiven

(* To a reader of tables and columns every request commits at once or not   *)
(* at all, no identifier comes back for another table, and a table that     *)
(* stays keeps its schema, its name and its columns, however requests race  *)
(* and fail (one transaction, schema_extraction_pipeline.py:203-257;        *)
(* deletion of the whole tree, 286-300; select-then-insert, 302-366).       *)
ImplementsCatalog == Catalog!Spec

(* What the comment says: "Commit per table for robustness"                 *)
(* (generate/pipeline.py:136): a table whose commit fails does not keep the *)
(* run from the tables after it.                                            *)
OneTableCostsOneTable == \A g \in Runs : run[g].pc # "aborted"

=============================================================================
