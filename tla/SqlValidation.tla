---------------------------- MODULE SqlValidation ----------------------------
(***************************************************************************)
(* SqlValidationService.validate (services/pipelines/online/validation): a *)
(* generated query is checked against the tables and columns of the        *)
(* metadata database, which it reads with three queries: the tables that   *)
(* have a name the query mentions, then their columns and their schemas,   *)
(* which of the two first is not promised.  Index requests go on           *)
(* committing meanwhile; they add tables and columns, and a force_refresh  *)
(* replaces the rows of a database by rows with new identifiers.           *)
(***************************************************************************)
EXTENDS QueryMeaning

CONSTANTS
  Queries,                      \* the queries that may be given
  InitialCatalogs,              \* contents of the metadata database at the start
  LastInitialId,                \* the identifiers in them end here
  MaxChanges                    \* bound: commits of index requests

IdsUnique(rows) == \A x, y \in rows : x.id = y.id => x = y

ASSUME ValidationAssumption ==
  /\ None \notin Schemas \union Names
  /\ Queries \subseteq Query
  /\ LastInitialId \in Nat
  /\ \A c \in InitialCatalogs :
       /\ c \subseteq TableRow /\ IdsUnique(c)
       /\ \A x \in c : x.id \in 1..LastInitialId
  /\ MaxChanges \in Nat

VARIABLES
  catalog,   \* the committed tables
  lastId,    \* identifiers up to this one are used
  changes,   \* commits of index requests so far
  query,     \* the query given
  pc,
  alias_map, \* what each alias stands for
  rows,      \* db_tables, as far as they are loaded
  orphaned,  \* the schemas are loaded, and a row has none
  last,      \* of each key of the metadata map, the row that set it last
  verdict,
  seen       \* history: all there was in the index since the query was given

vars == <<catalog, lastId, changes, query, pc, alias_map, rows, orphaned, last,
          verdict, seen>>

----------------------------------------------------------------------------
(* The query.                                                               *)

(* "name", besides "schema.name" the other key of the metadata map.         *)
Short(x) == <<x.name>>
Keys == (Schemas \X Names) \union {<<n>> : n \in Names}

KeySwapped(ref) == IF ref.schema = None THEN Short(ref) ELSE <<ref.name, ref.schema>>

Key(ref) == IF ref.schema = None THEN Short(ref) ELSE Full(ref)

(* A later reference overwrites the alias of an earlier one.                *)
AliasMaps(q) ==
  LET aliased == {t \in q.tables : t.alias # None}
  IN {[a \in {t.alias : t \in aliased} |-> Key(latest[a])] :
        latest \in {f \in [{t.alias : t \in aliased} -> aliased] :
                      \A a \in DOMAIN f : f[a].alias = a}}

UnresolvedKey(col) == <<col.table>>

(* The key a qualified column is looked up by.                              *)
ResolvedKey(col) ==
  IF col.table \in DOMAIN alias_map THEN alias_map[col.table] ELSE <<col.table>>

----------------------------------------------------------------------------
(* The metadata map.                                                        *)

KeysOf(x) == {Full(x), Short(x)}

(* The row that sets a key last, in an order the database does not promise. *)
LastRows(found) ==
  {f \in [UNION {KeysOf(x) : x \in found} -> found] :
     \A k \in DOMAIN f : k \in KeysOf(f[k]) /\ f[Full(f[k])] = f[k]}

InMetadata(k) == k \in DOMAIN last

ColumnsOf(id) == UNION {x.columns : x \in {y \in catalog : y.id = id}}

(* selectinload: the rows there were, with the columns there are when these *)
(* are read.                                                                *)
Loaded ==
  IF pc \in {"fetch_both", "fetch_columns"}
  THEN {[x EXCEPT !.columns = ColumnsOf(x.id)] : x \in rows}
  ELSE rows

HasColumn(k, c) ==
  InMetadata(k) /\ \E x \in Loaded : x.id = last[k] /\ c \in x.columns

TableKnown(t) == InMetadata(Key(t))

ColumnKnownSomewhere(col) ==
  \E t \in RealTables(query) :
    HasColumn(Key(t), col.column) \/ HasColumn(Short(t), col.column)

(* An unqualified column may be of any table of the query, or of any other  *)
(* of the same name.                                                        *)
ColumnKnown(col) ==
  IF col.table # None
  THEN HasColumn(ResolvedKey(col), col.column)
  ELSE \E t \in RealTables(query) :
         HasColumn(Key(t), col.column) \/ HasColumn(Short(t), col.column)

Verified ==
  /\ \A t \in RealTables(query) : TableKnown(t)
  /\ \A col \in query.columns : ColumnKnown(col)

----------------------------------------------------------------------------
(* validate.                                                                *)

validation == <<query, pc, alias_map, rows, orphaned, last, verdict>>
index == <<catalog, lastId, changes, seen>>

Nothing == [x \in {} |-> x]

Init ==
  /\ catalog \in InitialCatalogs /\ lastId = LastInitialId /\ changes = 0
  /\ query \in Queries
  /\ pc = "received" /\ verdict = "none"
  /\ alias_map = Nothing /\ rows = {} /\ orphaned = FALSE /\ last = Nothing
  /\ seen = {catalog}

Answer(v) ==
  /\ pc' = "done" /\ verdict' = v
  /\ alias_map' = Nothing /\ rows' = {} /\ orphaned' = FALSE /\ last' = Nothing
  /\ UNCHANGED <<index, query>>

(* _is_read_only or _parse_sql refuses the text.                            *)
Refuse ==
  /\ pc = "received" /\ query.kind # "query"
  /\ Answer("rejected")

(* SELECT 1: nothing to look up.                                            *)
NothingToLookUp ==
  /\ pc = "received" /\ query.kind = "query"
  /\ RealTables(query) = {} /\ query.columns = {}
  /\ Answer("accepted")

Analyse ==
  /\ pc = "received" /\ query.kind = "query"
  /\ RealTables(query) # {} \/ query.columns # {}
  /\ alias_map' \in AliasMaps(query)
  /\ pc' = "fetch_tables"
  /\ UNCHANGED <<index, query, rows, orphaned, last, verdict>>

FetchTables ==
  /\ pc = "fetch_tables"
  /\ LET found == {x \in catalog : x.name \in {t.name : t \in RealTables(query)}}
     IN /\ rows' = {[x EXCEPT !.columns = {}] : x \in found}
        /\ \E f \in LastRows(found) : last' = [k \in DOMAIN f |-> f[k].id]
  /\ pc' = "fetch_both"
  /\ UNCHANGED <<index, query, alias_map, orphaned, verdict>>

GoneUnnoticed == FALSE

(* A row was deleted, its schema with it: db_table.schema is None.          *)
Gone == \E x \in rows : \A y \in catalog : y.id # x.id

Orphaned == IF pc = "fetch_schemas" THEN Gone ELSE orphaned

(* The first of the two selectinloads, which may be either.                 *)
FetchColumns ==
  /\ pc = "fetch_both"
  /\ rows' = Loaded
  /\ pc' = "fetch_schemas"
  /\ UNCHANGED <<index, query, alias_map, orphaned, last, verdict>>

FetchSchemas ==
  /\ pc = "fetch_both"
  /\ orphaned' = Gone
  /\ pc' = "fetch_columns"
  /\ UNCHANGED <<index, query, alias_map, rows, last, verdict>>

(* The other one, after which nothing is awaited any more.                  *)
(* db_table.schema.name raises if there is no schema, and validate answers  *)
(* with an error.                                                           *)
FetchRest ==
  /\ pc \in {"fetch_columns", "fetch_schemas"}
  /\ \/ /\ Orphaned
        /\ Answer("failed")
     \/ /\ ~Orphaned
        /\ Answer(IF Verified THEN "accepted" ELSE "rejected")

Reading == pc \in {"fetch_tables", "fetch_both", "fetch_columns", "fetch_schemas"}

DatabaseFailsRejects == Reading /\ Answer("rejected")

DatabaseFails == Reading /\ Answer("failed")

Validate ==
  \/ Refuse \/ NothingToLookUp \/ Analyse
  \/ FetchTables \/ FetchColumns \/ FetchSchemas \/ FetchRest \/ DatabaseFails

----------------------------------------------------------------------------
(* Index requests commit (SchemaIndex): one new column or table at a time,  *)
(* of which a re-index is a sequence, or the tables of one databases row    *)
(* anew, without those that could not be read.                              *)

AddColumn ==
  \E x \in catalog : \E c \in ColumnNames \ x.columns :
    /\ catalog' = (catalog \ {x}) \union {[x EXCEPT !.columns = @ \union {c}]}
    /\ lastId' = lastId

AddTable ==
  /\ \E s \in Schemas, n \in Names, c \in ColumnNames :
       catalog' = catalog \union
         {[id |-> lastId + 1, schema |-> s, name |-> n, columns |-> {c}]}
  /\ lastId' = lastId + 1

ForceRefreshInPlace ==
  /\ \E kept \in SUBSET catalog :
       catalog' = {[x EXCEPT !.columns = {}] : x \in kept}
  /\ lastId' = lastId

ForceRefresh ==
  /\ \E deleted \in SUBSET catalog : \E found \in SUBSET deleted :
       catalog' = (catalog \ deleted) \union {[x EXCEPT !.id = lastId + @] : x \in found}
  /\ lastId' = 2 * lastId

IndexCommits ==
  /\ changes < MaxChanges /\ changes' = changes + 1
  /\ AddColumn \/ AddTable \/ ForceRefresh
  /\ seen' = seen \union {catalog'}
  /\ UNCHANGED validation

Next == Validate \/ IndexCommits

Spec == Init /\ [][Next]_vars

----------------------------------------------------------------------------
(* Properties.                                                              *)

TypeOK ==
  /\ catalog \subseteq TableRow /\ IdsUnique(catalog)
  /\ lastId \in Nat /\ \A x \in catalog : x.id \in 1..lastId
  /\ changes \in 0..MaxChanges
  /\ query \in Queries
  /\ pc \in {"received", "done"} \/ Reading
  /\ DOMAIN alias_map \subseteq Names /\ \A a \in DOMAIN alias_map : alias_map[a] \in Keys
  /\ rows \subseteq TableRow /\ orphaned \in BOOLEAN
  /\ DOMAIN last \subseteq Keys
  /\ \A k \in DOMAIN last : \E x \in rows : x.id = last[k] /\ k \in KeysOf(x)
  /\ verdict \in {"none", "accepted", "rejected", "failed"}
  /\ catalog \in seen /\ seen \subseteq SUBSET TableRow

Accepts == verdict # "accepted" /\ verdict' = "accepted"

(* A query is accepted only if at one moment, since it was given, all the   *)
(* tables it reads, other than its CTEs, were in the index together, and    *)
(* each column it names is, when it is accepted, still a column of a table  *)
(* of one of the names in the query (sql_validation_service.py:196-287).    *)
(* More is not so: with the schemas read before the columns, a table that a *)
(* force_refresh removes in between has a schema and no columns, and a      *)
(* query that names none is accepted for it.                                *)
AcceptedTablesExist ==
  [][Accepts => /\ \E found \in seen : TablesThere(query, found)
                /\ ColumnsSomewhere(query, catalog)]_vars

(* As long as no two schemas share a table name, a query of one scope is    *)
(* accepted only if every column is, at that moment, a column of the table  *)
(* its qualifier stands for, or without one of some table of the query; a   *)
(* commit between the reads never makes up a table that mixes old and new   *)
(* (sql_validation_service.py:137-176, 252-287).                            *)
AcceptedColumnsExist ==
  [][Accepts /\ OneScope(query) /\ (\A found \in seen : NamesUnique(found))
       => ColumnsThere(query, catalog)]_vars

(* The metadata read are what is in the index.                              *)
UpToDate ==
  Loaded = {x \in catalog : x.name \in {t.name : t \in RealTables(query)}}

(* A query of one scope whose tables are in the index and whose columns are *)
(* theirs is not rejected, if each name is in the index once and nothing    *)
(* was committed between the reads: aliases, schemas and missing qualifiers *)
(* are all resolved (sql_validation_service.py:137-176, 233-287).           *)
ValidIsNotRejected ==
  [][/\ verdict' = "rejected" /\ Reading /\ UpToDate
     /\ OneScope(query) /\ RowsUnique(catalog)
     => RefersToNothing(query, catalog)]_vars

Service == INSTANCE Validator

(* The three reads, the map between them and the commits that fall in       *)
(* between come to what a validation promises: one verdict for a query, an  *)
(* accepting one only if what the query refers to was there together, its   *)
(* columns to the end, a rejecting one with a reason unless the index       *)
(* changed meanwhile or a name is ambiguous                                 *)
(* (sql_validation_service.py:38-94, 178-289).                              *)
ImplementsValidator == Service!Spec

Index == INSTANCE SchemaCatalog WITH Ids <- Nat, used <- 1..lastId

(* The commits are those of an index whose identifiers are never given to   *)
(* another table and whose tables never lose a column while they stay: the  *)
(* contract OfflineMetadata keeps to (schema_extraction_pipeline.py:203-257,*)
(* 275-366).                                                                *)
ImplementsCatalog == Index!Spec

(* What the documentation says: "All identifiers are validated against the  *)
(* database metadata before execution"                                      *)
(* (docs/services/pipelines/online/README.md:72): of an accepted query of   *)
(* one scope each column belongs to the table its qualifier stands for.     *)
AllIdentifiersValidated ==
  [][Accepts /\ OneScope(query) => ColumnsThere(query, catalog)]_vars

=============================================================================
